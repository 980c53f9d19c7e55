---------------------------- MODULE MCRegistryClient ----------------------------
(***************************************************************************)
(* A copy as its goroutines talk to registries: m1 and m2 look for images  *)
(* to mount, of two sources of which the destination's credentials read    *)
(* one; w uploads after them, v and v2 verify what was uploaded; n writes  *)
(* the locations with the quiet registry at the end, and goes on with a    *)
(* registry without a keychain and with malformed references.              *)
(***************************************************************************)
EXTENDS RegistryClient

CONSTANTS m1, m2, w, v, v2, n, open, secret, away, dst, bad, reader1, writer1, anon,
          whole, part, star

MCOp(k, c, l, rs) == [kind |-> k, client |-> c, logged |-> l, repos |-> rs, dest |-> dst]

MCScript ==
    [t \in {m1, m2, w, v, v2, n} |->
        CASE t = m1 -> <<MCOp("first", "main", FALSE, <<dst, open>>), MCOp("mountable", "main", FALSE, <<open>>)>>
          [] t = m2 -> <<MCOp("mountable", "main", FALSE, <<away>>), MCOp("get", "main", FALSE, <<open>>),
                        MCOp("mountable", "main", FALSE, <<secret>>)>>
          [] t = w -> <<MCOp("multiwrite", "main", TRUE, <<dst, dst>>)>>
          [] t = v2 -> <<MCOp("digest", "main", FALSE, <<dst>>), MCOp("get", "main", FALSE, <<away>>)>>
          [] t = v -> <<MCOp("digest", "main", FALSE, <<dst>>), MCOp("get", "main", FALSE, <<open>>)>>
          [] t = n -> <<MCOp("write", "quiet", FALSE, <<dst>>), MCOp("write", "quiet", FALSE, <<dst>>),
                        MCOp("mountable", "basic", FALSE, <<open>>), MCOp("first", "main", FALSE, <<bad, dst>>),
                        MCOp("mountable", "main", FALSE, <<bad>>), MCOp("multiwrite", "main", TRUE, <<bad, bad>>)>>]

MCAfter == [t \in {m1, m2, w, v, v2, n} |->
    CASE t = w -> {m1, m2} [] t \in {v, v2} -> {w} [] t = n -> {w, v, v2} [] OTHER -> {}]

\* What the name that carries a protocol has for a registry is the protocol.
MCRegistryOf == [r \in {open, secret, away, dst, bad} |->
                    CASE r = away -> "r2" [] r = bad -> "https:" [] OTHER -> "r1"]
MCReads      == [a \in {reader1, writer1, anon} |->
                    CASE a = writer1 -> {dst, open} [] a = reader1 -> {open, secret} [] OTHER -> {away}]

\* The environment has credentials for the registry and others for the destination in it,
\* and for a path on whatever host: its URL comes last, although it is closer to open. The
\* docker configuration has none for the other registry.
MCPathOf ==
    LET slash == 47  letter == [r \in {open, secret, away, dst, bad} |->
            CASE r = dst -> 100 [] r = open -> 111 [] r = secret -> 115 [] r = away -> 97 [] OTHER -> 98]
    IN  [r \in {open, secret, away, dst, bad} |-> <<slash, letter[r]>>]
MCR1          == <<114, 49>>
MCStar        == <<42>>
MCEnvHost     == [e \in {whole, part, star} |-> IF e = star THEN MCStar ELSE MCR1]
MCEnvPath     == [e \in {whole, part, star} |->
                    CASE e = whole -> << >> [] e = part -> MCPathOf[dst] [] OTHER -> MCPathOf[open]]
MCEnvAuth     == [e \in {whole, part, star} |-> IF e = whole THEN reader1 ELSE writer1]
MCHostMatches == [h \in {MCR1, MCStar} |-> IF h = MCStar THEN {"r1", "r2"} ELSE {"r1"}]
MCIaas       == <<[r \in {open, secret, away, dst, bad} |-> anon]>>
MCDockerAuth == [r \in {open, secret, away, dst, bad} |-> anon]
================================================================================
