------------------------------ MODULE MCPushContents ------------------------------
(***************************************************************************)
(* Two directories. The first may hold an .imgpkg, its images.yml, a file  *)
(* and a directory that is excluded; the second an .imgpkg that is a file, *)
(* a link with the path of the first's file. One command pushes both, the  *)
(* other one the second, to the same tag.                                  *)
(***************************************************************************)
EXTENDS PushContents

CONSTANTS p1, p2, d1, dot, yml, a, s, sx, d2, dot2, a2

MCEntry   == <<d1, dot, yml, a, s, sx, d2, dot2, a2>>
MCEntries == {d1, dot, yml, a, s, sx, d2, dot2, a2}
MCParent  == [x \in MCEntries |-> CASE x \in {d1, d2} -> "root" [] x \in {dot, a, s} -> d1
                                   [] x = yml -> dot [] x = sx -> s [] OTHER -> d2]
MCKind    == [x \in MCEntries |-> CASE x \in {d1, dot, s, d2} -> "dir" [] x = a2 -> "special" [] OTHER -> "file"]
MCNamed   == [x \in MCEntries |-> CASE x \in {dot, dot2} -> "imgpkg" [] x = yml -> "images" [] OTHER -> "other"]
MCRel     == [x \in MCEntries |-> CASE x \in {d1, d2} -> "." [] x \in {dot, dot2} -> ".imgpkg"
                                   [] x = yml -> ".imgpkg/images.yml" [] x \in {a, a2} -> "a"
                                   [] x = s -> "s" [] OTHER -> "s/x"]
MCPaths    == [p \in {p1, p2} |-> IF p = p1 THEN <<d1, d2>> ELSE <<d2>>]
MCExcluded == [p \in {p1, p2} |-> IF p = p1 THEN {"s"} ELSE {}]
MCTag      == [p \in {p1, p2} |-> "tag"]
MCFlag(k, l) == [modes |-> {k}, lock |-> l, reserved |-> FALSE]
MCFlags == [p \in {p1, p2} |-> {MCFlag("bundle", TRUE), MCFlag("image", p = p2)}
                               \cup IF p = p1 THEN {} ELSE {MCFlag("image", FALSE)}]
===================================================================================
