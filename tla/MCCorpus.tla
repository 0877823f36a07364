------------------------------ MODULE MCCorpus ------------------------------
(* Small instances of Corpus. *)
EXTENDS Corpus

CONSTANTS w1, w2, s1, d1, d2, g1

Open == [doc |-> d1, acl |-> {}, parts |-> 1]
Restricted == [doc |-> d1, acl |-> {g1}, parts |-> 1]
TwoParts == [doc |-> d2, acl |-> {g1}, parts |-> 2]
Empty == [doc |-> d2, acl |-> {}, parts |-> 0]

OneDocument == {<<Restricted>>}
TwoDocuments == {<<Restricted, Open>>, <<Empty>>}
SameDocument == {<<Restricted>>, <<Open>>}
Nobody == {}
EverybodyAsks == {Admin} \cup [unrestricted : {FALSE}, groups : {{}, {g1}}]
MemberAsks == [unrestricted : {FALSE}, groups : {{}, {g1}}]
Demo == <<Open>>
DemoTwoParts == <<TwoParts>>
ThreeIds == 1 .. 3
FourIds == 1 .. 4
TwoIds == 1 .. 2
=============================================================================
