--------------------------- MODULE MCJitPublisher ---------------------------
(* Instances of JitPublisher for TLC. *)
EXTENDS JitPublisher

CONSTANTS high, low \* the renditions

OneRendition == <<high>>
TwoRenditions == <<high, low>>
Nine == [n \in {high, low} |-> 9]
NoBitrate == [n \in {high} |-> NoRate]

\* Two track names per worker: the leftover of a session and a fresh one.
HighTracks == [w \in {high} |-> {1, 2}]
BothTracks == [w \in {high, low} |-> IF w = high THEN {1, 2} ELSE {3, 4}]

Valid(names) == [kind |-> "valid", names |-> names]
NotValid(kind) == [kind |-> kind, names |-> {}]

AdvertiseAll == {Valid(AllActive)}
StartFiles == {Missing, Valid({}), Valid(AllActive)}
FewEdits == {Valid({}), Valid({high})}
AllEdits == {Missing, Valid({}), Valid(AllActive), NotValid("invalid"), NotValid("unreadable")}
=============================================================================
