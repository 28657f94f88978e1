---------------------------- MODULE JamHandshake ----------------------------
(***************************************************************************)
(* What the interface contract promises of a competition receiver, however *)
(* it is written (docs/sdr_receiver_ros2_interface_contract.md, section 3):*)
(* the judge names a level; a key goes out for that level only; below the  *)
(* highest level the receiver then waits for the judge to move on, at the  *)
(* highest one it turns to INFO.  Without a usable context the handshake   *)
(* is suspended (section 7).                                               *)
(***************************************************************************)
EXTENDS Integers

CONSTANT MaxLevel   \* the highest level this receiver breaks

VARIABLES
    judge,  \* the level being worked on, as the judge named it; 0 if none
    sent,   \* the levels a key has been published for
    phase   \* "idle", "jam", "wait" or "info"

hvars == << judge, sent, phase >>

HInit == judge = 0 /\ sent = {} /\ phase = "idle"

\* The judge names a level: receive its key.  If that has gone out already
\* only a new level can help, which the receiver may know or find out.
Hear(l) ==
    /\ phase # "info"
    /\ judge' = l
    /\ phase' \in IF l \in sent /\ l < MaxLevel THEN {"wait", "jam"} ELSE {"jam"}
    /\ UNCHANGED sent

\* A key of the judge's level goes out (for the first time or again).
Publish ==
    /\ phase # "info"
    /\ judge # 0
    /\ sent' = sent \cup {judge}
    /\ phase' = IF judge = MaxLevel THEN "info" ELSE "wait"
    /\ UNCHANGED judge

Suspend ==
    /\ phase' = "idle"
    /\ judge' \in {0, judge}
    /\ UNCHANGED sent

\* A receiver that remembers its final key returns to INFO at once.
Resume ==
    /\ phase = "idle" /\ MaxLevel \in sent
    /\ phase' = "info"
    /\ judge' = MaxLevel
    /\ UNCHANGED sent

HNext == (\E l \in 1 .. MaxLevel : Hear(l)) \/ Publish \/ Suspend \/ Resume

HSpec == HInit /\ [][HNext]_hvars
=============================================================================
