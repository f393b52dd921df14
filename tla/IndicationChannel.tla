------------------------- MODULE IndicationChannel ------------------------
(***************************************************************************)
(* What a destination queue promises its listener: indications, named by   *)
(* the order in which they were accepted, are attempted one at a time and  *)
(* always oldest first.  A failed indication may be tried again, but none  *)
(* newer is tried while it is kept.  Any indication that is not being      *)
(* delivered may be discarded.                                             *)
(***************************************************************************)
EXTENDS Integers

VARIABLES
    accepted,       \* number of indications accepted
    pending,        \* accepted, neither delivered nor discarded
    attempting      \* the one being delivered, 0 if there is none

channelVars == <<accepted, pending, attempting>>

Oldest(i) == i \in pending /\ \A j \in pending : i <= j

ChannelInit ==
    /\ accepted = 0
    /\ pending = {}
    /\ attempting = 0

\* An indication is accepted; a full channel discards others for it.
Accept ==
    /\ accepted' = accepted + 1
    /\ \E D \in SUBSET (pending \ {attempting}) :
          pending' = (pending \ D) \cup {accepted + 1}
    /\ UNCHANGED attempting

\* Indications are discarded, then the oldest of the rest is tried.
Attempt ==
    /\ attempting = 0
    /\ pending' \subseteq pending
    /\ attempting' \in pending'
    /\ \A j \in pending' : attempting' <= j
    /\ UNCHANGED accepted

\* The attempt ended; the indication is kept for another one, or is gone.
Finish ==
    /\ attempting # 0
    /\ attempting' = 0
    /\ pending' \in {pending, pending \ {attempting}}
    /\ UNCHANGED accepted

Discard ==
    /\ pending' \subseteq pending
    /\ attempting # 0 => attempting \in pending'
    /\ UNCHANGED <<accepted, attempting>>

ChannelNext == Accept \/ Attempt \/ Finish \/ Discard

ChannelSpec == ChannelInit /\ [][ChannelNext]_channelVars
=============================================================================
