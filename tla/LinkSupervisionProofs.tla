----------------------- MODULE LinkSupervisionProofs -----------------------
(***************************************************************************)
(* Proofs about the link supervision, for any modes and whatever of        *)
(* Failures happens.  What the thread has read of the PHY is true as long  *)
(* as MISR, read before it, shows no further event.                        *)
(***************************************************************************)
EXTENDS LinkSupervision, TLAPS

Checking == step \in {"check", "mode", "down", "up", "setDown", "setUp"}

\* While the line is low something will still make the thread read MISR.
Awake ==
  misr => \/ edge \/ flag \/ step \in {"unborn", "firstHandle", "handle"}
          \/ Checking /\ return = "firstHandle"
          \/ failed \cap {"interrupt", "first"} # {}

PhyOK == ~carrier => negotiated = None
PortOK == configured => speed = mac

\* What the thread knows, and has done, at each step of a check.
Known ==
  /\ step = "mode" => carrier
  /\ step \in {"down", "setDown"} => negotiated = None
  /\ step \in {"up", "setUp"} => negotiated = seen /\ seen # None
  /\ step = "setUp" => mac = seen
  /\ step \in {"firstHandle", "handle", "wait"} => Follows

UpToDate == ~misr /\ running /\ failed = {} => Known

SeenOK == step \in {"up", "setUp"} => seen \in Modes

IInv == TypeOK /\ SeenOK /\ PhyOK /\ PortOK /\ Awake /\ UpToDate

-----------------------------------------------------------------------------
(* The invariant holds, part by part *)

LEMMA InitIInv == Init => IInv
BY FailuresAssumption, ModesAssumption
   DEF Init, IInv, TypeOK, PhyOK, PortOK, SeenOK, Awake, UpToDate, Known, Checking

Steps == {"unborn", "firstHandle", "handle", "wait", "check", "mode", "down", "up", "setDown", "setUp"}

LEMMA StepTypeOK == ASSUME TypeOK, SeenOK, Next PROVE TypeOK' /\ SeenOK'
<1> USE DEF TypeOK, SeenOK, Goto, Fails, port, phy, Kinds, Steps
<1>1. CASE LinkChanges
  <2>1. /\ carrier' \in BOOLEAN /\ negotiated' \in Modes \cup {None}
        /\ misr' \in BOOLEAN /\ edge' \in BOOLEAN
    BY <1>1 DEF LinkChanges, Event
  <2>2. UNCHANGED <<flag, step, return, seen, mac, running, configured, speed, up, failed>>
    BY <1>1 DEF LinkChanges
  <2> QED BY <2>1, <2>2
<1>2. CASE Interrupt
  <2>1. edge' \in BOOLEAN /\ flag' \in BOOLEAN
    BY <1>2 DEF Interrupt, Notified
  <2>2. UNCHANGED <<carrier, negotiated, misr, step, return, seen, mac, running, configured, speed, up, failed>>
    BY <1>2 DEF Interrupt
  <2> QED BY <2>1, <2>2
<1>3. CASE BusError
  <2>1. running' \in BOOLEAN /\ UNCHANGED <<flag, step, return, seen, mac, configured, speed, up, failed>>
        /\ UNCHANGED phy
    BY <1>3, Zenon DEF BusError
  <2> QED BY <2>1
<1>4. CASE ThreadStarts
  <2>1. /\ step' \in Steps /\ return' \in {"firstHandle", "wait"}
        /\ (step' \in {"up", "setUp"} => seen' \in Modes)
    BY <1>4 DEF ThreadStarts
  <2>2. UNCHANGED <<carrier, negotiated, misr, edge, flag, seen, mac, running, configured, speed, up, failed>>
    BY <1>4 DEF ThreadStarts
  <2> QED BY <2>1, <2>2
<1>5. CASE WaitEnds
  <2>1. /\ flag' \in BOOLEAN /\ step' \in Steps
        /\ (step' \in {"up", "setUp"} => seen' \in Modes)
    BY <1>5 DEF WaitEnds, Waiting
  <2>2. UNCHANGED <<carrier, negotiated, misr, edge, return, seen, mac, running, configured, speed, up, failed>>
    BY <1>5 DEF WaitEnds
  <2> QED BY <2>1, <2>2
<1>6. CASE HandleBusy
  <2>1. /\ step' \in Steps /\ failed' \subseteq Kinds \cup {"first"}
        /\ (step' \in {"up", "setUp"} => seen' \in Modes)
    BY <1>6 DEF HandleBusy, BusyNext
  <2>2. UNCHANGED <<carrier, negotiated, misr, edge, flag, return, seen, mac, running, configured, speed, up>>
    BY <1>6 DEF HandleBusy
  <2> QED BY <2>1, <2>2
<1>7. CASE HandleReads
  <2>1. /\ misr' \in BOOLEAN /\ step' \in Steps /\ return' \in {"firstHandle", "wait"} /\ failed' \subseteq Kinds \cup {"first"}
        /\ (step' \in {"up", "setUp"} => seen' \in Modes)
    BY <1>7 DEF HandleReads
  <2>2. UNCHANGED <<carrier, negotiated, edge, flag, seen, mac, running, configured, speed, up>>
    BY <1>7 DEF HandleReads
  <2> QED BY <2>1, <2>2
<1>8. CASE CheckBusy
  <2>1. /\ step' \in Steps /\ failed' \subseteq Kinds \cup {"first"}
        /\ (step' \in {"up", "setUp"} => seen' \in Modes)
    BY <1>8 DEF CheckBusy
  <2>2. UNCHANGED <<carrier, negotiated, misr, edge, flag, return, seen, mac, running, configured, speed, up>>
    BY <1>8 DEF CheckBusy
  <2> QED BY <2>1, <2>2
<1>9. CASE StateFails
  <2>1. /\ step' \in Steps /\ failed' \subseteq Kinds \cup {"first"}
        /\ (step' \in {"up", "setUp"} => seen' \in Modes)
    BY <1>9 DEF StateFails
  <2>2. UNCHANGED <<carrier, negotiated, misr, edge, flag, return, seen, mac, running, configured, speed, up>>
    BY <1>9 DEF StateFails
  <2> QED BY <2>1, <2>2
<1>10. CASE ReadCarrier
  <2>1. /\ step' \in Steps /\ seen' \in Modes \cup {None}
        /\ (step' \in {"up", "setUp"} => seen' \in Modes)
    BY <1>10 DEF ReadCarrier
  <2>2. UNCHANGED <<carrier, negotiated, misr, edge, flag, return, mac, running, configured, speed, up, failed>>
    BY <1>10 DEF ReadCarrier
  <2> QED BY <2>1, <2>2
<1>11. CASE ReadMode
  <2>1. /\ step' \in Steps /\ seen' \in Modes \cup {None}
        /\ (step' \in {"up", "setUp"} => seen' \in Modes)
    BY <1>11 DEF ReadMode, LinkIsUp
  <2>2. UNCHANGED <<carrier, negotiated, misr, edge, flag, return, mac, running, configured, speed, up, failed>>
    BY <1>11 DEF ReadMode
  <2> QED BY <2>1, <2>2
<1>12. CASE LinkDown
  <2>1. /\ step' \in Steps /\ configured' = FALSE
        /\ (step' \in {"up", "setUp"} => seen' \in Modes)
    BY <1>12 DEF LinkDown
  <2>2. UNCHANGED <<carrier, negotiated, misr, edge, flag, return, seen, mac, running, speed, up, failed>>
    BY <1>12 DEF LinkDown
  <2> QED BY <2>1, <2>2
<1>13. CASE Configure
  <2>1. /\ step' \in Steps /\ mac' \in Modes /\ configured' \in BOOLEAN /\ speed' \in Modes \cup {None} /\ (configured' => speed' \in Modes)
        /\ (step' \in {"up", "setUp"} => seen' \in Modes)
    BY <1>13 DEF Configure
  <2>2. UNCHANGED <<carrier, negotiated, misr, edge, flag, return, seen, running, up, failed>>
    BY <1>13 DEF Configure
  <2> QED BY <2>1, <2>2
<1>14. CASE AlreadyConfigured
  <2>1. /\ step' \in Steps
        /\ (step' \in {"up", "setUp"} => seen' \in Modes)
    BY <1>14 DEF AlreadyConfigured
  <2>2. UNCHANGED <<carrier, negotiated, misr, edge, flag, return, seen, mac, running, configured, speed, up, failed>>
    BY <1>14 DEF AlreadyConfigured
  <2> QED BY <2>1, <2>2
<1>15. CASE SetInterface
  <2>1. /\ step' \in Steps /\ up' \in BOOLEAN
        /\ (step' \in {"up", "setUp"} => seen' \in Modes)
    BY <1>15 DEF SetInterface
  <2>2. UNCHANGED <<carrier, negotiated, misr, edge, flag, return, seen, mac, running, configured, speed, failed>>
    BY <1>15 DEF SetInterface
  <2> QED BY <2>1, <2>2
<1> QED BY <1>1, <1>2, <1>3, <1>4, <1>5, <1>6, <1>7, <1>8, <1>9, <1>10, <1>11, <1>12, <1>13, <1>14, <1>15
        DEF Next, Thread

LEMMA StepPhyOK == ASSUME IInv, Next PROVE PhyOK'
<1> USE DEF IInv, PhyOK, phy
<1>1. CASE LinkChanges
  BY <1>1 DEF LinkChanges
<1>2. CASE ~LinkChanges
  <2>1. UNCHANGED <<carrier, negotiated>>
    BY <1>2 DEF Next, Interrupt, BusError, Thread, ThreadStarts, WaitEnds, HandleBusy, HandleReads, CheckBusy,
                StateFails, ReadCarrier, ReadMode, LinkDown, Configure, AlreadyConfigured, SetInterface
  <2> QED BY <2>1
<1> QED BY <1>1, <1>2

LEMMA StepPortOK == ASSUME IInv, Next PROVE PortOK'
<1> USE DEF IInv, PortOK, port
<1>1. CASE LinkDown
  BY <1>1 DEF LinkDown
<1>2. CASE Configure
  BY <1>2 DEF Configure
<1>3. CASE ~LinkDown /\ ~Configure
  <2>1. UNCHANGED <<mac, configured, speed>>
    BY <1>3 DEF Next, LinkChanges, Interrupt, BusError, Thread, ThreadStarts, WaitEnds, HandleBusy, HandleReads,
                CheckBusy, StateFails, ReadCarrier, ReadMode, AlreadyConfigured, SetInterface
  <2> QED BY <2>1
<1> QED BY <1>1, <1>2, <1>3

LEMMA StepAwake == ASSUME IInv, Next PROVE Awake'
<1> USE DEF IInv, TypeOK, Awake, Checking, Goto, Fails, phy
<1>1. CASE LinkChanges
  BY <1>1 DEF LinkChanges, Event
<1>2. CASE Interrupt
  BY <1>2 DEF Interrupt, Notified
<1>3. CASE BusError
  BY <1>3 DEF BusError
<1>4. CASE ThreadStarts
  BY <1>4 DEF ThreadStarts
<1>5. CASE WaitEnds
  BY <1>5 DEF WaitEnds, Waiting
<1>6. CASE HandleBusy
  BY <1>6 DEF HandleBusy, BusyNext
<1>7. CASE HandleReads
  BY <1>7 DEF HandleReads
<1>8. CASE CheckBusy
  BY <1>8 DEF CheckBusy
<1>9. CASE StateFails
  BY <1>9 DEF StateFails
<1>10. CASE ReadCarrier
  BY <1>10 DEF ReadCarrier
<1>11. CASE ReadMode
  BY <1>11 DEF ReadMode
<1>12. CASE LinkDown
  BY <1>12 DEF LinkDown
<1>13. CASE Configure
  BY <1>13 DEF Configure
<1>14. CASE AlreadyConfigured
  BY <1>14 DEF AlreadyConfigured
<1>15. CASE SetInterface
  BY <1>15 DEF SetInterface
<1> QED BY <1>1, <1>2, <1>3, <1>4, <1>5, <1>6, <1>7, <1>8, <1>9, <1>10, <1>11, <1>12, <1>13, <1>14, <1>15
        DEF Next, Thread

\* An event makes the thread read MISR before anything is claimed again; otherwise each
\* step adds what it has read or done.
LEMMA StepUpToDate == ASSUME IInv, Next PROVE UpToDate'
<1> USE DEF IInv, TypeOK, UpToDate, Known, Follows, Goto, Fails, phy, port
<1>1. CASE LinkChanges
  BY <1>1 DEF LinkChanges, Event
<1>2. CASE Interrupt
  BY <1>2 DEF Interrupt
<1>3. CASE BusError
  BY <1>3 DEF BusError
<1>4. CASE ThreadStarts
  BY <1>4 DEF ThreadStarts
<1>5. CASE WaitEnds
  BY <1>5 DEF WaitEnds, Waiting
<1>6. CASE HandleBusy
  BY <1>6 DEF HandleBusy, BusyNext
<1>7. CASE HandleReads
  BY <1>7 DEF HandleReads
<1>8. CASE CheckBusy
  BY <1>8 DEF CheckBusy
<1>9. CASE StateFails
  BY <1>9 DEF StateFails
<1>10. CASE ReadCarrier
  BY <1>10 DEF ReadCarrier, PhyOK
<1>11. CASE ReadMode
  BY <1>11 DEF ReadMode, LinkIsUp
<1>12. CASE LinkDown
  BY <1>12 DEF LinkDown
<1>13. CASE Configure
  BY <1>13 DEF Configure
<1>14. CASE AlreadyConfigured
  BY <1>14 DEF AlreadyConfigured, NeedsConfigure, PortOK
<1>15. CASE SetInterface
  BY <1>15 DEF SetInterface
<1> QED BY <1>1, <1>2, <1>3, <1>4, <1>5, <1>6, <1>7, <1>8, <1>9, <1>10, <1>11, <1>12, <1>13, <1>14, <1>15
        DEF Next, Thread

LEMMA StepIInv == IInv /\ [Next]_vars => IInv'
<1>1. ASSUME IInv, Next PROVE IInv'
  BY <1>1, StepTypeOK, StepPhyOK, StepPortOK, StepAwake, StepUpToDate DEF IInv
<1>2. ASSUME IInv, UNCHANGED vars PROVE IInv'
  BY <1>2 DEF vars, IInv, TypeOK, SeenOK, PhyOK, PortOK, Awake, Checking, UpToDate, Known, Follows
<1> QED BY <1>1, <1>2

LEMMA Invariance == Spec => []IInv
BY InitIInv, StepIInv, PTL DEF Spec

-----------------------------------------------------------------------------

\* The port's variables keep their types; a configured MAC has a mode that was negotiated.
THEOREM TypeCorrect == Spec => []TypeOK
<1>1. IInv => TypeOK
  BY DEF IInv
<1> QED BY <1>1, Invariance, PTL

\* The link thread never sleeps over a line that is low, where no edge would wake it,
\* unless MISR could not be read or its first call found the mutex taken.
THEOREM ThreadIsNeverDeaf == Spec => []NeverDeaf
<1>1. IInv => NeverDeaf
  BY DEF IInv, Awake, Checking, NeverDeaf, Settled, Waiting
<1> QED BY <1>1, Invariance, PTL

\* When all is quiet the interface and the MAC are what the link is, for any modes and
\* any interleaving of the link, the interrupt and the thread.
THEOREM SettledFollows == Spec => []FollowsWhenSettled
<1>1. IInv => FollowsWhenSettled
  BY DEF IInv, UpToDate, Known, FollowsWhenSettled, Settled, Waiting
<1> QED BY <1>1, Invariance, PTL
=============================================================================
