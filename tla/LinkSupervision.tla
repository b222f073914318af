--------------------------- MODULE LinkSupervision ---------------------------
(***************************************************************************)
(* The supervision of the Ethernet link: the PHY's interrupt line, the     *)
(* EXTI interrupt and the link thread (LWIP/Target/ethernetif.c) that      *)
(* reads the PHY (BSP/ETH/dp83848.c) and sets the MAC and the interface    *)
(* accordingly (BSP/ETH/ethernet_port.c).                                  *)
(*                                                                         *)
(* The PHY holds its line low from the first event until its MISR is read, *)
(* and the EXTI interrupt fires on the falling edge only: between an event *)
(* and a read there is no second interrupt.  A call that can fail does so  *)
(* at any time if Failures names it.                                       *)
(***************************************************************************)
EXTENDS Naturals

CONSTANTS
  Modes,     \* speeds and duplexes a link may negotiate
  Failures   \* what may fail

Kinds == {"mutex", "interrupt", "state", "bus"}
ASSUME FailuresAssumption == Failures \subseteq Kinds

None == "none"
ASSUME ModesAssumption == None \notin Modes

VARIABLES
  carrier, negotiated,   \* the PHY: BSR's link bit, PHYSCSR's mode once it is done
  misr,                  \* an event since MISR was read: the line is low
  edge,                  \* EXTI0 is pending
  flag,                  \* ETHERNET_LINK_EVENT_PHY of the thread
  step,                  \* where the thread is; "unborn" before it has set its id
  return,                \* and where EthernetPort_CheckLinkState returns to
  seen,                  \* link_state
  mac, running,          \* mode of the MAC, and gState: STARTED or ERROR
  configured, speed,     \* ethernet_link_configured, ethernet_link_speed with _duplex
  up,                    \* ethernet_netif_up and the interface
  failed                 \* history: what has failed since a link check began for an event

phy == <<carrier, negotiated, misr, edge>>
port == <<mac, running, configured, speed, up>>
vars == <<carrier, negotiated, misr, edge, flag, step, return, seen, mac, running, configured, speed, up, failed>>

Waiting == step = "wait"

\* The type invariant: a configured link has a speed, and what was seen is a mode or no link.
TypeOK ==
  /\ carrier \in BOOLEAN /\ negotiated \in Modes \cup {None}
  /\ misr \in BOOLEAN /\ edge \in BOOLEAN /\ flag \in BOOLEAN
  /\ step \in {"unborn", "firstHandle", "handle", "wait", "check", "mode", "down", "up", "setDown", "setUp"}
  /\ return \in {"firstHandle", "wait"}
  /\ seen \in Modes \cup {None}
  /\ mac \in Modes /\ running \in BOOLEAN
  /\ configured \in BOOLEAN /\ speed \in Modes \cup {None} /\ (configured => speed \in Modes)
  /\ up \in BOOLEAN /\ failed \subseteq Kinds \cup {"first"}

\* EthernetPort_Init has started the MAC, in the mode of HAL_ETH_Init; the thread is created later.
Init ==
  /\ carrier = FALSE /\ negotiated = None /\ misr = FALSE /\ edge = FALSE /\ flag = FALSE
  /\ step = "unborn" /\ return = "firstHandle" /\ seen = None
  /\ mac \in Modes /\ running = TRUE
  /\ configured = FALSE /\ speed = None /\ up = FALSE /\ failed = {}

-----------------------------------------------------------------------------
(* The PHY and its interrupt *)

\* An event takes the line low; the falling edge is there only if it was high.
Event == misr' = TRUE /\ edge' = (edge \/ ~misr)

LinkChanges ==
  /\ \/ ~carrier /\ carrier' = TRUE /\ negotiated' = None
     \/ carrier /\ negotiated = None /\ negotiated' \in Modes /\ carrier' = TRUE
     \/ carrier /\ carrier' = FALSE /\ negotiated' = None
  /\ Event
  /\ UNCHANGED <<flag, step, return, seen, failed>> /\ UNCHANGED port

\* EXTI0_IRQHandler; ethernetif_phy_interrupt_notify drops the event of an unborn thread.
Notified == step # "unborn"
Interrupt ==
  /\ edge /\ edge' = FALSE
  /\ flag' = (flag \/ Notified)
  /\ UNCHANGED <<carrier, negotiated, misr, step, return, seen, failed>> /\ UNCHANGED port

\* A fatal bus error (HAL_ETH_IRQHandler) ends the MAC; nothing starts it again.
BusError ==
  /\ "bus" \in Failures /\ running /\ running' = FALSE
  /\ UNCHANGED <<flag, step, return, seen, mac, configured, speed, up, failed>> /\ UNCHANGED phy

-----------------------------------------------------------------------------
(* The link thread *)

Goto(s) == step' = s
Fails(kind) == failed' = failed \cup {kind}

ThreadStarts ==
  /\ step = "unborn" /\ Goto("check") /\ return' = "firstHandle"
  /\ UNCHANGED <<flag, seen, failed>> /\ UNCHANGED phy /\ UNCHANGED port

WaitEnds ==
  /\ Waiting /\ flag /\ flag' = FALSE /\ Goto("handle")
  /\ UNCHANGED <<return, seen, failed>> /\ UNCHANGED phy /\ UNCHANGED port

\* EthernetPort_HandleLinkInterrupt is repeated while the mutex is not to be had, but the
\* call before the loop is not.
GivesUp == "wait"
BusyNext == IF step = "firstHandle" THEN "wait" ELSE "handle"
HandleBusy ==
  /\ step \in {"firstHandle", "handle"} /\ "mutex" \in Failures
  /\ Goto(BusyNext)
  /\ IF step = "firstHandle" THEN Fails("first") ELSE UNCHANGED failed
  /\ UNCHANGED <<flag, return, seen>> /\ UNCHANGED phy /\ UNCHANGED port

\* MISR is read, which clears it; an event leads to a check of the link.
HandleReads ==
  /\ step \in {"firstHandle", "handle"}
  /\ \/ /\ misr' = FALSE /\ return' = "wait"
        /\ IF misr THEN Goto("check") /\ failed' = {} ELSE Goto("wait") /\ UNCHANGED failed
     \/ /\ "interrupt" \in Failures /\ Goto("wait") /\ Fails("interrupt")
        /\ UNCHANGED <<misr, return>>
  /\ UNCHANGED <<carrier, negotiated, edge, flag, seen>> /\ UNCHANGED port

\* EthernetPort_CheckLinkState gives up without the mutex, ...
CheckBusy ==
  /\ step = "check" /\ "mutex" \in Failures /\ Goto(return) /\ Fails("mutex")
  /\ UNCHANGED <<flag, return, seen>> /\ UNCHANGED phy /\ UNCHANGED port

\* ... or when a register cannot be read (DP83848_GetLinkState).
StateFails ==
  /\ step \in {"check", "mode"} /\ "state" \in Failures /\ Goto(return) /\ Fails("state")
  /\ UNCHANGED <<flag, return, seen>> /\ UNCHANGED phy /\ UNCHANGED port

ReadCarrier ==
  /\ step = "check"
  /\ IF carrier THEN Goto("mode") /\ UNCHANGED seen ELSE Goto("down") /\ seen' = None
  /\ UNCHANGED <<flag, return, failed>> /\ UNCHANGED phy /\ UNCHANGED port

\* A link that is still negotiating is down.
LinkIsUp == negotiated # None
ReadMode ==
  /\ step = "mode" /\ seen' = negotiated
  /\ Goto(IF LinkIsUp THEN "up" ELSE "down")
  /\ UNCHANGED <<flag, return, failed>> /\ UNCHANGED phy /\ UNCHANGED port

LinkDown ==
  /\ step = "down" /\ configured' = FALSE
  /\ Goto(IF up THEN "setDown" ELSE return)
  /\ UNCHANGED <<flag, return, seen, mac, running, speed, up, failed>> /\ UNCHANGED phy

NotConfigured == ~configured
NeedsConfigure == ~configured \/ speed # seen \/ ~running

\* The MAC is stopped, set and started again; a MAC in error cannot be stopped.
Configure ==
  /\ step = "up" /\ NeedsConfigure
  /\ IF running
     THEN /\ mac' = seen /\ speed' = seen /\ configured' = TRUE
          /\ Goto(IF up THEN return ELSE "setUp")
     ELSE Goto(return) /\ UNCHANGED <<mac, speed, configured>>
  /\ UNCHANGED <<flag, return, seen, running, up, failed>> /\ UNCHANGED phy

AlreadyConfigured ==
  /\ step = "up" /\ ~NeedsConfigure
  /\ Goto(IF up THEN return ELSE "setUp")
  /\ UNCHANGED <<flag, return, seen, failed>> /\ UNCHANGED phy /\ UNCHANGED port

\* The interface follows after the mutex is released.
SetInterface ==
  /\ step \in {"setUp", "setDown"} /\ up' = (step = "setUp") /\ Goto(return)
  /\ UNCHANGED <<flag, return, seen, mac, running, configured, speed, failed>> /\ UNCHANGED phy

Thread ==
  \/ ThreadStarts \/ WaitEnds \/ HandleBusy \/ HandleReads
  \/ CheckBusy \/ StateFails \/ ReadCarrier \/ ReadMode
  \/ LinkDown \/ Configure \/ AlreadyConfigured \/ SetInterface

Next == LinkChanges \/ Interrupt \/ BusError \/ Thread

Spec == Init /\ [][Next]_vars

\* The interrupt is served, the thread gets its turn, and whoever holds the mutex of the
\* port returns it: a thread that keeps asking has it in the end.
Fairness == WF_vars(Interrupt) /\ WF_vars(Thread) /\ SF_vars(HandleReads)
FairSpec == Spec /\ Fairness

-----------------------------------------------------------------------------
(* Properties *)

Follows == IF negotiated = None THEN ~up ELSE up /\ running /\ mac = negotiated

\* Nothing is left that would run the thread.
Settled == Waiting /\ ~flag /\ ~edge

\* The thread never sleeps over a line that is low, where no edge would wake it again,
\* unless MISR could not be read or the first, unrepeated call found the mutex taken.
NeverDeaf == Settled /\ misr => failed \cap {"interrupt", "first"} # {}

\* When all is quiet the interface and the MAC are what the link is, however often it
\* changed while it was looked at, unless one of the failures that the code reports or
\* gives up on came in between.
FollowsWhenSettled == Settled /\ ~misr /\ running /\ failed = {} => Follows

\* A link that comes to rest is followed in the end, also when the mutex is taken again
\* and again, or one of those failures is why not.
FollowsInTheEnd ==
  \A c \in BOOLEAN, n \in Modes \cup {None} :
    <>[](carrier = c /\ negotiated = n) => <>[](Follows \/ ~running \/ failed # {})
=============================================================================
