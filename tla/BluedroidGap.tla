---------------------------- MODULE BluedroidGap ----------------------------
(***************************************************************************)
(* IOT_BleMgmtBluedroid.c, advertising: several tasks may ask the stack     *)
(* (external) to set the payloads; it does so one after the other, and      *)
(* gap_event_handler starts advertising when adv_pending_mask says that     *)
(* both are set.  Nothing keeps two tasks apart.                            *)
(***************************************************************************)
EXTENDS Naturals, Sequences

CONSTANTS
    AdvTasks,
    PayloadRoom     \* bound: payloads the stack has still to set

VARIABLES
    gapUp,          \* the stack runs
    toSet,          \* external: the payloads asked for and not yet set
    payloads,       \* external: those set since advertising was last asked for
    onAir,          \* external: "no", "partial", "whole", or "changing" from an earlier start's
    airConnectable, \* external: with the parameters of what can be connected to
    pendingMask,    \* adv_pending_mask
    connectable,    \* pending_adv_params.adv_type is ADV_TYPE_IND
    advPc,          \* where each task is in asking: it builds payloads of a kind, or gives one
    asked,          \* history: what was last asked for
    unclean         \* history: the last start met another, a refusal or a deinit

gapVars == <<gapUp, toSet, payloads, onAir, airConnectable, pendingMask, connectable, advPc,
             asked, unclean>>

Payloads == {"data", "rsp"}

\* An advertiser with a name has a scan response; nobody can connect to a beacon.
Kinds == {"named", "plain", "beacon"}

GapTypeOK ==
    /\ {gapUp, airConnectable, connectable, unclean} \subseteq BOOLEAN
    /\ toSet \in Seq(Payloads) /\ Len(toSet) <= PayloadRoom
    /\ payloads \subseteq Payloads /\ pendingMask \subseteq Payloads
    /\ onAir \in {"no", "partial", "changing", "whole"}
    /\ advPc \in [AdvTasks -> {"ready", "rsp", "data"} \cup Kinds] /\ asked \in Kinds

GapStart ==
    /\ gapUp = FALSE /\ toSet = <<>> /\ payloads = {} /\ onAir = "no" /\ airConnectable = FALSE
    /\ pendingMask = {} /\ connectable = FALSE
    /\ advPc = [t \in AdvTasks |-> "ready"]
    /\ asked = "plain" /\ unclean = FALSE

askVars == <<connectable, advPc, asked>>

Asking == \E t \in AdvTasks : advPc[t] # "ready"

GapInit ==
    /\ ~gapUp /\ gapUp' = TRUE
    /\ UNCHANGED <<toSet, payloads, onAir, airConnectable, pendingMask, askVars, unclean>>

\* The pending mask stays.
GapDeinit ==
    /\ gapUp /\ gapUp' = FALSE
    /\ toSet' = <<>> /\ payloads' = {} /\ onAir' = "no"
    /\ unclean' = (unclean \/ Asking)
    /\ UNCHANGED <<airConnectable, pendingMask, askVars>>

-----------------------------------------------------------------------------
(* Advertising.                                                            *)

OthersAsk(t) == \E s \in AdvTasks \ {t} : advPc[s] # "ready"

\* The parameters are written, whoever waits to start with them.
StartAdv(t, kind) ==
    /\ advPc[t] = "ready"
    /\ connectable' = (kind # "beacon")
    /\ advPc' = [advPc EXCEPT ![t] = kind]
    /\ unclean' = (unclean \/ toSet # <<>> \/ OthersAsk(t))
    /\ UNCHANGED <<gapUp, toSet, payloads, onAir, airConnectable, pendingMask, asked>>

StartBeacon(t) == StartAdv(t, "beacon")
StartAdvertising(t) == \E kind \in {"named", "plain"} : StartAdv(t, kind)

\* configureAdvPayloads: the payloads are built, unless they are too long, and the mask is
\* set; an advertising that is on goes on meanwhile.
SetMask(t, kind) ==
    /\ advPc[t] = kind
    /\ \/ /\ pendingMask' = IF kind = "named" THEN Payloads ELSE {"data"}
          /\ advPc' = [advPc EXCEPT ![t] = IF kind = "named" THEN "rsp" ELSE "data"]
          /\ asked' = kind /\ payloads' = {}
          /\ onAir' = IF onAir = "no" THEN "no" ELSE "changing"
          /\ unclean' = (toSet # <<>> \/ OthersAsk(t) \/ connectable # (kind # "beacon"))
       \/ /\ advPc' = [advPc EXCEPT ![t] = "ready"]
          /\ UNCHANGED <<pendingMask, asked, payloads, onAir, unclean>>
    /\ UNCHANGED <<gapUp, toSet, airConnectable, connectable>>

\* One payload is given to the stack, which may refuse it; the mask is then cleared.
Config(t, which, next) ==
    /\ \/ /\ gapUp /\ Len(toSet) < PayloadRoom
          /\ toSet' = Append(toSet, which) /\ advPc' = [advPc EXCEPT ![t] = next]
          /\ UNCHANGED <<pendingMask, unclean>>
       \/ /\ pendingMask' = {} /\ unclean' = TRUE
          /\ advPc' = [advPc EXCEPT ![t] = "ready"] /\ UNCHANGED toSet
    /\ UNCHANGED <<gapUp, payloads, onAir, airConnectable, connectable, asked>>

ConfigRsp(t) == advPc[t] = "rsp" /\ Config(t, "rsp", "data")
ConfigData(t) == advPc[t] = "data" /\ Config(t, "data", "ready")

(* Mutant: advertising starts with the first payload that is set. *)
StartsWithAny(which) == which \in pendingMask

\* advPendingComplete starts advertising when it clears the last bit.
StartsWith(which) == pendingMask = {which}

\* What is on the air once advertising is started with these payloads.
AirOf(set) == IF "data" \in set /\ (asked = "named" => "rsp" \in set) THEN "whole" ELSE "partial"

\* The event of a payload that was set, or refused: the handler does not look which.  The
\* stack may refuse to start, and what was on before then goes on, with these payloads.
PayloadSet ==
    /\ toSet # <<>>
    /\ toSet' = Tail(toSet)
    /\ pendingMask' = pendingMask \ {Head(toSet)}
    /\ payloads' \in {payloads, payloads \cup {Head(toSet)}}
    /\ LET refused == Head(toSet) \notin payloads'
       IN \/ /\ ~StartsWith(Head(toSet))
             /\ unclean' = (unclean \/ refused) /\ UNCHANGED <<onAir, airConnectable>>
          \/ /\ StartsWith(Head(toSet))
             /\ onAir' = AirOf(payloads') /\ airConnectable' = connectable
             /\ unclean' = (unclean \/ refused)
          \/ /\ StartsWith(Head(toSet))
             /\ onAir' = IF onAir = "no" THEN "no" ELSE AirOf(payloads')
             /\ unclean' = (unclean \/ refused \/ onAir # "no") /\ UNCHANGED airConnectable
    /\ UNCHANGED <<gapUp, askVars>>

\* What is pending still starts it again.
StopAdv ==
    /\ gapUp
    /\ onAir' = "no"
    /\ UNCHANGED <<gapUp, toSet, payloads, airConnectable, pendingMask, askVars, unclean>>

\* external: a peer connects, and the controller stops advertising.
AirTaken ==
    /\ airConnectable
    /\ onAir' = "no"
    /\ UNCHANGED <<gapUp, toSet, payloads, airConnectable, pendingMask, askVars, unclean>>

GapNext ==
    \/ GapInit \/ GapDeinit \/ PayloadSet \/ StopAdv \/ AirTaken
    \/ \E t \in AdvTasks :
          \/ StartBeacon(t) \/ StartAdvertising(t) \/ \E kind \in Kinds : SetMask(t, kind)
          \/ ConfigRsp(t) \/ ConfigData(t)

GapSpec == GapStart /\ [][GapNext]_gapVars

-----------------------------------------------------------------------------
\* "Advertising may only start once BOTH have completed": what is started has the
\* payloads last asked for and can be connected to only if it is no beacon, and an
\* advertising that went on while they were changed has them once nothing is pending;
\* also when stops and connections come meanwhile.  Excepted: the start met another
\* task's, or the stack refused a payload, or to start what was on, or was shut down
\* meanwhile.
AdvertisesWhole ==
    ~unclean =>
        /\ onAir # "partial"
        /\ pendingMask = {} => onAir # "changing"
        /\ onAir = "whole" => airConnectable = (asked # "beacon")
=============================================================================
