---------------------------- MODULE EddnListener ----------------------------
(***************************************************************************)
(* run_listener of ingestion/eddn/listener.py: the loop that takes EDDN    *)
(* messages off the ZeroMQ socket, validates them and hands them to the    *)
(* processor of their schema, watched by a WatchdogTimer and restarted by  *)
(* Docker ("restart: always") whenever the process ends.                   *)
(*                                                                         *)
(* The feed is external: a message is only its kind, that is, how far the  *)
(* loop gets with it.  Messages are numbered in the order they are taken.  *)
(***************************************************************************)
EXTENDS Watchdog, Sequences, FiniteSets

CONSTANT MaxMessages    \* bounds the messages a behaviour takes

VARIABLES
    pc,                 \* where the loop is
    log,                \* kinds of the messages taken so far (history)
    bootMark,           \* Len(log) when the running process started (history)
    obj,                \* the local variable obj: a message number, Unbound
    dispatched          \* the calls of a processor, in order (history)

listenerVars == <<pc, log, bootMark, obj, dispatched>>
vars == <<watchdogVars, listenerVars>>

Unbound == 0

(***************************************************************************)
(* garbage   not zlib, not JSON: the exception leaves the loop             *)
(* noSchema  no $schemaRef                                                 *)
(* rejected  unknown schema, or the model refuses it: a ValueError         *)
(* broken    any other exception while validating                          *)
(* ignored   valid, and no processor for its schema                        *)
(* handled   valid, with a processor                                       *)
(***************************************************************************)
Kind == {"garbage", "noSchema", "rejected", "broken", "ignored", "handled"}
Valid == {"ignored", "handled"}

PC == {"down", "recv", "validate", "dispatch", "process", "hung"}

\* The loop uses obj for the message obj while it is busy with message trigger.
Call == [obj : Nat, trigger : Nat]

ListenerTypes ==
    /\ WatchdogTypeOK
    /\ pc \in PC
    /\ log \in Seq(Kind)
    /\ bootMark \in 0..Len(log)
    /\ obj \in 0..Len(log)
    /\ dispatched \in Seq(Call)

\* Types; and the loop is watched for as long as the process is there.
ListenerTypeOK == ListenerTypes /\ (watching <=> pc # "down")

Current == Len(log)

Init ==
    /\ WatchdogInit
    /\ pc = "down"
    /\ log = <<>>
    /\ bootMark = 0
    /\ obj = Unbound
    /\ dispatched = <<>>

-----------------------------------------------------------------------------
\* Mutant: obj outlives the process.
BootKeepsObj ==
    /\ pc = "down"
    /\ Start
    /\ pc' = "recv"
    /\ bootMark' = Len(log)
    /\ UNCHANGED <<log, obj, dispatched>>

\* The process starts: watchdog.start(), and no message is bound to obj.
Boot ==
    /\ pc = "down"
    /\ Start
    /\ pc' = "recv"
    /\ bootMark' = Len(log)
    /\ obj' = Unbound
    /\ UNCHANGED <<log, dispatched>>

\* The exception leaves the loop; "finally" stops the watchdog.
Exit ==
    /\ Stop
    /\ pc' = "down"
    /\ UNCHANGED <<log, bootMark, obj, dispatched>>

Take(kind) ==
    /\ pc = "recv"
    /\ Len(log) < MaxMessages
    /\ log' = Append(log, kind)

\* recv_multipart, decompress and json.loads raise.
TakeGarbage ==
    /\ Take("garbage")
    /\ Stop
    /\ pc' = "down"
    /\ UNCHANGED <<bootMark, obj, dispatched>>

\* "continue", without a heartbeat.
TakeWithoutSchema ==
    /\ Take("noSchema")
    /\ UNCHANGED <<watchdogVars, pc, bootMark, obj, dispatched>>

TakeForValidation ==
    /\ \E kind \in Kind \ {"garbage", "noSchema"} : Take(kind)
    /\ pc' = "validate"
    /\ UNCHANGED <<watchdogVars, bootMark, obj, dispatched>>

\* Mutant: obj is bound once.
AcceptOnce ==
    /\ pc = "validate"
    /\ log[Current] \in Valid
    /\ obj' = IF obj = Unbound THEN Current ELSE obj
    /\ pc' = "dispatch"
    /\ UNCHANGED <<watchdogVars, log, bootMark, dispatched>>

\* obj = module.Model.model_validate(d)
Accept ==
    /\ pc = "validate"
    /\ log[Current] \in Valid
    /\ obj' = Current
    /\ pc' = "dispatch"
    /\ UNCHANGED <<watchdogVars, log, bootMark, dispatched>>

\* "except ValueError" logs and falls through: obj keeps its value.
FallThrough ==
    /\ pc = "validate"
    /\ log[Current] = "rejected"
    /\ obj # Unbound
    /\ pc' = "dispatch"
    /\ UNCHANGED <<watchdogVars, log, bootMark, obj, dispatched>>

\* The same with obj unbound: type(obj) raises outside of any try.
FallThroughUnbound ==
    /\ pc = "validate"
    /\ log[Current] = "rejected"
    /\ obj = Unbound
    /\ Exit

\* "except Exception ... continue", without a heartbeat.
Drop ==
    /\ pc = "validate"
    /\ log[Current] = "broken"
    /\ pc' = "recv"
    /\ UNCHANGED <<watchdogVars, log, bootMark, obj, dispatched>>

\* Mutant: a message with a processor may be skipped.
SkipAny ==
    /\ pc = "dispatch"
    /\ Heartbeat
    /\ pc' = "recv"
    /\ UNCHANGED <<log, bootMark, obj, dispatched>>

\* obj_type is not in processor_mapping.
Skip ==
    /\ pc = "dispatch"
    /\ log[obj] = "ignored"
    /\ Heartbeat
    /\ pc' = "recv"
    /\ UNCHANGED <<log, bootMark, obj, dispatched>>

\* processor_mapping[obj_type](session, obj) is called ...
Dispatch ==
    /\ pc = "dispatch"
    /\ log[obj] = "handled"
    /\ dispatched' = Append(dispatched, [obj |-> obj, trigger |-> Current])
    /\ pc' = "process"
    /\ UNCHANGED <<watchdogVars, log, bootMark, obj>>

\* Mutant: a processor that raised is called again.
FinishOrRetry ==
    /\ pc = "process"
    /\ Heartbeat
    /\ pc' \in {"recv", "dispatch"}
    /\ UNCHANGED <<log, bootMark, obj, dispatched>>

\* ... and returns, or raises and is logged: the iteration ends the same way.
Finish ==
    /\ pc = "process"
    /\ Heartbeat
    /\ pc' = "recv"
    /\ UNCHANGED <<log, bootMark, obj, dispatched>>

\* ... or never returns.
Hang ==
    /\ pc = "process"
    /\ pc' = "hung"
    /\ UNCHANGED <<watchdogVars, log, bootMark, obj, dispatched>>

Tick ==
    /\ Elapse
    /\ UNCHANGED <<pc, log, bootMark, obj, dispatched>>

Recheck ==
    /\ CheckPasses
    /\ UNCHANGED listenerVars

\* The watchdog ends the process wherever the loop is.
Kill ==
    /\ CheckExpires
    /\ pc' = "down"
    /\ UNCHANGED <<log, bootMark, obj, dispatched>>

Loop ==
    \/ TakeGarbage \/ TakeWithoutSchema \/ TakeForValidation
    \/ Accept \/ FallThrough \/ FallThroughUnbound \/ Drop
    \/ Skip \/ Dispatch \/ Finish

Next == Boot \/ Loop \/ Hang \/ Tick \/ Recheck \/ Kill

(***************************************************************************)
(* Docker restarts the process, time passes and the watchdog thread runs.  *)
(* Nothing is assumed of the feed or of the processors.                    *)
(***************************************************************************)
Fairness ==
    /\ WF_vars(Boot)
    /\ WF_vars(Tick)
    /\ WF_vars(Recheck)
    /\ WF_vars(Kill)

Spec == Init /\ [][Next]_vars
FairSpec == Spec /\ Fairness

-----------------------------------------------------------------------------
Calls(o, t) == {i \in DOMAIN dispatched : dispatched[i] = [obj |-> o, trigger |-> t]}

(***************************************************************************)
(* What a processor is given is the newest message this process validated: *)
(* after a rejected message that is an old one, but never one of an        *)
(* earlier process, and never one that a later valid message replaced.     *)
(***************************************************************************)
NewestValid ==
    pc # "down" =>
        /\ obj # Unbound =>
             /\ obj > bootMark
             /\ log[obj] \in Valid
        /\ \A i \in (bootMark + 1)..Len(log) :
              /\ log[i] \in Valid
              /\ i < Len(log) \/ pc # "validate"
              => i <= obj

(***************************************************************************)
(* No message with a processor is overlooked: once the loop is back at the *)
(* socket, each one this process took has been dispatched, once, as itself.*)
(***************************************************************************)
NothingOverlooked ==
    pc = "recv" =>
        \A i \in (bootMark + 1)..Len(log) :
            log[i] = "handled" => Cardinality(Calls(i, i)) = 1

(***************************************************************************)
(* One message taken leads to at most one call of a processor, whatever    *)
(* the loop does after a rejected message: calls are at most as many as    *)
(* messages, and follow their order.                                       *)
(***************************************************************************)
OneCallPerMessage ==
    \A i, j \in DOMAIN dispatched :
        i < j => /\ dispatched[i].trigger < dispatched[j].trigger
                 /\ dispatched[i].obj <= dispatched[j].obj

\* A call for an old message is made only because of a rejected one, and never
\* reaches back past a message validated in between.
StaleOnlyWhenRejected ==
    \A i \in DOMAIN dispatched :
        LET c == dispatched[i] IN
        c.obj # c.trigger =>
            /\ log[c.trigger] = "rejected"
            /\ \A k \in (c.obj + 1)..c.trigger : log[k] \notin Valid

\* A processor that never returns does not stop ingestion for good.
HungIsRestarted == pc = "hung" ~> pc = "recv"

(***************************************************************************)
(* The facts about the loop's position that make the properties above      *)
(* inductive.                                                              *)
(***************************************************************************)
Position ==
    /\ pc = "validate" => Len(log) > bootMark
    /\ pc \in {"dispatch", "process", "hung"} => obj # Unbound
    /\ pc = "dispatch" => obj = Current \/ log[Current] = "rejected"

CallsSoFar ==
    /\ \A i \in DOMAIN dispatched :
          /\ dispatched[i].obj <= dispatched[i].trigger
          /\ dispatched[i].trigger <= Len(log)
          /\ pc \in {"validate", "dispatch"} => dispatched[i].trigger < Len(log)
    /\ pc # "down" =>
          \A i \in DOMAIN dispatched :
              dispatched[i].obj <= IF obj = Unbound THEN bootMark ELSE obj

\* The message in hand is the only one that may still wait for its own call.
OwnCallMade ==
    pc # "down" =>
        \A i \in (bootMark + 1)..Len(log) :
            log[i] = "handled" =>
                \/ Calls(i, i) # {}
                \/ i = Len(log) /\ pc \in {"validate", "dispatch"}

=============================================================================
