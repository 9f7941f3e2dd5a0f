--------------------------- MODULE WatchController ---------------------------
(***************************************************************************)
(* What the two reconcilers of internal/controller have in common: one     *)
(* watch object on the API server, the manager's informer cache of it, the *)
(* controller's work queue, and the frame of Reconcile: read the object,   *)
(* run the use case, apply the status it returns, requeue.                 *)
(*                                                                         *)
(* A module that models a use case instantiates this one, gives it the     *)
(* zero value of its status, and adds the steps between the read (which    *)
(* moves pc from "idle" to the use case's first step) and the write (which *)
(* leaves from "apply").                                                   *)
(*                                                                         *)
(* The API server, the informer and the work queue are not under src/:     *)
(* they are modelled as the reconcilers use them.                          *)
(***************************************************************************)
EXTENDS Integers

CONSTANTS
    Specs,          \* the specs a user may write
    ZeroStatus,     \* the status of a new object, and of an empty apply configuration
    NoObject,       \* "there is no such object"
    MaxGeneration,  \* bound on the spec edits of one object
    MaxUID,         \* bound on how often the watch is created under its name
    Faults          \* the faults that may happen, a subset of FaultKinds

VARIABLES
    obj,        \* the object on the API server, or NoObject
    created,    \* how often it was created: the uid of the newest object
    cache,      \* the informer's copy, which may lag behind obj
    queued,     \* the object's key is in the work queue
    timer,      \* the delayed re-add of the key, if any
    pc,         \* where Reconcile is
    original,   \* the object Reconcile read
    patch,      \* the status it will apply; an unset field holds its zero value
    useCaseErr  \* the use case returned an error

apiVars   == <<obj, created>>
queueVars == <<queued, timer>>
runVars   == <<pc, original, patch, useCaseErr>>

FaultKinds == {"get", "fetch", "lookup", "send", "apply", "crash", "stale"}

Timers == {"none", "period", "backoff"}

ControllerInit ==
    /\ obj = NoObject
    /\ created = 0
    /\ cache = NoObject
    /\ queued = FALSE
    /\ timer = "none"
    /\ pc = "idle"
    /\ original = NoObject
    /\ patch = ZeroStatus
    /\ useCaseErr = FALSE

-----------------------------------------------------------------------------
(* The user, through the API server. *)

CreateWatch(spec) ==
    /\ obj = NoObject
    /\ created < MaxUID
    /\ created' = created + 1
    /\ obj' = [uid |-> created', generation |-> 1, spec |-> spec, status |-> ZeroStatus]
    /\ UNCHANGED <<cache, queueVars, runVars>>

\* The API server raises the generation on a change of the spec, never on a
\* change of the status, which is a subresource.
EditSpec(spec) ==
    /\ obj # NoObject
    /\ obj.generation < MaxGeneration
    /\ spec # obj.spec
    /\ obj' = [obj EXCEPT !.generation = @ + 1, !.spec = spec]
    /\ UNCHANGED <<created, cache, queueVars, runVars>>

DeleteWatch ==
    /\ obj # NoObject
    /\ obj' = NoObject
    /\ UNCHANGED <<created, cache, queueVars, runVars>>

-----------------------------------------------------------------------------
(* The informer and the work queue. *)

\* GenerationChangedPredicate: creations and deletions always reach the queue,
\* an update only when the generation changed.
Triggers(old, new) ==
    IF old = NoObject \/ new = NoObject
    THEN old # new
    ELSE old.generation # new.generation

Recreated(old, new) ==
    old # NoObject /\ new # NoObject /\ old.uid # new.uid

\* Wrong on purpose: an event the predicate drops absorbs the delayed add.
DeliverEventsAbsorbing ==
    /\ cache # obj
    /\ cache' = obj
    /\ queued' = (queued \/ Triggers(cache, obj))
    /\ timer' = "none"
    /\ UNCHANGED <<apiVars, runVars>>

\* The informer catches up. A deletion and a creation it sees apart are two
\* events; seen at once, in a new list, they look like one update, which the
\* predicate may drop. A key is queued once however often it is added, and
\* adding it may absorb a delayed add of the same key.
DeliverEvents ==
    /\ cache # obj
    /\ cache' = obj
    /\ \/ /\ Triggers(cache, obj) \/ Recreated(cache, obj)
          /\ queued' = TRUE
          /\ timer' \in {timer, "none"}
       \/ ~Triggers(cache, obj) /\ UNCHANGED queueVars
    /\ UNCHANGED <<apiVars, runVars>>

TimerFires ==
    /\ timer # "none"
    /\ timer' = "none"
    /\ queued' = TRUE
    /\ UNCHANGED <<apiVars, cache, runVars>>

\* The delaying queue keeps one entry per key, the one that is due first.
Arm(kind) == IF timer = "backoff" THEN "backoff" ELSE kind

-----------------------------------------------------------------------------
(* The frame of Reconcile. *)

\* r.Get reads the cache. An object that is gone ends the reconcile without
\* an error and without a requeue.
StartReconcile(firstStep) ==
    /\ pc = "idle"
    /\ queued
    /\ "stale" \in Faults \/ cache = obj
    /\ queued' = FALSE
    /\ IF cache = NoObject
       THEN UNCHANGED runVars
       ELSE /\ pc' = firstStep
            /\ original' = cache
            /\ UNCHANGED <<patch, useCaseErr>>
    /\ UNCHANGED <<apiVars, cache, timer>>

\* r.Get fails, and not because the object is gone.
ReadFails ==
    /\ pc = "idle"
    /\ queued
    /\ "get" \in Faults
    /\ queued' = FALSE
    /\ timer' = Arm("backoff")
    /\ UNCHANGED <<apiVars, cache, runVars>>

\* Wrong on purpose: Reconcile returns neither an error nor a RequeueAfter.
FinishUnscheduled(kind) ==
    /\ pc' = "idle"
    /\ original' = NoObject
    /\ patch' = ZeroStatus
    /\ useCaseErr' = FALSE
    /\ UNCHANGED <<created, cache, queueVars>>

\* Wrong on purpose: Reconcile swallows the error and waits for the period.
FinishPeriodic(kind) ==
    /\ pc' = "idle"
    /\ original' = NoObject
    /\ patch' = ZeroStatus
    /\ useCaseErr' = FALSE
    /\ timer' = Arm("period")
    /\ UNCHANGED <<created, cache, queued>>

FinishReconcile(kind) ==
    /\ pc' = "idle"
    /\ original' = NoObject
    /\ patch' = ZeroStatus
    /\ useCaseErr' = FALSE
    /\ timer' = Arm(kind)
    /\ UNCHANGED <<created, cache, queued>>

\* Server-side apply by the only manager of the status: a field the manager
\* set before and leaves out now is removed, so the object's status becomes
\* the patch and nothing of the old status survives. The object is named, not
\* identified by its uid.
Applied == [obj EXCEPT !.status = patch]

ApplyStatus ==
    /\ pc = "apply"
    /\ obj # NoObject
    /\ obj' = Applied
    /\ FinishReconcile(IF useCaseErr THEN "backoff" ELSE "period")

\* The status call returns an error: the object is gone, or the call failed
\* before or after it took effect.
ApplyStatusFails ==
    /\ pc = "apply"
    /\ \/ obj = NoObject /\ obj' = obj
       \/ obj # NoObject /\ "apply" \in Faults /\ obj' \in {obj, Applied}
    /\ FinishReconcile("backoff")

\* The process dies and a new one lists the objects: all it kept in memory is
\* lost, and every object it finds is a creation to it.
Restart ==
    /\ "crash" \in Faults
    /\ cache' = obj
    /\ queued' = (obj # NoObject)
    /\ timer' = "none"
    /\ pc' = "idle"
    /\ original' = NoObject
    /\ patch' = ZeroStatus
    /\ useCaseErr' = FALSE
    /\ UNCHANGED apiVars

-----------------------------------------------------------------------------
(* What the frame must guarantee. *)

\* An event the informer has yet to deliver will queue the key.
EventPending == Triggers(cache, obj)

\* A watch is never forgotten: while the object exists something will make the
\* controller look at it again, whatever was lost, deleted or re-created under
\* the same name on the way (the requeue of itempricewatch_controller.go:71,
\* the error returns of :61 and :67, the events of :77).
NeverForgotten ==
    obj # NoObject => queued \/ timer # "none" \/ pc # "idle" \/ EventPending

\* A watch whose status reports a failed fetch is retried with backoff: it
\* never waits for the five-minute timer alone (itempricewatch_controller.go:65-68
\* returns the error after the status was applied).
FailureRetriedSoon ==
    (obj # NoObject /\ obj.status.reason = "FetchFailed") =>
        queued \/ timer = "backoff" \/ pc # "idle" \/ EventPending

\* What a status is based on never gets older: until the watch is created again
\* under its name, the generation a status reports as observed only grows, although
\* the cache lags, an apply that failed may have taken effect, and an applied status
\* wipes whatever its reconcile left out, on the error returns as on the others
\* (itempricewatch_controller.go:49-71; one worker per kind).
ObservedNeverFalls ==
    [][(obj # NoObject /\ obj' # NoObject /\ created' = 1)
          => obj.status.observed <= obj'.status.observed]_obj

=============================================================================
