--------------------------- MODULE WriteAdmission ---------------------------
(***************************************************************************)
(* CatalogWriteAdmission of internal/services/catalog_write_admission.go:  *)
(* one write transaction at a time, foreground writers before background   *)
(* ones, bounded queues, and waiters whose context may be cancelled at any *)
(* moment, also at the moment they are let in.                             *)
(*                                                                         *)
(* A writer is a goroutine in withWrite.  What happens under a.mu is one   *)
(* action; between two of them every other writer may get in.              *)
(***************************************************************************)
EXTENDS Integers, Sequences, SequencesExt

CONSTANTS
    Writers,        \* the goroutines
    Foreground,     \* those that call WithForeground
    ForegroundCap,  \* 256 in the code
    BackgroundCap   \* 64 in the code

ASSUME WritersAssumption == Foreground \subseteq Writers

ASSUME CapAssumption == ForegroundCap \in Nat /\ BackgroundCap \in Nat

VARIABLES
    pc,          \* where each goroutine is in withWrite
    cancelled,   \* the goroutines whose ctx is done
    granted,     \* the waiters whose granted flag is set
    active,      \* a.active
    foreground,  \* a.foreground
    background   \* a.background

vars == <<pc, cancelled, granted, active, foreground, background>>

\* outside:  not in withWrite
\* waiting:  in the select on w.ready and ctx.Done()
\* leaving:  the select took ctx.Done()
\* admitted: the select took w.ready
\* writing:  in write()
PCs == {"outside", "waiting", "leaving", "admitted", "writing"}

Background == Writers \ Foreground

\* What the admission holds afterwards.
Holds(set, act, fg, bg) ==
    /\ granted' = set
    /\ active' = act
    /\ foreground' = fg
    /\ background' = bg

\* Mutant: the slot is handed out although it is taken.
DispatchAnyway(set, act, fg, bg) ==
    IF fg # <<>> THEN Holds(set \cup {Head(fg)}, TRUE, Tail(fg), bg)
    ELSE IF bg # <<>> THEN Holds(set \cup {Head(bg)}, TRUE, fg, Tail(bg))
    ELSE Holds(set, act, fg, bg)

\* dispatchLocked, on the values its caller has just written.
Dispatch(set, act, fg, bg) ==
    IF ~act /\ fg # <<>> THEN Holds(set \cup {Head(fg)}, TRUE, Tail(fg), bg)
    ELSE IF ~act /\ bg # <<>> THEN Holds(set \cup {Head(bg)}, TRUE, fg, Tail(bg))
    ELSE Holds(set, act, fg, bg)

\* Mutant: the length is checked after the append.
FullOffByOne(w) ==
    IF w \in Foreground THEN Len(foreground) > ForegroundCap
    ELSE Len(background) > BackgroundCap

Full(w) ==
    IF w \in Foreground THEN Len(foreground) >= ForegroundCap
    ELSE Len(background) >= BackgroundCap

\* withWrite, up to the select.  A full queue is ErrCatalogBudget, which
\* changes nothing; neither does a context that is already done.
Enter(w) ==
    /\ pc[w] = "outside"
    /\ w \notin cancelled
    /\ ~Full(w)
    /\ pc' = [pc EXCEPT ![w] = "waiting"]
    /\ IF w \in Foreground
         THEN Dispatch(granted, active, Append(foreground, w), background)
         ELSE Dispatch(granted, active, foreground, Append(background, w))
    /\ UNCHANGED cancelled

\* select: w.ready, which wins or loses at random when both are ready.
Admit(w) ==
    /\ pc[w] = "waiting"
    /\ w \in granted
    /\ pc' = [pc EXCEPT ![w] = "admitted"]
    /\ UNCHANGED <<cancelled, granted, active, foreground, background>>

\* select: ctx.Done(); the lock is still to be taken.
GiveUp(w) ==
    /\ pc[w] = "waiting"
    /\ w \in cancelled
    /\ pc' = [pc EXCEPT ![w] = "leaving"]
    /\ UNCHANGED <<cancelled, granted, active, foreground, background>>

\* Mutant: a waiter that was let in while it gave up does not hand the slot on.
LeaveForgetsSlot(w) ==
    /\ pc[w] = "leaving"
    /\ pc' = [pc EXCEPT ![w] = "outside"]
    /\ Dispatch(granted \ {w}, active, RemoveFirst(foreground, w),
                RemoveFirst(background, w))
    /\ cancelled' = cancelled \ {w}

\* The ctx.Done() branch under the lock: a waiter that was let in meanwhile
\* hands the slot on, any other one leaves its queue.
Leave(w) ==
    /\ pc[w] = "leaving"
    /\ pc' = [pc EXCEPT ![w] = "outside"]
    /\ IF w \in granted
         THEN Dispatch(granted \ {w}, FALSE, foreground, background)
         ELSE Dispatch(granted, active, RemoveFirst(foreground, w),
                       RemoveFirst(background, w))
    /\ cancelled' = cancelled \ {w}

\* ctx is looked at once more before write().
Begin(w) ==
    /\ pc[w] = "admitted"
    /\ w \notin cancelled
    /\ pc' = [pc EXCEPT ![w] = "writing"]
    /\ UNCHANGED <<cancelled, granted, active, foreground, background>>

\* Mutant: the slot is freed but nobody is let in.
ReleaseOnly(w) ==
    /\ \/ pc[w] = "writing"
       \/ pc[w] = "admitted" /\ w \in cancelled
    /\ pc' = [pc EXCEPT ![w] = "outside"]
    /\ Holds(granted \ {w}, FALSE, foreground, background)
    /\ cancelled' = cancelled \ {w}

\* The deferred release, after write() or instead of it.
Release(w) ==
    /\ \/ pc[w] = "writing"
       \/ pc[w] = "admitted" /\ w \in cancelled
    /\ pc' = [pc EXCEPT ![w] = "outside"]
    /\ Dispatch(granted \ {w}, FALSE, foreground, background)
    /\ cancelled' = cancelled \ {w}

\* The context of a call ends.
Cancel(w) ==
    /\ pc[w] # "outside"
    /\ cancelled' = cancelled \cup {w}
    /\ UNCHANGED <<pc, granted, active, foreground, background>>

Init ==
    /\ pc = [w \in Writers |-> "outside"]
    /\ cancelled = {}
    /\ granted = {}
    /\ active = FALSE
    /\ foreground = <<>>
    /\ background = <<>>

Next ==
    \E w \in Writers :
        \/ Enter(w)
        \/ Admit(w)
        \/ GiveUp(w)
        \/ Leave(w)
        \/ Begin(w)
        \/ Release(w)
        \/ Cancel(w)

Spec == Init /\ [][Next]_vars

\* A goroutine that can go on does; a write transaction ends.
FairSpec ==
    Spec /\ \A w \in Writers :
               WF_vars(Admit(w) \/ GiveUp(w) \/ Leave(w) \/ Begin(w) \/ Release(w))

-----------------------------------------------------------------------------
(* Properties *)

\* The queues hold writers of their kind, within their limits.
TypeOK ==
    /\ pc \in [Writers -> PCs]
    /\ cancelled \subseteq Writers
    /\ granted \subseteq Writers
    /\ active \in BOOLEAN
    /\ foreground \in Seq(Foreground)
    /\ background \in Seq(Background)
    /\ Len(foreground) <= ForegroundCap
    /\ Len(background) <= BackgroundCap

\* The slot belongs to at most one call, and to one exactly while active says
\* so: however a cancellation, a grant and a release interleave, two write
\* transactions are never open at once, and the slot is neither kept by a call
\* that returned nor handed on twice.
OneWriter ==
    /\ \A v, w \in granted : v = w
    /\ active <=> granted # {}
    /\ \A w \in Writers : pc[w] \in {"admitted", "writing"} => w \in granted
    /\ \A w \in granted : pc[w] # "outside"

\* The writers in a queue.
Queued == ToSet(foreground) \cup ToSet(background)

\* Nobody waits for nothing: who waits without having been let in is queued
\* exactly once, and while anybody is queued the slot is in use, so that its
\* release lets the next one in.
NobodyForgotten ==
    /\ Queued = {w \in Writers : pc[w] \in {"waiting", "leaving"} /\ w \notin granted}
    /\ IsInjective(foreground)
    /\ IsInjective(background)
    /\ Queued # {} => active

\* A background writer is let in only when no foreground writer waits.
ForegroundFirst ==
    [][\A w \in Background : (w \in granted' /\ w \notin granted)
          => foreground' = <<>>]_vars

\* Every foreground writer gets its turn or gives up, however many writers of
\* either kind keep coming.
ForegroundServed ==
    \A w \in Foreground : pc[w] = "waiting" ~> pc[w] # "waiting"

=============================================================================
