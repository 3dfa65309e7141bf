---------------------------- MODULE CatalogView ----------------------------
(***************************************************************************)
(* What the snapshot catalogue of one media library promises to the code   *)
(* that uses it, with no layers, revisions, leases or garbage collection:  *)
(*                                                                         *)
(*  - the catalogue is a set of rows, and it changes only when a prepared  *)
(*    change is published or when the library gets another source;         *)
(*  - a change is prepared from the rows its author read and is published  *)
(*    only while those still are the rows of the catalogue, so no author   *)
(*    overwrites a change he has not seen;                                 *)
(*  - long-running work is bound to the rows of one moment and reads those *)
(*    rows until it lets them go, whatever is published meanwhile; binding *)
(*    it again gives the same rows.                                        *)
(*                                                                         *)
(* CatalogSnapshot implements it.                                          *)
(***************************************************************************)
CONSTANTS Candidates,   \* prepared changes
          Owners,       \* work that is bound to a moment of the catalogue
          Ids,          \* identities of catalogue rows
          Vals,         \* what a row may say
          None,         \* no row, no draft, nothing bound
          Tombstone     \* the row is deleted

VARIABLES content,  \* the rows of the catalogue
          draft,    \* candidate -> the rows its author read and the changes so far
          bound     \* owner -> the rows it is bound to and whether it holds them

viewVars == <<content, draft, bound>>

Rows == Ids \X Vals

Facts == [Ids -> Vals \cup {None, Tombstone}]

NoFacts == [i \in Ids |-> None]

(* The rows a set of facts states by itself, and the rows that a change      *)
(* leaves of a catalogue: what it does not mention stays.                    *)
RowsOf(f) == {r \in Rows : f[r[1]] = r[2]}

Overlay(c, f) == {r \in c : f[r[1]] = None} \cup RowsOf(f)

ViewInit ==
    /\ content \in SUBSET Rows
    /\ draft = [c \in Candidates |-> None]
    /\ bound = [o \in Owners |-> None]

Start(c) ==
    /\ draft[c] = None
    /\ \E full \in BOOLEAN :
          draft' = [draft EXCEPT ![c] =
              [full |-> full, basis |-> content, change |-> NoFacts]]
    /\ UNCHANGED <<content, bound>>

Write(c) ==
    /\ draft[c] # None
    /\ \E f \in Facts :
          draft' = [draft EXCEPT ![c] = [draft[c] EXCEPT !.change = f]]
    /\ UNCHANGED <<content, bound>>

(* A delta adds its change to the rows its author read; a full preparation   *)
(* replaces them.                                                            *)
Publish(c) ==
    /\ draft[c] # None
    /\ draft[c].basis = content
    /\ content' = IF draft[c].full THEN RowsOf(draft[c].change)
                                   ELSE Overlay(content, draft[c].change)
    /\ draft' = [draft EXCEPT ![c] = None]
    /\ UNCHANGED bound

Drop(C) ==
    /\ draft' = [c \in Candidates |-> IF c \in C THEN None ELSE draft[c]]
    /\ UNCHANGED <<content, bound>>

(* The library now reads another source: nothing is known about it yet, and  *)
(* nothing prepared for the old one survives.                                *)
Replace ==
    /\ content' = {}
    /\ draft' = [c \in Candidates |-> None]
    /\ UNCHANGED bound

Capture(o) ==
    /\ \/ bound[o] = None
       \/ ~bound[o].held
    /\ bound' = [bound EXCEPT ![o] = [view |-> content, held |-> TRUE]]
    /\ UNCHANGED <<content, draft>>

Release(o) ==
    /\ bound[o] # None
    /\ bound[o].held
    /\ bound' = [bound EXCEPT ![o] = [bound[o] EXCEPT !.held = FALSE]]
    /\ UNCHANGED <<content, draft>>

Rebind(o) ==
    /\ bound[o] # None
    /\ ~bound[o].held
    /\ bound' = [bound EXCEPT ![o] = [bound[o] EXCEPT !.held = TRUE]]
    /\ UNCHANGED <<content, draft>>

ViewNext ==
    \/ \E c \in Candidates : Start(c) \/ Write(c) \/ Publish(c)
    \/ \E C \in SUBSET Candidates : Drop(C)
    \/ Replace
    \/ \E o \in Owners : Capture(o) \/ Release(o) \/ Rebind(o)

ViewSpec == ViewInit /\ [][ViewNext]_viewVars
=============================================================================
