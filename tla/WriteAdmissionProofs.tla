------------------------ MODULE WriteAdmissionProofs ------------------------
(***************************************************************************)
(* OneWriter and NobodyForgotten, for every set of writers and every limit *)
(* of the queues.  Together with the types they are inductive: a waiter is *)
(* let in from a queue, so who holds the slot is right only because the    *)
(* queues hold exactly the waiters that were not let in, each of them once.*)
(***************************************************************************)
EXTENDS WriteAdmission, SequenceTheorems, TLAPS

-----------------------------------------------------------------------------
(* Sequences without repetition *)

\* Append adds one element at the end.
LEMMA Appended ==
    ASSUME NEW S, NEW s \in Seq(S), IsInjective(s), NEW e \in S, e \notin ToSet(s)
    PROVE  /\ Append(s, e) \in Seq(S)
           /\ IsInjective(Append(s, e))
           /\ ToSet(Append(s, e)) = ToSet(s) \cup {e}
           /\ Len(Append(s, e)) = Len(s) + 1
<1>1. /\ Append(s, e) \in Seq(S)
      /\ Len(Append(s, e)) = Len(s) + 1
      /\ \A i \in 1..Len(s) : Append(s, e)[i] = s[i]
      /\ Append(s, e)[Len(s) + 1] = e
      /\ DOMAIN Append(s, e) = 1..(Len(s) + 1)
      /\ DOMAIN s = 1..Len(s)
      /\ Len(s) \in Nat
  BY AppendProperties
<1>2. ToSet(Append(s, e)) = ToSet(s) \cup {e}
  <2>1. 1..(Len(s) + 1) = (1..Len(s)) \cup {Len(s) + 1}
    BY <1>1
  <2>2. QED
    BY <1>1, <2>1 DEF ToSet
<1>3. IsInjective(Append(s, e))
  BY <1>1 DEF IsInjective, ToSet
<1>4. QED
  BY <1>1, <1>2, <1>3

\* Head and Tail take the first element off.
LEMMA FirstTaken ==
    ASSUME NEW S, NEW s \in Seq(S), IsInjective(s), s # <<>>
    PROVE  /\ Head(s) \in S
           /\ Head(s) \in ToSet(s)
           /\ Tail(s) \in Seq(S)
           /\ IsInjective(Tail(s))
           /\ ToSet(Tail(s)) = ToSet(s) \ {Head(s)}
           /\ Len(Tail(s)) <= Len(s)
<1>1. /\ Head(s) \in S
      /\ Tail(s) \in Seq(S)
      /\ Len(Tail(s)) = Len(s) - 1
      /\ \A i \in 1..Len(Tail(s)) : Tail(s)[i] = s[i + 1]
  BY HeadTailProperties
<1>2. /\ Len(s) \in Nat \ {0}
      /\ DOMAIN s = 1..Len(s)
      /\ DOMAIN Tail(s) = 1..(Len(s) - 1)
      /\ Head(s) = s[1]
  BY <1>1, EmptySeq
<1>3. \A i \in 1..(Len(s) - 1) : Tail(s)[i] = s[i + 1] /\ i + 1 \in 1..Len(s)
  BY <1>1, <1>2
<1>4. IsInjective(Tail(s))
  BY <1>2, <1>3 DEF IsInjective
<1>5. ToSet(Tail(s)) = ToSet(s) \ {Head(s)}
  <2>1. ASSUME NEW x \in ToSet(Tail(s)) PROVE x \in ToSet(s) \ {Head(s)}
    BY <1>2, <1>3 DEF ToSet, IsInjective
  <2>2. ASSUME NEW x \in ToSet(s) \ {Head(s)} PROVE x \in ToSet(Tail(s))
    <3>1. PICK i \in 1..Len(s) : x = s[i]
      BY <1>2 DEF ToSet
    <3>2. i - 1 \in 1..(Len(s) - 1) /\ (i - 1) + 1 = i
      BY <1>2, <3>1
    <3>3. QED
      BY <1>2, <1>3, <3>1, <3>2 DEF ToSet
  <2>3. QED
    BY <2>1, <2>2
<1>6. Head(s) \in ToSet(s)
  BY <1>2 DEF ToSet
<1>7. Len(Tail(s)) <= Len(s)
  BY <1>1, <1>2
<1>8. QED
  BY <1>1, <1>4, <1>5, <1>6, <1>7

\* RemoveFirst takes an element out, wherever it is.
LEMMA Removed ==
    ASSUME NEW S, NEW s \in Seq(S), IsInjective(s), NEW e
    PROVE  /\ RemoveFirst(s, e) \in Seq(S)
           /\ IsInjective(RemoveFirst(s, e))
           /\ ToSet(RemoveFirst(s, e)) = ToSet(s) \ {e}
           /\ Len(RemoveFirst(s, e)) <= Len(s)
<1>0. Len(s) \in Nat /\ DOMAIN s = 1..Len(s) /\ \A i \in 1..Len(s) : s[i] \in S
  OBVIOUS
<1>1. CASE e \notin ToSet(s)
  <2>1. RemoveFirst(s, e) = s
    BY <1>0, <1>1 DEF RemoveFirst, ToSet
  <2>2. ToSet(s) = ToSet(s) \ {e}
    BY <1>1
  <2>3. QED
    BY <2>1, <2>2, <1>0
<1>2. CASE e \in ToSet(s)
  <2>1. PICK p \in 1..Len(s) : s[p] = e
    BY <1>0, <1>2 DEF ToSet
  <2>2. {i \in 1..Len(s) : s[i] = e} = {p}
    BY <1>0, <2>1 DEF IsInjective
  <2>3. Min({p}) = p
    BY <2>1 DEF Min
  <2>4. RemoveFirst(s, e) = SubSeq(s, 1, p - 1) \o SubSeq(s, p + 1, Len(s))
    BY <2>1, <2>2, <2>3 DEF RemoveFirst, SelectInSeq, RemoveAt
  <2> DEFINE front == SubSeq(s, 1, p - 1)
             back  == SubSeq(s, p + 1, Len(s))
             r     == front \o back
  <2>5. /\ front \in Seq(S)
        /\ Len(front) = p - 1
        /\ \A i \in 1..(p - 1) : front[i] = s[i]
    <3>1. 1 \in Int /\ p - 1 \in Int /\ \A i \in 1..(p - 1) : s[i] \in S
      BY <1>0, <2>1
    <3>2. QED
      BY <3>1, <2>1, SubSeqProperties
  <2>6. /\ back \in Seq(S)
        /\ Len(back) = Len(s) - p
        /\ \A i \in 1..(Len(s) - p) : back[i] = s[p + i]
    <3>1. p + 1 \in Int /\ Len(s) \in Int /\ \A i \in (p + 1)..Len(s) : s[i] \in S
      BY <1>0, <2>1
    <3>2. /\ back \in Seq(S)
          /\ Len(back) = IF p + 1 <= Len(s) THEN Len(s) - (p + 1) + 1 ELSE 0
          /\ \A i \in 1..(Len(s) - (p + 1) + 1) : back[i] = s[(p + 1) + i - 1]
      BY <3>1, SubSeqProperties
    <3> HIDE DEF back
    <3>3. Len(back) = Len(s) - p
      <4>0. p \in Nat /\ Len(s) \in Nat /\ p <= Len(s)
        BY <1>0, <2>1
      <4>a. Len(back) = IF p + 1 <= Len(s) THEN Len(s) - (p + 1) + 1 ELSE 0
        BY <3>2
      <4>1. CASE p + 1 <= Len(s)
        BY <4>0, <4>1, <4>a
      <4>2. CASE ~(p + 1 <= Len(s))
        <5>1. Len(s) = p
          BY <4>0, <4>2
        <5>2. Len(back) = 0
          BY <4>2, <4>a
        <5>3. QED
          BY <4>0, <5>1, <5>2
      <4>3. QED
        BY <4>1, <4>2
    <3>4. ASSUME NEW i \in 1..(Len(s) - p) PROVE back[i] = s[p + i]
      <4>1. i \in 1..(Len(s) - (p + 1) + 1) /\ (p + 1) + i - 1 = p + i
        BY <1>0, <2>1
      <4>2. QED
        BY <3>2, <4>1
    <3>5. QED
      BY <3>2, <3>3, <3>4
  <2>r. RemoveFirst(s, e) = r
    BY <2>4
  <2> HIDE DEF front, back
  <2>7. /\ r \in Seq(S)
        /\ Len(r) = Len(s) - 1
        /\ \A i \in 1..(Len(s) - 1) : r[i] = IF i <= p - 1 THEN s[i] ELSE s[i + 1]
    <3>1. /\ r \in Seq(S)
          /\ Len(r) = Len(front) + Len(back)
          /\ \A i \in 1..(Len(front) + Len(back)) :
                r[i] = IF i <= Len(front) THEN front[i] ELSE back[i - Len(front)]
      BY <2>5, <2>6, ConcatProperties
    <3>2. Len(front) + Len(back) = Len(s) - 1
      BY <1>0, <2>1, <2>5, <2>6
    <3>3. ASSUME NEW i \in 1..(Len(s) - 1)
          PROVE  r[i] = IF i <= p - 1 THEN s[i] ELSE s[i + 1]
      <4>1. CASE i <= p - 1
        BY <4>1, <3>1, <3>2, <2>5, <2>1, <1>0
      <4>2. CASE ~(i <= p - 1)
        <5>1. i - (p - 1) \in 1..(Len(s) - p) /\ p + (i - (p - 1)) = i + 1
          BY <4>2, <2>1, <1>0
        <5>2. QED
          BY <4>2, <5>1, <3>1, <3>2, <2>5, <2>6, <2>1, <1>0
      <4>3. QED
        BY <4>1, <4>2
    <3>4. QED
      BY <3>1, <3>2, <3>3
  <2> HIDE DEF r
  <2>8. DOMAIN r = 1..(Len(s) - 1)
    BY <2>7
  <2>9. IsInjective(r)
    <3>1. SUFFICES ASSUME NEW a \in 1..(Len(s) - 1), NEW b \in 1..(Len(s) - 1),
                          r[a] = r[b]
                   PROVE  a = b
      BY <2>8 DEF IsInjective
    <3>2. /\ a \in 1..Len(s) /\ a + 1 \in 1..Len(s)
          /\ b \in 1..Len(s) /\ b + 1 \in 1..Len(s)
      BY <1>0
    <3>3. \A m, n \in 1..Len(s) : s[m] = s[n] => m = n
      BY <1>0 DEF IsInjective
    <3>4. QED
      BY <3>1, <3>2, <3>3, <2>7, <2>1, <1>0
  <2>10. ToSet(r) = ToSet(s) \ {e}
    <3>1. ASSUME NEW i \in 1..(Len(s) - 1) PROVE r[i] \in ToSet(s) \ {e}
      <4>1. i \in 1..Len(s) /\ i + 1 \in 1..Len(s)
        BY <1>0
      <4>2. \A m, n \in 1..Len(s) : s[m] = s[n] => m = n
        BY <1>0 DEF IsInjective
      <4>3. CASE i <= p - 1
        <5>1. r[i] = s[i] /\ i # p
          BY <4>3, <2>7, <2>1
        <5>2. QED
          BY <5>1, <4>1, <4>2, <2>1, <1>0 DEF ToSet
      <4>4. CASE ~(i <= p - 1)
        <5>1. r[i] = s[i + 1] /\ i + 1 # p
          BY <4>4, <2>7, <2>1
        <5>2. QED
          BY <5>1, <4>1, <4>2, <2>1, <1>0 DEF ToSet
      <4>5. QED
        BY <4>3, <4>4
    <3>2. ASSUME NEW i \in 1..Len(s), i # p PROVE s[i] \in ToSet(r)
      <4>1. CASE i < p
        <5>1. i \in 1..(Len(s) - 1) /\ i <= p - 1
          BY <4>1, <2>1, <1>0
        <5>2. QED
          BY <5>1, <2>7, <2>8 DEF ToSet
      <4>2. CASE i > p
        <5>1. i - 1 \in 1..(Len(s) - 1) /\ ~(i - 1 <= p - 1) /\ (i - 1) + 1 = i
          BY <4>2, <2>1, <1>0
        <5>2. QED
          BY <5>1, <2>7, <2>8 DEF ToSet
      <4>3. QED
        BY <4>1, <4>2, <3>2, <2>1
    <3>3. QED
      BY <3>1, <3>2, <2>1, <2>8, <1>0 DEF ToSet
  <2>11. QED
    <3>1. Len(r) <= Len(s)
      BY <2>7, <1>0
    <3>2. QED
      BY <2>r, <2>7, <2>9, <2>10, <3>1
<1>3. QED
  BY <1>1, <1>2

-----------------------------------------------------------------------------
(* The inductive invariant *)

\* The slot and the queues, as functions of the values they are made of.
SlotOk(p, set, act) ==
    /\ p \in [Writers -> PCs]
    /\ set \subseteq Writers
    /\ act \in BOOLEAN
    /\ \A v, w \in set : v = w
    /\ act <=> set # {}
    /\ \A w \in Writers : p[w] \in {"admitted", "writing"} => w \in set
    /\ \A w \in set : p[w] # "outside"

QueuesOk(p, set, fg, bg) ==
    /\ fg \in Seq(Foreground)
    /\ bg \in Seq(Background)
    /\ IsInjective(fg)
    /\ IsInjective(bg)
    /\ ToSet(fg) \cup ToSet(bg)
          = {w \in Writers : p[w] \in {"waiting", "leaving"} /\ w \notin set}

Lengths(fg, bg) == Len(fg) <= ForegroundCap /\ Len(bg) <= BackgroundCap

Inv ==
    /\ SlotOk(pc, granted, active)
    /\ QueuesOk(pc, granted, foreground, background)
    /\ Lengths(foreground, background)
    /\ Queued # {} => active
    /\ cancelled \subseteq Writers

\* dispatchLocked restores the invariant, whatever its caller has written.
LEMMA Dispatched ==
    ASSUME NEW p, NEW set, NEW act, NEW fg, NEW bg,
           SlotOk(p, set, act), QueuesOk(p, set, fg, bg), Lengths(fg, bg),
           Dispatch(set, act, fg, bg)
    PROVE  /\ SlotOk(p, granted', active')
           /\ QueuesOk(p, granted', foreground', background')
           /\ Lengths(foreground', background')
           /\ Queued' # {} => active'
<1>0. /\ fg \in Seq(Foreground) /\ bg \in Seq(Background)
      /\ IsInjective(fg) /\ IsInjective(bg)
      /\ Len(fg) \in Nat /\ Len(bg) \in Nat
      /\ ForegroundCap \in Nat /\ BackgroundCap \in Nat
  BY CapAssumption DEF QueuesOk, CapAssumption
<1>s. /\ ToSet(fg) \subseteq Foreground /\ ToSet(bg) \subseteq Background
      /\ Foreground \cap Background = {}
      /\ Foreground \subseteq Writers /\ Background \subseteq Writers
  BY <1>0, WritersAssumption DEF ToSet, Background, WritersAssumption
<1>q. Queued' = ToSet(foreground') \cup ToSet(background')
  BY DEF Queued
<1>1. CASE ~act /\ fg # <<>>
  <2>1. /\ granted' = set \cup {Head(fg)} /\ active' = TRUE
        /\ foreground' = Tail(fg) /\ background' = bg
    BY <1>1 DEF Dispatch, Holds
  <2>2. /\ Head(fg) \in Foreground /\ Head(fg) \in ToSet(fg)
        /\ Tail(fg) \in Seq(Foreground) /\ IsInjective(Tail(fg))
        /\ ToSet(Tail(fg)) = ToSet(fg) \ {Head(fg)}
        /\ Len(Tail(fg)) <= Len(fg) /\ Len(Tail(fg)) \in Nat
    BY <1>0, <1>1, FirstTaken
  <2>3. set = {}
    BY <1>1 DEF SlotOk
  <2>4. Head(fg) \in Writers /\ p[Head(fg)] \in {"waiting", "leaving"}
    BY <2>2 DEF QueuesOk
  <2>5. SlotOk(p, granted', active')
    BY <2>1, <2>3, <2>4 DEF SlotOk
  <2>6. ToSet(Tail(fg)) \cup ToSet(bg)
          = {w \in Writers : p[w] \in {"waiting", "leaving"} /\ w \notin {Head(fg)}}
    BY <2>2, <2>3, <1>s DEF QueuesOk
  <2>7. QueuesOk(p, granted', foreground', background')
    BY <2>1, <2>2, <2>3, <2>6, <1>0 DEF QueuesOk
  <2>8. Lengths(foreground', background')
    BY <2>1, <2>2, <1>0 DEF Lengths
  <2>9. QED
    BY <2>1, <2>5, <2>7, <2>8
<1>2. CASE ~act /\ fg = <<>> /\ bg # <<>>
  <2>1. /\ granted' = set \cup {Head(bg)} /\ active' = TRUE
        /\ foreground' = fg /\ background' = Tail(bg)
    BY <1>2 DEF Dispatch, Holds
  <2>2. /\ Head(bg) \in Background /\ Head(bg) \in ToSet(bg)
        /\ Tail(bg) \in Seq(Background) /\ IsInjective(Tail(bg))
        /\ ToSet(Tail(bg)) = ToSet(bg) \ {Head(bg)}
        /\ Len(Tail(bg)) <= Len(bg) /\ Len(Tail(bg)) \in Nat
    BY <1>0, <1>2, FirstTaken
  <2>3. set = {}
    BY <1>2 DEF SlotOk
  <2>4. Head(bg) \in Writers /\ p[Head(bg)] \in {"waiting", "leaving"}
    BY <2>2 DEF QueuesOk
  <2>5. SlotOk(p, granted', active')
    BY <2>1, <2>3, <2>4 DEF SlotOk
  <2>6. ToSet(fg) \cup ToSet(Tail(bg))
          = {w \in Writers : p[w] \in {"waiting", "leaving"} /\ w \notin {Head(bg)}}
    BY <2>2, <2>3, <1>s DEF QueuesOk
  <2>7. QueuesOk(p, granted', foreground', background')
    BY <2>1, <2>2, <2>3, <2>6, <1>0 DEF QueuesOk
  <2>8. Lengths(foreground', background')
    BY <2>1, <2>2, <1>0 DEF Lengths
  <2>9. QED
    BY <2>1, <2>5, <2>7, <2>8
<1>3. CASE act \/ (fg = <<>> /\ bg = <<>>)
  <2>1. /\ granted' = set /\ active' = act
        /\ foreground' = fg /\ background' = bg
    BY <1>3 DEF Dispatch, Holds
  <2>2. Queued' # {} => active'
    <3>1. CASE act
      BY <3>1, <2>1
    <3>2. CASE fg = <<>> /\ bg = <<>>
      <4>1. ToSet(fg) = {} /\ ToSet(bg) = {}
        BY <3>2 DEF ToSet
      <4>2. QED
        BY <4>1, <2>1, <1>q
    <3>3. QED
      BY <3>1, <3>2, <1>3
  <2>3. QED
    BY <2>1, <2>2
<1>4. QED
  BY <1>1, <1>2, <1>3

\* The invariant holds before anybody enters.
LEMMA InvInitially == Init => Inv
<1> SUFFICES ASSUME Init PROVE Inv
  OBVIOUS
<1>1. ToSet(<<>>) = {} /\ IsInjective(<<>>) /\ Len(<<>>) = 0
  BY DEF ToSet, IsInjective
<1>2. SlotOk(pc, granted, active)
  BY DEF Init, SlotOk, PCs
<1>3. QueuesOk(pc, granted, foreground, background)
  BY <1>1 DEF Init, QueuesOk
<1>4. Lengths(foreground, background)
  BY <1>1, CapAssumption DEF Init, Lengths, CapAssumption
<1>5. QED
  BY <1>1, <1>2, <1>3, <1>4 DEF Inv, Init, Queued

-----------------------------------------------------------------------------
(* One lemma per action *)

\* What the invariant says of the queues, as facts the provers can use.
LEMMA QueueFacts ==
    ASSUME Inv
    PROVE  /\ foreground \in Seq(Foreground) /\ background \in Seq(Background)
           /\ IsInjective(foreground) /\ IsInjective(background)
           /\ Len(foreground) \in Nat /\ Len(background) \in Nat
           /\ Len(foreground) <= ForegroundCap /\ Len(background) <= BackgroundCap
           /\ ForegroundCap \in Nat /\ BackgroundCap \in Nat
           /\ ToSet(foreground) \subseteq Foreground
           /\ ToSet(background) \subseteq Background
           /\ Foreground \cup Background = Writers
           /\ Foreground \cap Background = {}
           /\ ToSet(foreground) \cup ToSet(background)
                 = {w \in Writers : pc[w] \in {"waiting", "leaving"} /\ w \notin granted}
<1>1. /\ foreground \in Seq(Foreground) /\ background \in Seq(Background)
      /\ IsInjective(foreground) /\ IsInjective(background)
      /\ ToSet(foreground) \cup ToSet(background)
            = {w \in Writers : pc[w] \in {"waiting", "leaving"} /\ w \notin granted}
  BY DEF Inv, QueuesOk
<1>2. /\ ToSet(foreground) \subseteq Foreground
      /\ ToSet(background) \subseteq Background
  BY <1>1 DEF ToSet
<1>3. /\ Foreground \cup Background = Writers
      /\ Foreground \cap Background = {}
  BY WritersAssumption DEF WritersAssumption, Background
<1>4. /\ Len(foreground) \in Nat /\ Len(background) \in Nat
      /\ Len(foreground) <= ForegroundCap /\ Len(background) <= BackgroundCap
      /\ ForegroundCap \in Nat /\ BackgroundCap \in Nat
  BY <1>1, CapAssumption DEF CapAssumption, Inv, Lengths
<1>5. QED
  BY <1>1, <1>2, <1>3, <1>4

\* A call joins its queue.
LEMMA EnterKeeps == ASSUME Inv, NEW w \in Writers, Enter(w) PROVE Inv'
<1>0. /\ pc \in [Writers -> PCs] /\ pc[w] = "outside"
      /\ pc' = [pc EXCEPT ![w] = "waiting"] /\ cancelled' = cancelled
      /\ ~Full(w)
  BY DEF Enter, Inv, SlotOk
<1>1. /\ pc' \in [Writers -> PCs]
      /\ pc'[w] = "waiting" /\ \A v \in Writers \ {w} : pc'[v] = pc[v]
  BY <1>0 DEF PCs
<1>2. w \notin granted /\ w \notin ToSet(foreground) /\ w \notin ToSet(background)
  BY <1>0, QueueFacts DEF Inv, SlotOk
<1>3. SlotOk(pc', granted, active)
  BY <1>0, <1>1, <1>2 DEF Inv, SlotOk
<1>4. CASE w \in Foreground
  <2> DEFINE fg == Append(foreground, w)
  <2>1. /\ fg \in Seq(Foreground) /\ IsInjective(fg)
        /\ ToSet(fg) = ToSet(foreground) \cup {w}
        /\ Len(fg) = Len(foreground) + 1
    BY <1>2, <1>4, QueueFacts, Appended
  <2>2. Dispatch(granted, active, fg, background)
    BY <1>4 DEF Enter
  <2> HIDE DEF fg
  <2>3. ToSet(fg) \cup ToSet(background)
          = {v \in Writers : pc'[v] \in {"waiting", "leaving"} /\ v \notin granted}
    BY <2>1, <1>1, <1>2, QueueFacts
  <2>4. QueuesOk(pc', granted, fg, background)
    BY <2>1, <2>3, QueueFacts DEF QueuesOk
  <2>5. Lengths(fg, background)
    BY <2>1, <1>0, <1>4, QueueFacts DEF Lengths, Full
  <2>6. QED
    BY <1>0, <1>3, <2>2, <2>4, <2>5, Dispatched DEF Inv
<1>5. CASE w \notin Foreground
  <2> DEFINE bg == Append(background, w)
  <2>1. w \in Background
    BY <1>5 DEF Background
  <2>2. /\ bg \in Seq(Background) /\ IsInjective(bg)
        /\ ToSet(bg) = ToSet(background) \cup {w}
        /\ Len(bg) = Len(background) + 1
    BY <1>2, <2>1, QueueFacts, Appended
  <2>3. Dispatch(granted, active, foreground, bg)
    BY <1>5 DEF Enter
  <2> HIDE DEF bg
  <2>4. ToSet(foreground) \cup ToSet(bg)
          = {v \in Writers : pc'[v] \in {"waiting", "leaving"} /\ v \notin granted}
    BY <2>2, <1>1, <1>2, QueueFacts
  <2>5. QueuesOk(pc', granted, foreground, bg)
    BY <2>2, <2>4, QueueFacts DEF QueuesOk
  <2>6. Lengths(foreground, bg)
    BY <2>2, <1>0, <1>5, QueueFacts DEF Lengths, Full
  <2>7. QED
    BY <1>0, <1>3, <2>3, <2>5, <2>6, Dispatched DEF Inv
<1>6. QED
  BY <1>4, <1>5

\* A step within a call that leaves the admission alone.
LEMMA QuietKeeps ==
    ASSUME Inv, NEW w \in Writers, NEW to \in PCs,
           pc' = [pc EXCEPT ![w] = to], cancelled' \subseteq Writers,
           UNCHANGED <<granted, active, foreground, background>>,
           \/ pc[w] = "waiting" /\ to = "leaving"
           \/ pc[w] \in {"waiting", "admitted"} /\ w \in granted
              /\ to \in {"admitted", "writing"}
    PROVE  Inv'
<1>1. /\ pc \in [Writers -> PCs] /\ pc' \in [Writers -> PCs]
      /\ pc'[w] = to /\ \A v \in Writers \ {w} : pc'[v] = pc[v]
  BY DEF Inv, SlotOk
<1>2. SlotOk(pc', granted', active')
  BY <1>1 DEF Inv, SlotOk
<1>3. ToSet(foreground) \cup ToSet(background)
        = {v \in Writers : pc'[v] \in {"waiting", "leaving"} /\ v \notin granted}
  BY <1>1, QueueFacts
<1>4. QueuesOk(pc', granted', foreground', background')
  BY <1>3, QueueFacts DEF QueuesOk
<1>5. Lengths(foreground', background') /\ (Queued' # {} => active')
  BY DEF Inv, Queued, Lengths
<1>6. QED
  BY <1>2, <1>4, <1>5 DEF Inv

\* The holder of the slot leaves and hands it on.
LEMMA HandOverKeeps ==
    ASSUME Inv, NEW w \in Writers, w \in granted,
           pc' = [pc EXCEPT ![w] = "outside"], cancelled' \subseteq Writers,
           Dispatch(granted \ {w}, FALSE, foreground, background)
    PROVE  Inv'
<1>1. /\ pc' \in [Writers -> PCs]
      /\ pc'[w] = "outside" /\ \A v \in Writers \ {w} : pc'[v] = pc[v]
  BY DEF Inv, SlotOk, PCs
<1>2. granted = {w} /\ granted \ {w} = {}
  BY DEF Inv, SlotOk
<1>3. SlotOk(pc', granted \ {w}, FALSE)
  BY <1>1, <1>2 DEF Inv, SlotOk
<1>4. ToSet(foreground) \cup ToSet(background)
        = {v \in Writers : pc'[v] \in {"waiting", "leaving"} /\ v \notin granted \ {w}}
  BY <1>1, <1>2, QueueFacts
<1>5. QueuesOk(pc', granted \ {w}, foreground, background)
  BY <1>4, QueueFacts DEF QueuesOk
<1>6. Lengths(foreground, background)
  BY DEF Inv
<1>7. QED
  BY <1>3, <1>5, <1>6, Dispatched DEF Inv

\* A waiter that was not let in leaves its queue.
LEMMA UnqueueKeeps ==
    ASSUME Inv, NEW w \in Writers, w \notin granted, pc[w] = "leaving",
           pc' = [pc EXCEPT ![w] = "outside"], cancelled' \subseteq Writers,
           Dispatch(granted, active, RemoveFirst(foreground, w),
                    RemoveFirst(background, w))
    PROVE  Inv'
<1> DEFINE fg == RemoveFirst(foreground, w)
           bg == RemoveFirst(background, w)
<1>1. /\ pc' \in [Writers -> PCs]
      /\ pc'[w] = "outside" /\ \A v \in Writers \ {w} : pc'[v] = pc[v]
  BY DEF Inv, SlotOk, PCs
<1>2. SlotOk(pc', granted, active)
  BY <1>1 DEF Inv, SlotOk
<1>3. /\ fg \in Seq(Foreground) /\ IsInjective(fg)
      /\ ToSet(fg) = ToSet(foreground) \ {w} /\ Len(fg) <= Len(foreground)
  BY QueueFacts, Removed
<1>4. /\ bg \in Seq(Background) /\ IsInjective(bg)
      /\ ToSet(bg) = ToSet(background) \ {w} /\ Len(bg) <= Len(background)
  BY QueueFacts, Removed
<1> HIDE DEF fg, bg
<1>5. ToSet(fg) \cup ToSet(bg)
        = {v \in Writers : pc'[v] \in {"waiting", "leaving"} /\ v \notin granted}
  BY <1>1, <1>3, <1>4, QueueFacts
<1>6. QueuesOk(pc', granted, fg, bg)
  BY <1>3, <1>4, <1>5 DEF QueuesOk
<1>7. Lengths(fg, bg)
  <2>1. Len(fg) \in Nat /\ Len(bg) \in Nat
    BY <1>3, <1>4
  <2>2. QED
    BY <2>1, <1>3, <1>4, QueueFacts DEF Lengths
<1>8. Dispatch(granted, active, fg, bg)
  BY DEF fg, bg
<1>9. QED
  BY <1>2, <1>6, <1>7, <1>8, Dispatched DEF Inv

\* Every step keeps the invariant.
LEMMA InvKept == Inv /\ [Next]_vars => Inv'
<1> SUFFICES ASSUME Inv, [Next]_vars PROVE Inv'
  OBVIOUS
<1>0. cancelled \subseteq Writers
  BY DEF Inv
<1>1. ASSUME NEW w \in Writers, Enter(w) PROVE Inv'
  BY <1>1, EnterKeeps
<1>2. ASSUME NEW w \in Writers, Admit(w) PROVE Inv'
  BY <1>0, <1>2, QuietKeeps DEF Admit, PCs
<1>3. ASSUME NEW w \in Writers, GiveUp(w) PROVE Inv'
  BY <1>0, <1>3, QuietKeeps DEF GiveUp, PCs
<1>4. ASSUME NEW w \in Writers, Leave(w) PROVE Inv'
  <2>1. cancelled' \subseteq Writers
    BY <1>0, <1>4 DEF Leave
  <2>2. CASE w \in granted
    BY <1>4, <2>1, <2>2, HandOverKeeps DEF Leave
  <2>3. CASE w \notin granted
    BY <1>4, <2>1, <2>3, UnqueueKeeps DEF Leave
  <2>4. QED
    BY <2>2, <2>3
<1>5. ASSUME NEW w \in Writers, Begin(w) PROVE Inv'
  <2>1. w \in granted
    BY <1>5 DEF Begin, Inv, SlotOk
  <2>2. QED
    BY <1>0, <1>5, <2>1, QuietKeeps DEF Begin, PCs
<1>6. ASSUME NEW w \in Writers, Release(w) PROVE Inv'
  <2>1. w \in granted
    BY <1>6 DEF Release, Inv, SlotOk
  <2>2. QED
    BY <1>0, <1>6, <2>1, HandOverKeeps DEF Release
<1>7. ASSUME NEW w \in Writers, Cancel(w) PROVE Inv'
  <2>1. /\ UNCHANGED <<pc, granted, active, foreground, background>>
        /\ cancelled' \subseteq Writers
    BY <1>0, <1>7 DEF Cancel
  <2>2. QED
    BY <2>1 DEF Inv, SlotOk, QueuesOk, Lengths, Queued
<1>8. CASE UNCHANGED vars
  BY <1>8 DEF vars, Inv, SlotOk, QueuesOk, Lengths, Queued
<1>9. QED
  BY <1>1, <1>2, <1>3, <1>4, <1>5, <1>6, <1>7, <1>8 DEF Next

-----------------------------------------------------------------------------
(* Theorems *)

\* The slot and the queues agree in every state of every behaviour.
THEOREM AdmissionInvariant == Spec => []Inv
  BY InvInitially, InvKept, PTL DEF Spec

\* withWrite: two write transactions are never open at once, and the slot is
\* held exactly by the call that active stands for.
THEOREM OneWriterAlways == Spec => []OneWriter
<1>1. Inv => OneWriter
  BY DEF Inv, SlotOk, OneWriter
<1>2. QED
  BY <1>1, AdmissionInvariant, PTL

\* withWrite and dispatchLocked: no waiter is dropped from its queue, queued
\* twice, or left waiting for a slot that nobody holds.
THEOREM NobodyForgottenEver == Spec => []NobodyForgotten
<1>1. Inv => NobodyForgotten
  BY DEF Inv, QueuesOk, Queued, NobodyForgotten
<1>2. QED
  BY <1>1, AdmissionInvariant, PTL

\* The queues never outgrow their limits.
THEOREM AdmissionTypes == Spec => []TypeOK
<1>1. Inv => TypeOK
  BY DEF Inv, SlotOk, QueuesOk, Lengths, TypeOK
<1>2. QED
  BY <1>1, AdmissionInvariant, PTL

\* dispatchLocked: no background writer is let in past a waiting foreground one.
THEOREM ForegroundAlwaysFirst == Spec => ForegroundFirst
<1>1. ASSUME Inv, [Next]_vars, NEW w \in Background, w \in granted', w \notin granted
      PROVE  foreground' = <<>>
  <2>1. PICK set, act, fg, bg : /\ Dispatch(set, act, fg, bg)
                                /\ w \notin set
                                /\ fg # <<>> => Head(fg) \in Foreground
    <3>e. ASSUME NEW v \in Writers, Enter(v)
          PROVE  \E set, act, fg, bg : /\ Dispatch(set, act, fg, bg)
                                       /\ w \notin set
                                       /\ fg # <<>> => Head(fg) \in Foreground
      <4>1. CASE v \in Foreground
        <5>1. Append(foreground, v) \in Seq(Foreground)
          BY <1>1, <4>1, QueueFacts
        <5>2. Head(Append(foreground, v)) \in Foreground
          BY <5>1, HeadTailProperties, AppendProperties, QueueFacts, <1>1, <4>1
        <5>3. Dispatch(granted, active, Append(foreground, v), background)
          BY <3>e, <4>1 DEF Enter
        <5>4. QED
          BY <1>1, <5>2, <5>3
      <4>2. CASE v \notin Foreground
        <5>1. foreground # <<>> => Head(foreground) \in Foreground
          BY <1>1, QueueFacts, HeadTailProperties
        <5>2. Dispatch(granted, active, foreground, Append(background, v))
          BY <3>e, <4>2 DEF Enter
        <5>3. QED
          BY <1>1, <5>1, <5>2
      <4>3. QED
        BY <4>1, <4>2
    <3>h. foreground # <<>> => Head(foreground) \in Foreground
      BY <1>1, QueueFacts, HeadTailProperties
    <3>l. ASSUME NEW v \in Writers, Leave(v)
          PROVE  \E set, act, fg, bg : /\ Dispatch(set, act, fg, bg)
                                       /\ w \notin set
                                       /\ fg # <<>> => Head(fg) \in Foreground
      <4>1. CASE v \in granted
        BY <1>1, <3>l, <3>h, <4>1 DEF Leave
      <4>2. CASE v \notin granted
        <5>1. RemoveFirst(foreground, v) \in Seq(Foreground)
          BY <1>1, QueueFacts, Removed
        <5>2. RemoveFirst(foreground, v) # <<>>
                => Head(RemoveFirst(foreground, v)) \in Foreground
          BY <5>1, HeadTailProperties
        <5>3. Dispatch(granted, active, RemoveFirst(foreground, v),
                       RemoveFirst(background, v))
          BY <3>l, <4>2 DEF Leave
        <5>4. QED
          BY <1>1, <5>2, <5>3
      <4>3. QED
        BY <4>1, <4>2
    <3>r. ASSUME NEW v \in Writers, Release(v)
          PROVE  \E set, act, fg, bg : /\ Dispatch(set, act, fg, bg)
                                       /\ w \notin set
                                       /\ fg # <<>> => Head(fg) \in Foreground
      BY <1>1, <3>r, <3>h DEF Release
    <3>q. QED
      BY <1>1, <3>e, <3>l, <3>r DEF Next, vars, Admit, GiveUp, Begin, Cancel
  <2>2. w \notin Foreground
    BY DEF Background
  <2>3. fg = <<>> /\ foreground' = fg
    BY <1>1, <2>1, <2>2 DEF Dispatch, Holds
  <2>4. QED
    BY <2>3
<1>2. Inv /\ [Next]_vars =>
        [\A w \in Background : (w \in granted' /\ w \notin granted)
            => foreground' = <<>>]_vars
  BY <1>1
<1>3. QED
  BY <1>2, AdmissionInvariant, PTL DEF Spec, ForegroundFirst

=============================================================================
