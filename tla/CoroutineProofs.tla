--------------------------- MODULE CoroutineProofs ---------------------------
(***************************************************************************)
(* Proofs about Coroutine, for any number of coroutines that await each    *)
(* other and of operations that the innermost awaits, on the loop or on    *)
(* threads of their own, whichever body throws.                            *)
(***************************************************************************)
EXTENDS Coroutine, TLAPS, FiniteSetTheorems

FrameSet ==
    {<<"co", k>> : k \in Co} \cup {<<"set", s>> : s \in States} \cup {<<"cb", s>> : s \in States}

Places == {"unborn", "body", "ready", "suspend", "waiting", "resumed", "final", "ended"}

\* A coroutine within a co_await, one that has a frame, and one whose frame is
\* the innermost.
InAwait(k) == pc[k] \in {"ready", "suspend", "waiting", "resumed"}
Stands(k) == pc[k] \notin {"unborn", "waiting", "ended"}
Acts(k) == pc[k] \in {"body", "suspend", "resumed"}

\* Who awaits a state, if anybody does.
Awaiter(s) == IF s \in Leaf THEN 1 ELSE s - Leaves + 1

Started(l) == l <= awaited[1] \/ (l = awaited[1] + 1 /\ InAwait(1))

Has(t, i, f) == i \in 1..Len(stack[t]) /\ stack[t][i] = f

Types ==
    /\ viaLoop \in BOOLEAN
    /\ failing \in Co \cup {0}
    /\ stack \in [Threads -> Seq(FrameSet)]
    /\ pc \in [Co -> Places]
    /\ awaited \in [Co -> Nat]
    /\ value \in [States -> {"none", "there", "moved"}]
    /\ callback \subseteq States /\ promises \subseteq States /\ futures \subseteq States

\* How far coroutine k is, and what it has set by then,
Reached(k) ==
    /\ InAwait(k) => awaited[k] < Len(Awaits(k))
    /\ pc[k] = "unborn" => awaited[k] = 0
    /\ pc[k] \notin {"final", "ended"} => value[Result(k)] = "none"
    /\ pc[k] \in {"final", "ended"} => value[Result(k)] # "none" \/ failing = k
    /\ pc[k] \notin {"unborn", "ended"} => Result(k) \in promises

\* which coroutines it has called,
Calls(k) ==
    /\ pc[k] = "unborn" \/ (pc[k] = "body" /\ awaited[k] = 0) => pc[k - 1] = "unborn"
    /\ InAwait(k) => pc[k - 1] # "unborn"

\* and which operations were started.
Begun(l) ==
    /\ ~ Started(l) => value[l] = "none" /\ l \notin promises
    /\ Started(l) /\ value[l] = "none" => l \in promises

Progress ==
    /\ \A k \in Co : Reached(k)
    /\ \A k \in Co : k > 1 => Calls(k)
    /\ \A l \in Leaf : Begun(l)

\* What is awaited is kept, and its callback resumes the one that awaits it.
Kept(k) ==
    /\ InAwait(k) => Awaited(k) \in futures
    /\ pc[k] \in {"ready", "suspend"} => value[Awaited(k)] # "moved"
    /\ pc[k] = "suspend" /\ viaLoop => value[Awaited(k)] = "none"
    /\ pc[k] = "waiting" => Awaited(k) \in callback /\ value[Awaited(k)] = "none"

Resumes(s) ==
    value[s] = "none" => /\ Awaiter(s) \in Co /\ pc[Awaiter(s)] = "waiting"
                         /\ Awaited(Awaiter(s)) = s

Awaiting ==
    /\ \A k \in Co : Kept(k)
    /\ \A s \in callback : Resumes(s)

\* A coroutine that is neither suspended nor gone has one frame, and the one
\* that acts is the innermost of its thread.
OneFrame ==
    /\ \A k \in Co : Stands(k) <=> \E t \in Threads : \E i \in Nat : Has(t, i, <<"co", k>>)
    /\ \A t, u \in Threads : \A i, j \in Nat : \A k \in Co :
          Has(t, i, <<"co", k>>) /\ Has(u, j, <<"co", k>>) => t = u /\ i = j
    /\ \A t \in Threads : \A i \in Nat : \A k \in Co :
          Has(t, i, <<"co", k>>) /\ Acts(k) => i = Len(stack[t])

\* A set_value() that runs a callback lies on the frame of the one that returned
\* the value, or at the bottom of the thread that completed the operation.
Sections ==
    \A t \in Threads : \A i \in Nat : \A s \in States :
       Has(t, i, <<"set", s>>) =>
          /\ s \in promises /\ value[s] # "none"
          /\ s \in Leaf => t = s /\ i = 1
          /\ s \notin Leaf => Has(t, i - 1, <<"co", s - Leaves>>)

\* The loop runs one handler at a time, and main before all of them.
OneThread ==
    /\ viaLoop =>
          /\ freedLocked = {}
          /\ \A t, u \in Threads : stack[t] # <<>> /\ stack[u] # <<>> => t = u
          /\ \A t \in Threads : \A i \in Nat : \A s \in States : ~ Has(t, i, <<"cb", s>>)
    /\ pc[Depth] = "unborn" => promises = {} /\ \A t \in Threads : stack[t] = <<>>

\* The inductive invariant of the coroutines.
CoInv == Types /\ Progress /\ Awaiting /\ OneFrame /\ Sections /\ OneThread

-----------------------------------------------------------------------------
(* States and frames.                                                       *)

\* The states of coroutines are not those of operations, and each has its own.
LEMMA StatesApart ==
    /\ Leaf \subseteq States /\ 1 \in Co /\ Depth \in Co /\ Leaf \subseteq Threads /\ 0 \in Threads
    /\ Co \subseteq Nat /\ States \subseteq Nat /\ Leaf \subseteq Nat /\ Threads \subseteq Nat
    /\ \A k \in Co : Result(k) \in States \ Leaf /\ Awaiter(Result(k)) = k + 1
    /\ \A k, m \in Co : Result(k) = Result(m) => k = m
    /\ \A k \in Co : Result(k) - Leaves = k
    /\ \A k \in Co : k > 1 => k - 1 \in Co /\ Result(k - 1) \in States \ Leaf
    /\ \A s \in States \ Leaf : s - Leaves \in Co /\ Result(s - Leaves) = s
  BY CountsAssumption DEF Leaf, States, Co, Threads, Result, Awaiter

\* What coroutines await: the first the operations, the others the one before.
LEMMA AwaitsWhat ==
    /\ Len(Awaits(1)) = Leaves /\ \A i \in 1..Leaves : Awaits(1)[i] = i
    /\ \A k \in Co : k # 1 => Len(Awaits(k)) = 1 /\ Awaits(k)[1] = Result(k - 1)
  <1>1. Leaves \in Nat
    BY CountsAssumption
  <1>2. Awaits(1) = [i \in 1..Leaves |-> i]
    BY DEF Awaits, Leaf
  <1>3. Len(Awaits(1)) = Leaves /\ \A i \in 1..Leaves : Awaits(1)[i] = i
    BY <1>1, <1>2
  <1>4. ASSUME NEW k \in Co, k # 1
        PROVE  Len(Awaits(k)) = 1 /\ Awaits(k)[1] = Result(k - 1)
    BY <1>4 DEF Awaits
  <1> QED
    BY <1>3, <1>4

LEMMA AwaitedWhat ==
    ASSUME Types, NEW k \in Co, awaited[k] < Len(Awaits(k))
    PROVE  /\ Awaited(k) \in States /\ Awaiter(Awaited(k)) = k
           /\ k = 1 => Awaited(k) = awaited[1] + 1 /\ Awaited(k) \in Leaf
           /\ k # 1 => /\ awaited[k] = 0 /\ Awaited(k) = Result(k - 1)
                       /\ Awaited(k) \notin Leaf /\ k - 1 \in Co
  <1>1. awaited[k] \in Nat
    BY DEF Types
  <1>2. CASE k = 1
    <2>1. awaited[1] + 1 \in 1..Leaves
      BY <1>1, <1>2, AwaitsWhat, CountsAssumption
    <2>2. Awaited(1) = awaited[1] + 1
      BY <2>1, AwaitsWhat DEF Awaited
    <2>3. Awaited(1) \in Leaf /\ Awaited(1) \in States
      BY <2>1, <2>2, StatesApart DEF Leaf
    <2>4. Awaiter(Awaited(1)) = 1
      BY <2>3 DEF Awaiter
    <2> QED
      BY <1>2, <2>2, <2>3, <2>4
  <1>3. CASE k # 1
    <2>1. awaited[k] = 0
      <3>1. Len(Awaits(k)) = 1
        BY <1>3, AwaitsWhat
      <3> QED
        BY <1>1, <3>1
    <2>2. k > 1
      BY <1>3 DEF Co
    <2>3. Awaited(k) = Result(k - 1)
      BY <1>3, <2>1, AwaitsWhat DEF Awaited
    <2>4. k - 1 \in Co /\ Result(k - 1) \in States \ Leaf /\ Awaiter(Result(k - 1)) = k
      BY <2>2, StatesApart
    <2> QED
      BY <1>3, <2>1, <2>3, <2>4
  <1> QED
    BY <1>2, <1>3

\* Two coroutines do not await one state.
LEMMA AwaitedApart ==
    ASSUME Types, NEW k \in Co, NEW m \in Co, awaited[k] < Len(Awaits(k)),
           awaited[m] < Len(Awaits(m)), Awaited(k) = Awaited(m)
    PROVE  k = m
  BY AwaitedWhat

\* How a step changes the stack of a thread: a frame more,
Entered(t, k) ==
    /\ stack' \in [Threads -> Seq(FrameSet)]
    /\ \A u \in Threads \ {t} : stack'[u] = stack[u]
    /\ Len(stack'[t]) = Len(stack[t]) + 1
    /\ \A i \in 1..Len(stack[t]) : stack'[t][i] = stack[t][i]
    /\ stack'[t][Len(stack[t]) + 1] = <<"co", k>>

\* a frame less,
Popped(t) ==
    /\ stack' \in [Threads -> Seq(FrameSet)]
    /\ \A u \in Threads \ {t} : stack'[u] = stack[u]
    /\ stack[t] # <<>>
    /\ Len(stack'[t]) = Len(stack[t]) - 1
    /\ \A i \in 1..(Len(stack[t]) - 1) : stack'[t][i] = stack[t][i]

\* or, on the first n frames, a section and the coroutine it resumes.
ResumedOn(t, n, f, k) ==
    /\ stack' \in [Threads -> Seq(FrameSet)]
    /\ \A u \in Threads \ {t} : stack'[u] = stack[u]
    /\ n \in Nat /\ n <= Len(stack[t])
    /\ Len(stack'[t]) = n + 2
    /\ \A i \in 1..n : stack'[t][i] = stack[t][i]
    /\ stack'[t][n + 1] = f /\ stack'[t][n + 2] = <<"co", k>>

LEMMA PopStack ==
    ASSUME Types, NEW t \in Threads, stack[t] # <<>>,
           stack' = [stack EXCEPT ![t] = Pop(@)]
    PROVE  Popped(t)
  <1>1. stack[t] \in Seq(FrameSet) /\ Len(stack[t]) \in Nat /\ Len(stack[t]) >= 1
    BY DEF Types
  <1>2. /\ Pop(stack[t]) \in Seq(FrameSet) /\ Len(Pop(stack[t])) = Len(stack[t]) - 1
        /\ \A i \in 1..(Len(stack[t]) - 1) : Pop(stack[t])[i] = stack[t][i]
    BY <1>1 DEF Pop
  <1> HIDE DEF Pop
  <1> QED
    BY <1>2 DEF Types, Popped

LEMMA PushStack ==
    ASSUME Types, NEW t \in Threads, NEW k \in Co,
           stack' = [stack EXCEPT ![t] = Append(@, <<"co", k>>)]
    PROVE  Entered(t, k)
  <1> DEFINE f == <<"co", k>>
  <1>1. f \in FrameSet
    BY DEF FrameSet
  <1> HIDE DEF f
  <1>2. stack[t] \in Seq(FrameSet)
    BY DEF Types
  <1>3. /\ Append(stack[t], f) \in Seq(FrameSet) /\ Len(Append(stack[t], f)) = Len(stack[t]) + 1
        /\ \A i \in 1..Len(stack[t]) : Append(stack[t], f)[i] = stack[t][i]
        /\ Append(stack[t], f)[Len(stack[t]) + 1] = f
    BY <1>1, <1>2
  <1>4. stack' = [stack EXCEPT ![t] = Append(stack[t], f)]
    BY DEF f
  <1>5. stack'[t] = Append(stack[t], f) /\ \A u \in Threads \ {t} : stack'[u] = stack[u]
    BY <1>4 DEF Types
  <1>6. stack' \in [Threads -> Seq(FrameSet)]
    BY <1>3, <1>4 DEF Types
  <1> QED
    BY <1>3, <1>5, <1>6 DEF Entered, f

\* Two frames behind some.
LEMMA TwoFrames ==
    ASSUME NEW s \in Seq(FrameSet), NEW f \in FrameSet, NEW g \in FrameSet
    PROVE  LET r == s \o <<f, g>>
           IN  /\ r \in Seq(FrameSet) /\ Len(r) = Len(s) + 2
               /\ \A i \in 1..Len(s) : r[i] = s[i]
               /\ r[Len(s) + 1] = f /\ r[Len(s) + 2] = g
  OBVIOUS

LEMMA ResumeStack ==
    ASSUME Types, NEW t \in Threads, NEW k \in Co, NEW s \in States, NEW op \in {"set", "cb"},
           NEW kept \in Seq(FrameSet), Len(kept) <= Len(stack[t]),
           \A i \in 1..Len(kept) : kept[i] = stack[t][i],
           stack' = [stack EXCEPT ![t] = kept \o <<<<op, s>>, <<"co", k>>>>]
    PROVE  ResumedOn(t, Len(kept), <<op, s>>, k)
  <1> DEFINE f == <<op, s>>
             g == <<"co", k>>
             r == kept \o <<f, g>>
  <1>1. f \in FrameSet /\ g \in FrameSet
    BY DEF FrameSet
  <1> HIDE DEF f, g
  <1>2. /\ r \in Seq(FrameSet) /\ Len(r) = Len(kept) + 2
        /\ \A i \in 1..Len(kept) : r[i] = kept[i]
        /\ r[Len(kept) + 1] = f /\ r[Len(kept) + 2] = g
    BY <1>1, TwoFrames
  <1>3. stack' = [stack EXCEPT ![t] = r]
    BY DEF f, g
  <1> HIDE DEF r
  <1>4. stack'[t] = r /\ \A u \in Threads \ {t} : stack'[u] = stack[u]
    BY <1>3 DEF Types
  <1>5. stack' \in [Threads -> Seq(FrameSet)]
    BY <1>2, <1>3 DEF Types
  <1>6. Len(kept) \in Nat
    OBVIOUS
  <1> QED
    BY <1>2, <1>4, <1>5, <1>6 DEF ResumedOn, f, g

\* The frames after such a step.
LEMMA HasEntered ==
    ASSUME Types, NEW t \in Threads, NEW k \in Co, Entered(t, k)
    PROVE  \A u \in Threads : \A i \in Nat : \A g :
              Has(u, i, g)' <=> \/ Has(u, i, g)
                                \/ u = t /\ i = Len(stack[t]) + 1 /\ g = <<"co", k>>
  <1> SUFFICES ASSUME NEW u \in Threads, NEW i \in Nat, NEW g
               PROVE  Has(u, i, g)' <=> \/ Has(u, i, g)
                                        \/ u = t /\ i = Len(stack[t]) + 1 /\ g = <<"co", k>>
    OBVIOUS
  <1> DEFINE f == <<"co", k>>
  <1> HIDE DEF f
  <1>1. CASE u # t
    BY <1>1 DEF Has, Entered
  <1>2. CASE u = t
    <2>1. Len(stack[t]) \in Nat
      BY DEF Types
    <2>2. /\ Len(stack'[t]) = Len(stack[t]) + 1
          /\ \A j \in 1..Len(stack[t]) : stack'[t][j] = stack[t][j]
          /\ stack'[t][Len(stack[t]) + 1] = f
      BY DEF Entered, f
    <2>3. Has(t, i, g)' <=> Has(t, i, g) \/ (i = Len(stack[t]) + 1 /\ g = f)
      BY <2>1, <2>2 DEF Has
    <2> QED
      BY <1>2, <2>3 DEF f
  <1> QED
    BY <1>1, <1>2

LEMMA HasPopped ==
    ASSUME Types, NEW t \in Threads, Popped(t)
    PROVE  \A u \in Threads : \A i \in Nat : \A g :
              Has(u, i, g)' <=> Has(u, i, g) /\ ~ (u = t /\ i = Len(stack[t]))
  <1> SUFFICES ASSUME NEW u \in Threads, NEW i \in Nat, NEW g
               PROVE  Has(u, i, g)' <=> Has(u, i, g) /\ ~ (u = t /\ i = Len(stack[t]))
    OBVIOUS
  <1>1. CASE u # t
    BY <1>1 DEF Has, Popped
  <1>2. CASE u = t
    <2>1. Len(stack[t]) \in Nat /\ Len(stack[t]) >= 1
      BY DEF Types, Popped
    <2>2. /\ Len(stack'[t]) = Len(stack[t]) - 1
          /\ \A j \in 1..(Len(stack[t]) - 1) : stack'[t][j] = stack[t][j]
      BY DEF Popped
    <2>3. Has(t, i, g)' <=> Has(t, i, g) /\ i # Len(stack[t])
      BY <2>1, <2>2 DEF Has
    <2> QED
      BY <1>2, <2>3
  <1> QED
    BY <1>1, <1>2

LEMMA HasResumed ==
    ASSUME Types, NEW t \in Threads, NEW n \in Nat, NEW f, NEW k \in Co, ResumedOn(t, n, f, k)
    PROVE  \A u \in Threads : \A i \in Nat : \A g :
              Has(u, i, g)' <=> \/ Has(u, i, g) /\ (u = t => i <= n)
                                \/ u = t /\ i = n + 1 /\ g = f
                                \/ u = t /\ i = n + 2 /\ g = <<"co", k>>
  <1> SUFFICES ASSUME NEW u \in Threads, NEW i \in Nat, NEW g
               PROVE  Has(u, i, g)' <=> \/ Has(u, i, g) /\ (u = t => i <= n)
                                        \/ u = t /\ i = n + 1 /\ g = f
                                        \/ u = t /\ i = n + 2 /\ g = <<"co", k>>
    OBVIOUS
  <1> DEFINE c == <<"co", k>>
  <1> HIDE DEF c
  <1>1. CASE u # t
    BY <1>1 DEF Has, ResumedOn
  <1>2. CASE u = t
    <2>1. Len(stack[t]) \in Nat /\ n <= Len(stack[t])
      BY DEF Types, ResumedOn
    <2>2. /\ Len(stack'[t]) = n + 2
          /\ \A j \in 1..n : stack'[t][j] = stack[t][j]
          /\ stack'[t][n + 1] = f /\ stack'[t][n + 2] = c
      BY DEF ResumedOn, c
    <2>3. Has(t, i, g)' <=> \/ Has(t, i, g) /\ i <= n
                            \/ i = n + 1 /\ g = f
                            \/ i = n + 2 /\ g = c
      BY <2>1, <2>2 DEF Has
    <2> QED
      BY <1>2, <2>3 DEF c
  <1> QED
    BY <1>1, <1>2

LEMMA FramesApart ==
    /\ \A k, m : <<"co", k>> = <<"co", m>> => k = m
    /\ \A k, m : <<"set", k>> = <<"set", m>> => k = m
    /\ \A k, m : <<"cb", k>> = <<"cb", m>> => k = m
    /\ \A k, s : <<"co", k>> # <<"set", s>> /\ <<"co", k>> # <<"cb", s>> /\ <<"set", k>> # <<"cb", s>>
  OBVIOUS

\* Whoever runs has the last frame of the thread.
LEMMA RunsHas ==
    ASSUME Types, NEW t \in Threads, NEW f
    PROVE  Runs(t, f) <=> stack[t] # <<>> /\ Has(t, Len(stack[t]), f)
  BY DEF Types, Runs, Has

LEMMA HasFrame ==
    ASSUME Types, NEW t \in Threads, NEW i \in Nat, NEW f, Has(t, i, f)
    PROVE  stack[t] # <<>> /\ i >= 1 /\ i <= Len(stack[t])
  BY DEF Types, Has

\* A frame of the set Frames(f).
LEMMA FramesHas ==
    ASSUME Types, NEW f
    PROVE  \A t \in Threads : \A i \in Nat : Has(t, i, f) <=> <<t, i>> \in Frames(f)
  BY DEF Types, Has, Frames

LEMMA FramesAre ==
    ASSUME Types, NEW f, NEW x \in Frames(f)
    PROVE  \E t \in Threads : \E i \in Nat : x = <<t, i>> /\ Has(t, i, f)
  BY DEF Types, Has, Frames

LEMMA LockedHas ==
    ASSUME Types, NEW s, Locked(s)
    PROVE  \E t \in Threads : \E i \in Nat : Has(t, i, <<"set", s>>) \/ Has(t, i, <<"cb", s>>)
  <1>1. PICK x \in Frames(<<"set", s>>) \cup Frames(<<"cb", s>>) : TRUE
    BY DEF Locked
  <1>2. CASE x \in Frames(<<"set", s>>)
    BY <1>2, FramesAre
  <1>3. CASE x \in Frames(<<"cb", s>>)
    BY <1>3, FramesAre
  <1> QED
    BY <1>1, <1>2, <1>3

-----------------------------------------------------------------------------
(* One frame for each coroutine that is neither suspended nor gone.         *)

LEMMA EnterOneFrame ==
    ASSUME Types, OneFrame, NEW t \in Threads, NEW k \in Co, Entered(t, k),
           ~ Stands(k), Stands(k)',
           \A m \in Co \ {k} : Stands(m)' <=> Stands(m),
           \A m \in Co \ {k} : Acts(m)' => Acts(m) /\ \A i \in Nat : ~ Has(t, i, <<"co", m>>)
    PROVE  OneFrame'
  <1> DEFINE n == Len(stack[t])
  <1>1. n \in Nat
    BY DEF Types
  <1>2. \A u \in Threads : \A i \in Nat : \A m \in Co :
           Has(u, i, <<"co", m>>)' <=> \/ Has(u, i, <<"co", m>>)
                                       \/ u = t /\ i = n + 1 /\ m = k
    BY HasEntered, FramesApart
  <1>3. Len(stack'[t]) = n + 1 /\ \A u \in Threads \ {t} : stack'[u] = stack[u]
    BY DEF Entered
  <1>4. \A u \in Threads : \A i \in Nat : ~ Has(u, i, <<"co", k>>)
    BY DEF OneFrame
  <1> HIDE DEF n
  <1>5. ASSUME NEW m \in Co
        PROVE  Stands(m)' <=> \E u \in Threads : \E i \in Nat : Has(u, i, <<"co", m>>)'
    <2>1. CASE m = k
      BY <1>1, <1>2, <2>1
    <2>2. CASE m # k
      BY <1>2, <2>2 DEF OneFrame
    <2> QED
      BY <2>1, <2>2
  <1>6. ASSUME NEW u \in Threads, NEW v \in Threads, NEW i \in Nat, NEW j \in Nat, NEW m \in Co,
               Has(u, i, <<"co", m>>)', Has(v, j, <<"co", m>>)'
        PROVE  u = v /\ i = j
    BY <1>2, <1>4, <1>6 DEF OneFrame
  <1>7. ASSUME NEW u \in Threads, NEW i \in Nat, NEW m \in Co,
               Has(u, i, <<"co", m>>)', Acts(m)'
        PROVE  i = Len(stack'[u])
    <2>1. CASE m = k
      BY <1>2, <1>3, <1>4, <1>7, <2>1
    <2>2. CASE m # k
      <3>1. Has(u, i, <<"co", m>>) /\ Acts(m) /\ u # t
        BY <1>2, <1>7, <2>2
      <3> QED
        BY <1>3, <3>1 DEF OneFrame
    <2> QED
      BY <2>1, <2>2
  <1> QED
    BY <1>5, <1>6, <1>7 DEF OneFrame

LEMMA PopOneFrame ==
    ASSUME Types, OneFrame, NEW t \in Threads, Popped(t),
           \A m \in Co : Stands(m)' <=> Stands(m) /\ ~ Has(t, Len(stack[t]), <<"co", m>>),
           \A m \in Co : Acts(m)' => Acts(m)
    PROVE  OneFrame'
  <1> DEFINE n == Len(stack[t])
  <1>1. n \in Nat
    BY DEF Types
  <1>2. \A u \in Threads : \A i \in Nat : \A m \in Co :
           Has(u, i, <<"co", m>>)' <=> Has(u, i, <<"co", m>>) /\ ~ (u = t /\ i = n)
    BY HasPopped
  <1>3. \A u \in Threads \ {t} : stack'[u] = stack[u]
    BY DEF Popped
  <1> HIDE DEF n
  <1>5. ASSUME NEW m \in Co
        PROVE  Stands(m)' <=> \E u \in Threads : \E i \in Nat : Has(u, i, <<"co", m>>)'
    <2>1. Stands(m)' <=> Stands(m) /\ ~ Has(t, n, <<"co", m>>)
      BY DEF n
    <2>2. CASE Has(t, n, <<"co", m>>)
      BY <1>1, <1>2, <2>1, <2>2 DEF OneFrame
    <2>3. CASE ~ Has(t, n, <<"co", m>>)
      BY <1>1, <1>2, <2>1, <2>3 DEF OneFrame
    <2> QED
      BY <2>2, <2>3
  <1>6. ASSUME NEW u \in Threads, NEW v \in Threads, NEW i \in Nat, NEW j \in Nat, NEW m \in Co,
               Has(u, i, <<"co", m>>)', Has(v, j, <<"co", m>>)'
        PROVE  u = v /\ i = j
    BY <1>2, <1>6 DEF OneFrame
  <1>7. ASSUME NEW u \in Threads, NEW i \in Nat, NEW m \in Co,
               Has(u, i, <<"co", m>>)', Acts(m)'
        PROVE  i = Len(stack'[u])
    <2>1. Has(u, i, <<"co", m>>) /\ i = Len(stack[u]) /\ u # t
      BY <1>2, <1>7 DEF OneFrame, n
    <2> QED
      BY <1>3, <2>1
  <1> QED
    BY <1>5, <1>6, <1>7 DEF OneFrame

\* The coroutine resumed had no frame, or the one that is replaced.
LEMMA ResumeOneFrame ==
    ASSUME Types, OneFrame, NEW t \in Threads, NEW n \in Nat, NEW f, NEW k \in Co,
           ResumedOn(t, n, f, k), \A m : f # <<"co", m>>,
           \A u \in Threads : \A i \in Nat : Has(u, i, <<"co", k>>) => u = t /\ i > n,
           \A m \in Co \ {k} : \A i \in Nat : Has(t, i, <<"co", m>>) => i <= n,
           Stands(k)',
           \A m \in Co \ {k} : Stands(m)' <=> Stands(m),
           \A m \in Co \ {k} : Acts(m)' => Acts(m) /\ \A i \in Nat : ~ Has(t, i, <<"co", m>>)
    PROVE  OneFrame'
  <1>2. ASSUME NEW u \in Threads, NEW i \in Nat, NEW m \in Co
        PROVE  Has(u, i, <<"co", m>>)' <=> IF m = k THEN u = t /\ i = n + 2
                                           ELSE Has(u, i, <<"co", m>>)
    <2>1. Has(u, i, <<"co", m>>)' <=> \/ Has(u, i, <<"co", m>>) /\ (u = t => i <= n)
                                      \/ u = t /\ i = n + 1 /\ <<"co", m>> = f
                                      \/ u = t /\ i = n + 2 /\ <<"co", m>> = <<"co", k>>
      BY HasResumed
    <2>2. <<"co", m>> # f /\ (<<"co", m>> = <<"co", k>> <=> m = k)
      BY FramesApart
    <2>3. CASE m = k
      BY <2>1, <2>2, <2>3
    <2>4. CASE m # k
      BY <2>1, <2>2, <2>4
    <2> QED
      BY <2>3, <2>4
  <1>3. Len(stack'[t]) = n + 2 /\ \A u \in Threads \ {t} : stack'[u] = stack[u]
    BY DEF ResumedOn
  <1>5. ASSUME NEW m \in Co
        PROVE  Stands(m)' <=> \E u \in Threads : \E i \in Nat : Has(u, i, <<"co", m>>)'
    <2>1. CASE m = k
      BY <1>2, <2>1
    <2>2. CASE m # k
      BY <1>2, <2>2 DEF OneFrame
    <2> QED
      BY <2>1, <2>2
  <1>6. ASSUME NEW u \in Threads, NEW v \in Threads, NEW i \in Nat, NEW j \in Nat, NEW m \in Co,
               Has(u, i, <<"co", m>>)', Has(v, j, <<"co", m>>)'
        PROVE  u = v /\ i = j
    BY <1>2, <1>6 DEF OneFrame
  <1>7. ASSUME NEW u \in Threads, NEW i \in Nat, NEW m \in Co,
               Has(u, i, <<"co", m>>)', Acts(m)'
        PROVE  i = Len(stack'[u])
    <2>1. CASE m = k
      BY <1>2, <1>3, <1>7, <2>1
    <2>2. CASE m # k
      <3>1. Has(u, i, <<"co", m>>) /\ Acts(m) /\ u # t
        BY <1>2, <1>7, <2>2
      <3> QED
        BY <1>3, <3>1 DEF OneFrame
    <2> QED
      BY <2>1, <2>2
  <1> QED
    BY <1>5, <1>6, <1>7 DEF OneFrame

\* A step that leaves the stacks alone and moves the coroutine that runs.
LEMMA SameOneFrame ==
    ASSUME Types, OneFrame, UNCHANGED stack,
           \A m \in Co : Stands(m)' <=> Stands(m),
           \A m \in Co : Acts(m)' => Acts(m) \/ \E t \in Threads : Running(t, m)
    PROVE  OneFrame'
  <1>1. \A u \in Threads : \A i \in Nat : \A m \in Co :
           Has(u, i, <<"co", m>>)' <=> Has(u, i, <<"co", m>>)
    BY DEF Has
  <1>2. ASSUME NEW u \in Threads, NEW i \in Nat, NEW m \in Co,
               Has(u, i, <<"co", m>>)', Acts(m)'
        PROVE  i = Len(stack'[u])
    <2>1. CASE Acts(m)
      BY <1>1, <1>2, <2>1 DEF OneFrame
    <2>2. ASSUME NEW t \in Threads, Running(t, m)
          PROVE  i = Len(stack'[u])
      <3>1. Has(t, Len(stack[t]), <<"co", m>>) /\ Len(stack[t]) \in Nat
        BY <2>2, RunsHas DEF Running, Types
      <3>2. u = t /\ i = Len(stack[t])
        BY <1>1, <1>2, <3>1 DEF OneFrame
      <3> QED
        BY <3>2
    <2> QED
      BY <1>2, <2>1, <2>2
  <1> QED
    BY <1>1, <1>2 DEF OneFrame

-----------------------------------------------------------------------------
(* Where set_value() runs a callback.                                       *)

\* Whose set_value() goes on keeps its promise and has its value.
Held(s) == s \in promises /\ value[s] # "none"

LEMMA SectionsHeld ==
    ASSUME Sections, NEW t \in Threads, NEW i \in Nat, NEW s \in States, Has(t, i, <<"set", s>>)
    PROVE  Held(s)
  BY DEF Sections, Held

LEMMA SameSections ==
    ASSUME Types, Sections, UNCHANGED stack,
           \A s \in States : (\E u \in Threads : \E i \in Nat : Has(u, i, <<"set", s>>)) => Held(s)'
    PROVE  Sections'
  <1>1. \A u, i, g : Has(u, i, g)' <=> Has(u, i, g)
    BY DEF Has
  <1> QED
    BY <1>1 DEF Sections, Held

LEMMA EnterSections ==
    ASSUME Types, Sections, NEW t \in Threads, NEW k \in Co, Entered(t, k),
           \A s \in States : (\E u \in Threads : \E i \in Nat : Has(u, i, <<"set", s>>)) => Held(s)'
    PROVE  Sections'
  <1> SUFFICES ASSUME NEW u \in Threads, NEW i \in Nat, NEW s \in States, Has(u, i, <<"set", s>>)'
               PROVE  /\ Held(s)'
                      /\ s \in Leaf => u = s /\ i = 1
                      /\ s \notin Leaf => Has(u, i - 1, <<"co", s - Leaves>>)'
    BY DEF Sections, Held
  <1>1. Has(u, i, <<"set", s>>)
    BY HasEntered, FramesApart
  <1>2. i >= 1 /\ i - 1 \in Nat
    BY <1>1, HasFrame
  <1>3. s \notin Leaf => Has(u, i - 1, <<"co", s - Leaves>>)'
    BY <1>1, <1>2, HasEntered DEF Sections
  <1> QED
    BY <1>1, <1>3 DEF Sections

LEMMA PopSections ==
    ASSUME Types, Sections, NEW t \in Threads, Popped(t),
           \A s \in States : (\E u \in Threads : \E i \in Nat : Has(u, i, <<"set", s>>)') => Held(s)'
    PROVE  Sections'
  <1> SUFFICES ASSUME NEW u \in Threads, NEW i \in Nat, NEW s \in States, Has(u, i, <<"set", s>>)'
               PROVE  /\ Held(s)'
                      /\ s \in Leaf => u = s /\ i = 1
                      /\ s \notin Leaf => Has(u, i - 1, <<"co", s - Leaves>>)'
    BY DEF Sections, Held
  <1>1. Has(u, i, <<"set", s>>) /\ ~ (u = t /\ i = Len(stack[t]))
    BY HasPopped
  <1>2. i >= 1 /\ i - 1 \in Nat /\ i <= Len(stack[u]) /\ Len(stack[t]) \in Nat
    BY <1>1, HasFrame DEF Types
  <1>3. ~ (u = t /\ i - 1 = Len(stack[t]))
    BY <1>2
  <1>4. s \notin Leaf => Has(u, i - 1, <<"co", s - Leaves>>)'
    BY <1>1, <1>2, <1>3, HasPopped DEF Sections
  <1> QED
    BY <1>1, <1>4 DEF Sections

\* A section that is entered lies where it should.
LEMMA ResumeSections ==
    ASSUME Types, Sections, NEW t \in Threads, NEW n \in Nat, NEW f, NEW k \in Co,
           ResumedOn(t, n, f, k),
           \A s \in States : (\E u \in Threads : \E i \in Nat : Has(u, i, <<"set", s>>)') => Held(s)',
           \A s \in States : f = <<"set", s>> =>
              /\ s \in Leaf => t = s /\ n = 0
              /\ s \notin Leaf => n > 0 /\ Has(t, n, <<"co", s - Leaves>>)
    PROVE  Sections'
  <1> SUFFICES ASSUME NEW u \in Threads, NEW i \in Nat, NEW s \in States, Has(u, i, <<"set", s>>)'
               PROVE  /\ Held(s)'
                      /\ s \in Leaf => u = s /\ i = 1
                      /\ s \notin Leaf => Has(u, i - 1, <<"co", s - Leaves>>)'
    BY DEF Sections, Held
  <1>1. Held(s)'
    OBVIOUS
  <1>2. \/ Has(u, i, <<"set", s>>) /\ (u = t => i <= n)
        \/ u = t /\ i = n + 1 /\ <<"set", s>> = f
    BY HasResumed, FramesApart
  <1>3. CASE Has(u, i, <<"set", s>>) /\ (u = t => i <= n)
    <2>1. i >= 1 /\ i - 1 \in Nat
      BY <1>3, HasFrame
    <2>2. s \notin Leaf => Has(u, i - 1, <<"co", s - Leaves>>)
      BY <1>3 DEF Sections
    <2>3. s \notin Leaf => Has(u, i - 1, <<"co", s - Leaves>>)'
      <3>1. u = t => i - 1 <= n
        BY <1>3, <2>1
      <3> QED
        BY <2>1, <2>2, <3>1, HasResumed
    <2> QED
      BY <1>1, <1>3, <2>3 DEF Sections
  <1>4. CASE u = t /\ i = n + 1 /\ <<"set", s>> = f
    <2>1. s \notin Leaf => Has(t, n, <<"co", s - Leaves>>)'
      <3>1. s \notin Leaf => Has(t, n, <<"co", s - Leaves>>)
        BY <1>4
      <3> QED
        BY <3>1, HasResumed
    <2>2. f = <<"set", s>>
      BY <1>4
    <2>3. s \in Leaf => t = s /\ n = 0
      BY <2>2
    <2>4. i - 1 = n
      BY <1>4
    <2>5. n = 0 => i = 1
      BY <1>4
    <2> QED
      BY <1>1, <1>4, <2>1, <2>3, <2>4, <2>5
  <1> QED
    BY <1>2, <1>3, <1>4

-----------------------------------------------------------------------------
(* The loop, which runs one handler at a time.                              *)

\* A step of a thread that runs, or that is the only one to run.
LEMMA OneThreadKept ==
    ASSUME Types, OneThread, NEW t \in Threads, viaLoop' = viaLoop, pc' \in [Co -> Places],
           \A u \in Threads \ {t} : stack'[u] = stack[u],
           stack[t] # <<>> \/ (viaLoop => \A u \in Threads : stack[u] = <<>>),
           pc'[Depth] # "unborn",
           viaLoop => freedLocked' = {},
           viaLoop => \A u \in Threads : \A i \in Nat : \A s \in States : ~ Has(u, i, <<"cb", s>>)'
    PROVE  OneThread'
  BY DEF OneThread

\* A step that leaves the stacks alone.
LEMMA OneThreadSame ==
    ASSUME Types, OneThread, viaLoop' = viaLoop, UNCHANGED stack,
           pc'[Depth] = "unborn" => promises' = {} /\ pc[Depth] = "unborn",
           viaLoop => freedLocked' = {}
    PROVE  OneThread'
  <1>1. \A u, i, g : Has(u, i, g)' <=> Has(u, i, g)
    BY DEF Has
  <1> QED
    BY <1>1 DEF OneThread

-----------------------------------------------------------------------------
(* What every step of a coroutine relies on.                                *)

LEMMA AwaitedSame ==
    ASSUME NEW k \in Co, awaited'[k] = awaited[k]
    PROVE  Awaited(k)' = Awaited(k)
  BY DEF Awaited, Awaits, Leaf, Result

\* Whoever acts on a thread is who runs on it.
LEMMA RunnerIs ==
    ASSUME CoInv, NEW t \in Threads, NEW k \in Co, Running(t, k)
    PROVE  /\ stack[t] # <<>> /\ Len(stack[t]) \in Nat /\ Len(stack[t]) > 0
           /\ Has(t, Len(stack[t]), <<"co", k>>)
           /\ Stands(k) /\ pc[Depth] # "unborn"
           /\ \A u \in Threads : \A i \in Nat : Has(u, i, <<"co", k>>) => u = t /\ i = Len(stack[t])
           /\ \A m \in Co \ {k} : Acts(m) => \A i \in Nat : ~ Has(t, i, <<"co", m>>)
           /\ viaLoop => \A m \in Co \ {k} : ~ Acts(m)
  <1> DEFINE n == Len(stack[t])
  <1>1. stack[t] # <<>> /\ Has(t, n, <<"co", k>>)
    BY RunsHas DEF Running, CoInv
  <1>2. n \in Nat /\ n > 0
    BY <1>1 DEF CoInv, Types
  <1> HIDE DEF n
  <1>3. Stands(k) /\ \A u \in Threads : \A i \in Nat : Has(u, i, <<"co", k>>) => u = t /\ i = n
    BY <1>1, <1>2 DEF CoInv, OneFrame
  <1>4. pc[Depth] # "unborn"
    BY <1>1 DEF CoInv, OneThread
  <1>5. ASSUME NEW m \in Co \ {k}, Acts(m), NEW i \in Nat, Has(t, i, <<"co", m>>)
        PROVE  FALSE
    <2>1. i = n
      BY <1>5 DEF CoInv, OneFrame, n
    <2>2. <<"co", m>> = <<"co", k>>
      BY <1>1, <1>5, <2>1 DEF Has
    <2> QED
      BY <1>5, <2>2, FramesApart
  <1>6. ASSUME viaLoop, NEW m \in Co \ {k}, Acts(m)
        PROVE  FALSE
    <2>1. Stands(m)
      BY <1>6 DEF Acts, Stands
    <2>2. PICK u \in Threads : \E i \in Nat : Has(u, i, <<"co", m>>)
      BY <2>1 DEF CoInv, OneFrame
    <2>3. stack[u] # <<>>
      BY <2>2, HasFrame DEF CoInv
    <2>4. u = t
      BY <1>1, <1>6, <2>3 DEF CoInv, OneThread
    <2> QED
      BY <1>5, <1>6, <2>2, <2>4
  <1> QED
    BY <1>1, <1>2, <1>3, <1>4, <1>5, <1>6 DEF n

\* With the event loop a mutex is held by set_value() only, whose promise is there.
LEMMA LockedIsHeld ==
    ASSUME CoInv, viaLoop, NEW s \in States, Locked(s)
    PROVE  s \in promises
  <1>1. PICK t \in Threads : \E i \in Nat : Has(t, i, <<"set", s>>) \/ Has(t, i, <<"cb", s>>)
    BY LockedHas DEF CoInv
  <1>2. PICK i \in Nat : Has(t, i, <<"set", s>>) \/ Has(t, i, <<"cb", s>>)
    BY <1>1
  <1>3. ~ Has(t, i, <<"cb", s>>)
    BY DEF CoInv, OneThread
  <1> QED
    BY <1>2, <1>3 DEF CoInv, Sections

LEMMA DropsFree ==
    ASSUME CoInv, NEW s \in States, NEW others, Drop(s, others), viaLoop => s \in others \/ ~ Locked(s)
    PROVE  viaLoop => freedLocked' = {}
  BY DEF Drop, CoInv, OneThread

\* What a step leaves alone for a coroutine, a state or an operation.
LEMMA ReachedSame ==
    ASSUME NEW m \in Co, Reached(m), failing' = failing,
           pc'[m] = pc[m], awaited'[m] = awaited[m], value'[Result(m)] = value[Result(m)],
           Result(m) \in promises => Result(m) \in promises'
    PROVE  Reached(m)'
  BY DEF Reached, InAwait

LEMMA CallsSame ==
    ASSUME NEW m \in Co, Calls(m), pc'[m] = pc[m], awaited'[m] = awaited[m],
           pc'[m - 1] = "unborn" <=> pc[m - 1] = "unborn"
    PROVE  Calls(m)'
  BY DEF Calls, InAwait

LEMMA BegunSame ==
    ASSUME NEW l \in Leaf, Begun(l), Started(l)' <=> Started(l), value'[l] = value[l],
           l \in promises' <=> l \in promises
    PROVE  Begun(l)'
  BY DEF Begun

LEMMA KeptSame ==
    ASSUME NEW m \in Co, Kept(m), viaLoop' = viaLoop, pc'[m] = pc[m], awaited'[m] = awaited[m],
           InAwait(m) => /\ value'[Awaited(m)] = value[Awaited(m)]
                         /\ Awaited(m) \in futures => Awaited(m) \in futures'
                         /\ Awaited(m) \in callback => Awaited(m) \in callback'
    PROVE  Kept(m)'
  <1>1. Awaited(m)' = Awaited(m)
    BY AwaitedSame
  <1> QED
    BY <1>1 DEF Kept, InAwait

LEMMA ResumesSame ==
    ASSUME NEW s \in States, Resumes(s), value'[s] = "none" => value[s] = "none",
           value'[s] = "none" /\ pc[Awaiter(s)] = "waiting" =>
              pc'[Awaiter(s)] = "waiting" /\ awaited'[Awaiter(s)] = awaited[Awaiter(s)]
    PROVE  Resumes(s)'
  <1>1. Awaiter(s)' = Awaiter(s)
    BY DEF Awaiter, Leaf
  <1>2. ASSUME value'[s] = "none"
        PROVE  Awaiter(s) \in Co /\ pc'[Awaiter(s)] = "waiting" /\ Awaited(Awaiter(s))' = s
    <2>1. Awaiter(s) \in Co /\ pc[Awaiter(s)] = "waiting" /\ Awaited(Awaiter(s)) = s
      BY <1>2 DEF Resumes
    <2>2. Awaited(Awaiter(s))' = Awaited(Awaiter(s))
      BY <1>1, <1>2, <2>1, AwaitedSame
    <2> QED
      BY <1>2, <2>1, <2>2
  <1> QED
    BY <1>1, <1>2 DEF Resumes

LEMMA PartsOf ==
    ASSUME CoInv
    PROVE  /\ \A m \in Co : Reached(m) /\ Kept(m)
           /\ \A m \in Co : m > 1 => Calls(m) /\ m - 1 \in Co
           /\ \A l \in Leaf : Begun(l)
           /\ \A s \in callback : s \in States /\ Resumes(s)
  BY StatesApart DEF CoInv, Types, Progress, Awaiting

\* What is awaited, within a co_await.
LEMMA InAwaitIs ==
    ASSUME CoInv, NEW k \in Co, InAwait(k)
    PROVE  /\ Awaited(k) \in States /\ Awaiter(Awaited(k)) = k
           /\ k = 1 => Awaited(k) = awaited[1] + 1 /\ Awaited(k) \in Leaf
           /\ k # 1 => /\ awaited[k] = 0 /\ Awaited(k) = Result(k - 1)
                       /\ Awaited(k) \notin Leaf /\ k - 1 \in Co
           /\ \A m \in Co \ {k} : InAwait(m) => Awaited(m) # Awaited(k)
           /\ Awaited(k) # Result(Depth)
  <1>1. \A m \in Co : InAwait(m) => awaited[m] < Len(Awaits(m))
    BY PartsOf DEF Reached
  <1>2. Types
    BY DEF CoInv
  <1>3. Awaited(k) # Result(Depth)
    <2>1. k = 1 => Awaited(k) \in Leaf
      BY <1>1, <1>2, AwaitedWhat
    <2>2. k # 1 => Awaited(k) = Result(k - 1) /\ k - 1 \in Co
      BY <1>1, <1>2, AwaitedWhat
    <2>3. k - 1 # Depth
      BY CountsAssumption DEF Co
    <2> QED
      BY <2>1, <2>2, <2>3, StatesApart
  <1>4. \A m \in Co \ {k} : InAwait(m) => Awaited(m) # Awaited(k)
    BY <1>1, <1>2, AwaitedApart
  <1> QED
    BY <1>1, <1>2, <1>3, <1>4, AwaitedWhat

LEMMA ThrowKeeps ==
    ASSUME CoInv, NEW t \in Threads, NEW k \in Co, Throw(t, k)
    PROVE  CoInv'
  <1> USE DEF CoInv
  <1>1. /\ Running(t, k) /\ pc[k] = "body" /\ failing = k
        /\ UNCHANGED <<viaLoop, failing, stack, awaited, value, callback, promises, futures, freedLocked>>
    BY DEF Throw
  <1>2. pc' \in [Co -> Places] /\ pc'[k] = "final" /\ \A m \in Co \ {k} : pc'[m] = pc[m]
    BY DEF Throw, Types, Places
  <1>3. Types'
    BY <1>1, <1>2 DEF Types
  <1>4. \A l : Started(l)' <=> Started(l)
    BY <1>1, <1>2, StatesApart DEF Started, InAwait
  <1>5. Progress'
    <2>1. ASSUME NEW m \in Co
          PROVE  Reached(m)'
      BY <1>1, <1>2, PartsOf, ReachedSame DEF Reached, InAwait
    <2>2. ASSUME NEW m \in Co, m > 1
          PROVE  Calls(m)'
      BY <1>1, <1>2, <2>2, PartsOf, CallsSame DEF Calls, InAwait
    <2>3. \A l \in Leaf : Begun(l)'
      BY <1>1, <1>4, PartsOf, BegunSame
    <2> QED
      BY <2>1, <2>2, <2>3 DEF Progress
  <1>6. Awaiting'
    <2>1. ASSUME NEW m \in Co
          PROVE  Kept(m)'
      BY <1>1, <1>2, PartsOf, KeptSame DEF Kept, InAwait
    <2>2. \A s \in callback : Resumes(s)'
      BY <1>1, <1>2, PartsOf, ResumesSame DEF Resumes
    <2> QED
      BY <1>1, <2>1, <2>2 DEF Awaiting
  <1>7. OneFrame'
    <2>1. \A m \in Co : (Stands(m)' <=> Stands(m)) /\ (Acts(m)' => Acts(m))
      BY <1>1, <1>2 DEF Stands, Acts
    <2> QED
      BY <1>1, <2>1, SameOneFrame
  <1>8. Sections'
    BY <1>1, SectionsHeld, SameSections DEF Held
  <1>9. OneThread'
    <2>1. pc'[Depth] # "unborn"
      BY <1>1, <1>2, RunnerIs, StatesApart
    <2> QED
      BY <1>1, <2>1, OneThreadSame DEF OneThread
  <1> QED
    BY <1>3, <1>5, <1>6, <1>7, <1>8, <1>9

LEMMA AwaitReadyKeeps ==
    ASSUME CoInv, NEW t \in Threads, NEW k \in Co, AwaitReady(t, k)
    PROVE  CoInv'
  <1> USE DEF CoInv
  <1> DEFINE s == Awaited(k)
  <1>1. /\ Running(t, k) /\ pc[k] = "ready"
        /\ UNCHANGED <<viaLoop, failing, stack, awaited, callback, promises, futures, freedLocked>>
    BY DEF AwaitReady
  <1>2. InAwait(k) /\ s \in States /\ value[s] # "moved"
    <2>1. InAwait(k)
      BY <1>1 DEF InAwait
    <2> QED
      BY <1>1, <2>1, InAwaitIs, PartsOf DEF Kept
  <1>3. \A m \in Co \ {k} : InAwait(m) => Awaited(m) # s
    BY <1>2, InAwaitIs
  <1> HIDE DEF s
  <1>4. \/ /\ value[s] = "there" /\ value' = [value EXCEPT ![s] = "moved"]
           /\ pc' = [pc EXCEPT ![k] = "resumed"]
        \/ /\ value[s] # "there" /\ value' = value
           /\ pc' = [pc EXCEPT ![k] = "suspend"]
    BY DEF AwaitReady, s
  <1>5. /\ pc' \in [Co -> Places] /\ \A m \in Co \ {k} : pc'[m] = pc[m]
        /\ pc'[k] \in {"suspend", "resumed"}
    BY <1>4 DEF Types, Places
  <1>6. /\ value' \in [States -> {"none", "there", "moved"}]
        /\ \A r \in States \ {s} : value'[r] = value[r]
        /\ \A r \in States : value'[r] = "none" <=> value[r] = "none"
        /\ pc'[k] = "suspend" => value'[s] = "none"
    BY <1>2, <1>4 DEF Types
  <1>7. Types'
    BY <1>1, <1>5, <1>6 DEF Types
  <1>8. \A l : Started(l)' <=> Started(l)
    BY <1>1, <1>5, StatesApart DEF Started, InAwait
  <1>9. Progress'
    <2>1. ASSUME NEW m \in Co
          PROVE  Reached(m)'
      <3>1. Reached(m) /\ Result(m) \in States
        BY PartsOf, StatesApart
      <3> QED
        BY <1>1, <1>5, <1>6, <3>1 DEF Reached, InAwait
    <2>2. ASSUME NEW m \in Co, m > 1
          PROVE  Calls(m)'
      BY <1>1, <1>5, <2>2, PartsOf DEF Calls, InAwait
    <2>3. ASSUME NEW l \in Leaf
          PROVE  Begun(l)'
      BY <1>1, <1>6, <1>8, PartsOf, StatesApart DEF Begun
    <2> QED
      BY <2>1, <2>2, <2>3 DEF Progress
  <1>10. Awaiting'
    <2>1. ASSUME NEW m \in Co \ {k}
          PROVE  Kept(m)'
      <3>1. InAwait(m) => Awaited(m) \in States /\ Awaited(m) # s
        BY <1>3, InAwaitIs
      <3> QED
        BY <1>1, <1>5, <1>6, <3>1, PartsOf, KeptSame
    <2>2. Kept(k)'
      <3>1. Awaited(k)' = s /\ s \in futures
        BY <1>1, <1>2, AwaitedSame, PartsOf DEF Kept, s
      <3> QED
        BY <1>1, <1>5, <1>6, <3>1 DEF Kept, InAwait
    <2>3. \A r \in callback : Resumes(r)'
      BY <1>1, <1>5, <1>6, PartsOf, ResumesSame DEF Resumes
    <2> QED
      BY <1>1, <2>1, <2>2, <2>3 DEF Awaiting
  <1>11. OneFrame'
    <2>1. \A m \in Co : (Stands(m)' <=> Stands(m)) /\ (Acts(m)' => Acts(m) \/ m = k)
      BY <1>1, <1>5 DEF Stands, Acts
    <2> QED
      BY <1>1, <2>1, SameOneFrame
  <1>12. Sections'
    BY <1>1, <1>6, SectionsHeld, SameSections DEF Held
  <1>13. OneThread'
    <2>1. pc'[Depth] # "unborn"
      BY <1>1, <1>5, RunnerIs, StatesApart
    <2> QED
      BY <1>1, <2>1, OneThreadSame DEF OneThread
  <1> QED
    BY <1>7, <1>9, <1>10, <1>11, <1>12, <1>13

LEMMA AwaitResumeKeeps ==
    ASSUME CoInv, NEW t \in Threads, NEW k \in Co, AwaitResume(t, k)
    PROVE  CoInv'
  <1> USE DEF CoInv
  <1> DEFINE s == Awaited(k)
  <1>1. /\ Running(t, k) /\ pc[k] = "resumed" /\ futures' = futures \ {s} /\ Drop(s, promises)
        /\ UNCHANGED <<viaLoop, failing, stack, value, callback, promises>>
    BY DEF AwaitResume
  <1>2. InAwait(k) /\ s \in States /\ (k = 1 => s = awaited[1] + 1)
    <2>1. InAwait(k)
      BY <1>1 DEF InAwait
    <2> QED
      BY <2>1, InAwaitIs
  <1>3. \A m \in Co \ {k} : InAwait(m) => Awaited(m) # s
    BY <1>2, InAwaitIs
  <1> HIDE DEF s
  <1>4. /\ pc' \in [Co -> Places] /\ \A m \in Co \ {k} : pc'[m] = pc[m]
        /\ pc'[k] = "body"
    BY DEF AwaitResume, Types, Places
  <1>5. /\ awaited' \in [Co -> Nat] /\ \A m \in Co \ {k} : awaited'[m] = awaited[m]
        /\ awaited'[k] = awaited[k] + 1 /\ awaited[k] \in Nat
    BY DEF AwaitResume, Types
  <1>6. Types'
    BY <1>1, <1>4, <1>5 DEF Types
  <1>7. ASSUME NEW l \in Leaf
        PROVE  Started(l)' <=> Started(l)
    <2>1. l \in Int
      BY StatesApart
    <2>2. CASE k = 1
      BY <1>2, <1>4, <1>5, <2>1, <2>2 DEF Started, InAwait
    <2>3. CASE k # 1
      BY <1>4, <1>5, <2>3, StatesApart DEF Started, InAwait
    <2> QED
      BY <2>2, <2>3
  <1>8. Progress'
    <2>1. ASSUME NEW m \in Co
          PROVE  Reached(m)'
      <3>1. Reached(m)
        BY PartsOf
      <3>2. CASE m = k
        BY <1>1, <1>4, <3>1, <3>2 DEF Reached, InAwait
      <3>3. CASE m # k
        BY <1>1, <1>4, <1>5, <3>1, <3>3, ReachedSame
      <3> QED
        BY <3>2, <3>3
    <2>2. ASSUME NEW m \in Co, m > 1
          PROVE  Calls(m)'
      <3>1. Calls(m) /\ m - 1 \in Co
        BY <2>2, PartsOf
      <3>2. CASE m = k
        <4>1. awaited'[k] # 0
          BY <1>5
        <4> QED
          BY <1>4, <3>2, <4>1 DEF Calls, InAwait
      <3>3. CASE m # k
        BY <1>1, <1>4, <1>5, <3>1, <3>3, CallsSame
      <3> QED
        BY <3>2, <3>3
    <2>3. ASSUME NEW l \in Leaf
          PROVE  Begun(l)'
      BY <1>1, <1>7, PartsOf, BegunSame
    <2> QED
      BY <2>1, <2>2, <2>3 DEF Progress
  <1>9. Awaiting'
    <2>1. ASSUME NEW m \in Co
          PROVE  Kept(m)'
      <3>1. CASE m = k
        BY <1>4, <3>1 DEF Kept, InAwait
      <3>2. CASE m # k
        <4>1. InAwait(m) => Awaited(m) # s
          BY <1>3, <3>2
        <4> QED
          BY <1>1, <1>4, <1>5, <3>2, <4>1, PartsOf, KeptSame
      <3> QED
        BY <3>1, <3>2
    <2>2. ASSUME NEW r \in callback
          PROVE  Resumes(r)'
      BY <1>1, <1>4, <1>5, PartsOf, ResumesSame DEF Resumes
    <2> QED
      BY <1>1, <2>1, <2>2 DEF Awaiting
  <1>10. OneFrame'
    <2>1. \A m \in Co : (Stands(m)' <=> Stands(m)) /\ (Acts(m)' => Acts(m))
      BY <1>1, <1>4 DEF Stands, Acts
    <2> QED
      BY <1>1, <2>1, SameOneFrame
  <1>11. Sections'
    BY <1>1, SectionsHeld, SameSections DEF Held
  <1>12. OneThread'
    <2>1. pc'[Depth] # "unborn"
      BY <1>1, <1>4, RunnerIs, StatesApart
    <2>2. viaLoop => freedLocked' = {}
      BY <1>1, <1>2, LockedIsHeld, DropsFree
    <2> QED
      BY <1>1, <2>1, <2>2, OneThreadSame
  <1> QED
    BY <1>6, <1>8, <1>9, <1>10, <1>11, <1>12

LEMMA StartKeeps ==
    ASSUME CoInv, Start
    PROVE  CoInv'
  <1> USE DEF CoInv
  <1>1. /\ pc[Depth] = "unborn" /\ Enter(0, Depth)
        /\ UNCHANGED <<viaLoop, failing, awaited, value, callback, freedLocked>>
    BY DEF Start
  <1>2. /\ promises' = promises \cup {Result(Depth)} /\ futures' = futures \cup {Result(Depth)}
        /\ Entered(0, Depth)
    BY <1>1, PushStack, StatesApart DEF Enter, Contract
  <1>3. promises = {} /\ \A t \in Threads : stack[t] = <<>>
    BY <1>1 DEF OneThread
  <1>4. /\ pc' \in [Co -> Places] /\ \A m \in Co \ {Depth} : pc'[m] = pc[m]
        /\ pc'[Depth] = "body"
    BY StatesApart DEF Start, Types, Places
  <1>5. Types'
    <2>1. Result(Depth) \in States
      BY StatesApart
    <2> QED
      BY <1>1, <1>2, <1>4, <2>1 DEF Types, Entered
  <1>6. \A l : Started(l)' <=> Started(l)
    BY <1>1, <1>4, StatesApart DEF Started, InAwait
  <1>7. Progress'
    <2>1. ASSUME NEW m \in Co
          PROVE  Reached(m)'
      <3>1. CASE m = Depth
        BY <1>1, <1>2, <1>4, <3>1, PartsOf DEF Reached, InAwait
      <3>2. CASE m # Depth
        BY <1>1, <1>2, <1>4, <3>2, PartsOf, ReachedSame
      <3> QED
        BY <3>1, <3>2
    <2>2. ASSUME NEW m \in Co, m > 1
          PROVE  Calls(m)'
      <3>1. Calls(m) /\ m - 1 \in Co /\ m - 1 # Depth
        BY <2>2, PartsOf, CountsAssumption DEF Co
      <3>2. pc'[m - 1] = pc[m - 1]
        BY <1>4, <3>1
      <3>3. CASE m = Depth
        BY <1>1, <1>4, <3>1, <3>2, <3>3 DEF Calls, InAwait
      <3>4. CASE m # Depth
        BY <1>1, <1>4, <3>1, <3>2, <3>4, CallsSame
      <3> QED
        BY <3>3, <3>4
    <2>3. ASSUME NEW l \in Leaf
          PROVE  Begun(l)'
      <3>1. l # Result(Depth)
        BY StatesApart
      <3> QED
        BY <1>1, <1>2, <1>6, <3>1, PartsOf, BegunSame
    <2> QED
      BY <2>1, <2>2, <2>3 DEF Progress
  <1>8. Awaiting'
    <2>1. ASSUME NEW m \in Co
          PROVE  Kept(m)'
      <3>1. CASE m = Depth
        BY <1>4, <3>1 DEF Kept, InAwait
      <3>2. CASE m # Depth
        BY <1>1, <1>2, <1>4, <3>2, PartsOf, KeptSame
      <3> QED
        BY <3>1, <3>2
    <2>2. ASSUME NEW s \in callback
          PROVE  Resumes(s)'
      BY <1>1, <1>4, PartsOf, ResumesSame DEF Resumes
    <2> QED
      BY <1>1, <2>1, <2>2 DEF Awaiting
  <1>9. \A u \in Threads : \A i \in Nat : \A f : ~ Has(u, i, f)
    BY <1>3, HasFrame
  <1>10. OneFrame'
    <2>1. ~ Stands(Depth) /\ Stands(Depth)'
      BY <1>1, <1>4 DEF Stands
    <2>2. \A m \in Co \ {Depth} : (Stands(m)' <=> Stands(m)) /\ (Acts(m)' <=> Acts(m))
      BY <1>4 DEF Stands, Acts
    <2> QED
      BY <1>2, <1>9, <2>1, <2>2, EnterOneFrame, StatesApart
  <1>11. Sections'
    BY <1>2, <1>9, EnterSections, StatesApart
  <1>12. OneThread'
    <2>1. \A u \in Threads : \A i \in Nat : \A s \in States : ~ Has(u, i, <<"cb", s>>)'
      BY <1>2, <1>9, HasEntered, FramesApart, StatesApart
    <2>2. viaLoop => freedLocked' = {}
      BY <1>1 DEF OneThread
    <2> QED
      BY <1>1, <1>2, <1>3, <1>4, <2>1, <2>2, OneThreadKept, StatesApart DEF Entered
  <1> QED
    BY <1>5, <1>7, <1>8, <1>10, <1>11, <1>12

\* The body that calls an operation.
LEMMA CallLeafKeeps ==
    ASSUME CoInv, NEW t \in Threads, Call(t, 1)
    PROVE  CoInv'
  <1> USE DEF CoInv
  <1> DEFINE s == Awaited(1)
  <1>1. /\ Running(t, 1) /\ pc[1] = "body" /\ awaited[1] < Len(Awaits(1))
        /\ promises' = promises \cup {s} /\ futures' = futures \cup {s}
        /\ UNCHANGED <<viaLoop, failing, stack, awaited, value, callback, freedLocked>>
    BY DEF Call, Contract
  <1>2. s = awaited[1] + 1 /\ s \in Leaf /\ s \in States /\ 1 \in Co
    BY <1>1, AwaitedWhat, StatesApart
  <1>3. Awaited(1)' = s
    BY <1>1, <1>2, AwaitedSame
  <1> HIDE DEF s
  <1>4. /\ pc' \in [Co -> Places] /\ \A m \in Co \ {1} : pc'[m] = pc[m]
        /\ pc'[1] = "ready"
    BY <1>2 DEF Call, Types, Places
  <1>5. Types'
    BY <1>1, <1>2, <1>4 DEF Types
  <1>6. \A l \in Leaf : /\ l = s => ~ Started(l) /\ Started(l)'
                        /\ l # s => (Started(l)' <=> Started(l))
    <2>1. awaited[1] \in Nat /\ \A l \in Leaf : l \in Int
      BY <1>2, StatesApart DEF Types
    <2>2. ~ InAwait(1) /\ InAwait(1)' /\ awaited'[1] = awaited[1]
      BY <1>1, <1>4 DEF InAwait
    <2> QED
      BY <1>2, <2>1, <2>2 DEF Started
  <1>7. value[s] = "none"
    BY <1>2, <1>6, PartsOf DEF Begun
  <1>8. Progress'
    <2>1. ASSUME NEW m \in Co
          PROVE  Reached(m)'
      <3>1. CASE m = 1
        BY <1>1, <1>4, <3>1, PartsOf DEF Reached, InAwait
      <3>2. CASE m # 1
        BY <1>1, <1>4, <3>2, PartsOf, ReachedSame
      <3> QED
        BY <3>1, <3>2
    <2>2. ASSUME NEW m \in Co, m > 1
          PROVE  Calls(m)'
      <3>1. Calls(m) /\ m - 1 \in Co /\ m # 1
        BY <2>2, PartsOf
      <3> QED
        BY <1>1, <1>4, <3>1, CallsSame
    <2>3. ASSUME NEW l \in Leaf
          PROVE  Begun(l)'
      <3>1. CASE l = s
        <4>1. Started(l)' /\ l \in promises'
          BY <1>1, <1>6, <3>1
        <4> QED
          BY <4>1 DEF Begun
      <3>2. CASE l # s
        BY <1>1, <1>6, <3>2, PartsOf, BegunSame
      <3> QED
        BY <3>1, <3>2
    <2> QED
      BY <2>1, <2>2, <2>3 DEF Progress
  <1>9. Awaiting'
    <2>1. ASSUME NEW m \in Co
          PROVE  Kept(m)'
      <3>1. CASE m = 1
        BY <1>1, <1>3, <1>4, <1>7, <3>1 DEF Kept, InAwait
      <3>2. CASE m # 1
        BY <1>1, <1>4, <3>2, PartsOf, KeptSame
      <3> QED
        BY <3>1, <3>2
    <2>2. ASSUME NEW r \in callback
          PROVE  Resumes(r)'
      BY <1>1, <1>4, PartsOf, ResumesSame DEF Resumes
    <2> QED
      BY <1>1, <2>1, <2>2 DEF Awaiting
  <1>10. OneFrame'
    <2>1. \A m \in Co : (Stands(m)' <=> Stands(m)) /\ (Acts(m)' => Acts(m))
      BY <1>1, <1>4 DEF Stands, Acts
    <2> QED
      BY <1>1, <2>1, SameOneFrame
  <1>11. Sections'
    BY <1>1, SectionsHeld, SameSections DEF Held
  <1>12. OneThread'
    <2>1. pc'[Depth] # "unborn"
      BY <1>1, <1>2, <1>4, RunnerIs, StatesApart
    <2> QED
      BY <1>1, <2>1, OneThreadSame DEF OneThread
  <1> QED
    BY <1>5, <1>8, <1>9, <1>10, <1>11, <1>12

\* The body that calls the coroutine before it.
LEMMA CallCoKeeps ==
    ASSUME CoInv, NEW t \in Threads, NEW k \in Co, k # 1, Call(t, k)
    PROVE  CoInv'
  <1> USE DEF CoInv
  <1> DEFINE j == k - 1
  <1>1. /\ Running(t, k) /\ pc[k] = "body" /\ awaited[k] < Len(Awaits(k)) /\ Enter(t, j)
        /\ UNCHANGED <<viaLoop, failing, awaited, value, callback, freedLocked>>
        /\ pc' = [pc EXCEPT ![k] = "ready", ![j] = "body"]
    BY DEF Call
  <1>2. /\ j \in Co /\ j # k /\ k > 1 /\ awaited[k] = 0 /\ Awaited(k) = Result(j)
        /\ Result(j) \in States
    <2>1. k > 1 /\ k - 1 # k
      BY DEF Co
    <2> QED
      BY <1>1, <2>1, AwaitedWhat, StatesApart
  <1>3. Awaited(k)' = Result(j)
    BY <1>1, <1>2, AwaitedSame
  <1>4. pc[j] = "unborn"
    BY <1>1, <1>2, PartsOf DEF Calls
  <1>5. \A m \in Co : m > 1 /\ m - 1 = k => pc[m] # "unborn" /\ ~ (pc[m] = "body" /\ awaited[m] = 0)
    BY <1>1, PartsOf DEF Calls
  <1>6. \A m \in Co : (m - 1 = j => m = k) /\ m - 1 # m
    BY DEF Co
  <1> HIDE DEF j
  <1>7. /\ promises' = promises \cup {Result(j)} /\ futures' = futures \cup {Result(j)}
        /\ Entered(t, j)
    BY <1>1, <1>2, PushStack DEF Enter, Contract
  <1>8. /\ pc' \in [Co -> Places] /\ \A m \in Co \ {k, j} : pc'[m] = pc[m]
        /\ pc'[k] = "ready" /\ pc'[j] = "body"
    BY <1>1, <1>2 DEF Types, Places
  <1>9. Types'
    BY <1>1, <1>2, <1>7, <1>8 DEF Types, Entered
  <1>10. \A l : Started(l)' <=> Started(l)
    <2>1. InAwait(1)' <=> InAwait(1)
      BY <1>1, <1>2, <1>4, <1>8, StatesApart DEF InAwait
    <2> QED
      BY <1>1, <2>1 DEF Started
  <1>11. value[Result(j)] = "none"
    BY <1>2, <1>4, PartsOf DEF Reached
  <1>12. Progress'
    <2>1. ASSUME NEW m \in Co
          PROVE  Reached(m)'
      <3>1. CASE m = k
        BY <1>1, <1>7, <1>8, <3>1, PartsOf DEF Reached, InAwait
      <3>2. CASE m = j
        BY <1>1, <1>2, <1>4, <1>7, <1>8, <3>2, PartsOf DEF Reached, InAwait
      <3>3. CASE m # k /\ m # j
        BY <1>1, <1>7, <1>8, <3>3, PartsOf, ReachedSame
      <3> QED
        BY <3>1, <3>2, <3>3
    <2>2. ASSUME NEW m \in Co, m > 1
          PROVE  Calls(m)'
      <3>1. Calls(m) /\ m - 1 \in Co
        BY <2>2, PartsOf
      <3>2. CASE m = k
        BY <1>2, <1>8, <3>2 DEF Calls, InAwait, j
      <3>3. CASE m = j
        <4>1. m - 1 # k /\ m - 1 # j
          BY <1>2, <1>6, <2>2, <3>3 DEF j, Co
        <4>2. pc'[m - 1] = pc[m - 1]
          BY <1>8, <3>1, <4>1
        <4> QED
          BY <1>1, <1>4, <1>8, <3>1, <3>3, <4>2 DEF Calls, InAwait
      <3>4. CASE m # k /\ m # j
        <4>1. CASE m - 1 = k
          BY <1>1, <1>5, <1>8, <2>2, <3>4, <4>1 DEF Calls, InAwait
        <4>2. CASE m - 1 # k
          <5>1. pc'[m - 1] = pc[m - 1]
            BY <1>6, <1>8, <3>1, <3>4, <4>2
          <5> QED
            BY <1>1, <1>8, <3>1, <3>4, <5>1, CallsSame
        <4> QED
          BY <4>1, <4>2
      <3> QED
        BY <3>2, <3>3, <3>4
    <2>3. ASSUME NEW l \in Leaf
          PROVE  Begun(l)'
      <3>1. l # Result(j)
        BY <1>2, StatesApart
      <3> QED
        BY <1>1, <1>7, <1>10, <3>1, PartsOf, BegunSame
    <2> QED
      BY <2>1, <2>2, <2>3 DEF Progress
  <1>13. Awaiting'
    <2>1. ASSUME NEW m \in Co
          PROVE  Kept(m)'
      <3>1. CASE m = k
        BY <1>1, <1>3, <1>7, <1>8, <1>11, <3>1 DEF Kept, InAwait
      <3>2. CASE m = j
        BY <1>8, <3>2 DEF Kept, InAwait
      <3>3. CASE m # k /\ m # j
        BY <1>1, <1>7, <1>8, <3>3, PartsOf, KeptSame
      <3> QED
        BY <3>1, <3>2, <3>3
    <2>2. ASSUME NEW s \in callback
          PROVE  Resumes(s)'
      BY <1>1, <1>4, <1>8, PartsOf, ResumesSame DEF Resumes
    <2> QED
      BY <1>1, <2>1, <2>2 DEF Awaiting
  <1>14. OneFrame'
    <2>1. ~ Stands(j) /\ Stands(j)'
      BY <1>4, <1>8 DEF Stands
    <2>2. \A m \in Co \ {j} : (Stands(m)' <=> Stands(m)) /\ (Acts(m)' => Acts(m) /\ m # k)
      BY <1>1, <1>8 DEF Stands, Acts
    <2>3. \A m \in Co \ {j} : Acts(m)' => Acts(m) /\ \A i \in Nat : ~ Has(t, i, <<"co", m>>)
      BY <1>1, <2>2, RunnerIs
    <2> QED
      BY <1>2, <1>7, <2>1, <2>2, <2>3, EnterOneFrame
  <1>15. Sections'
    <2>1. \A s \in States : Held(s) => Held(s)'
      BY <1>1, <1>7 DEF Held
    <2> QED
      BY <1>2, <1>7, <2>1, SectionsHeld, EnterSections
  <1>16. OneThread'
    <2>1. viaLoop => \A u \in Threads : \A i \in Nat : \A s \in States : ~ Has(u, i, <<"cb", s>>)'
      BY <1>2, <1>7, HasEntered, FramesApart DEF OneThread
    <2>2. viaLoop => freedLocked' = {}
      BY <1>1 DEF OneThread
    <2>3. pc'[Depth] # "unborn" /\ stack[t] # <<>>
      BY <1>1, <1>8, RunnerIs, StatesApart
    <2> QED
      BY <1>1, <1>7, <1>8, <2>1, <2>2, <2>3, OneThreadKept DEF Entered
  <1> QED
    BY <1>9, <1>12, <1>13, <1>14, <1>15, <1>16

\* set_callback() that finds the value there.
LEMMA ResumeAtOnceKeeps ==
    ASSUME CoInv, NEW t \in Threads, NEW k \in Co, AwaitSuspend(t, k), value[Awaited(k)] = "there"
    PROVE  CoInv'
  <1> USE DEF CoInv
  <1>0. PICK s \in States : s = Awaited(k) /\ InAwait(k)
    <2>1. InAwait(k)
      BY DEF InAwait, AwaitSuspend
    <2> QED
      BY <2>1, InAwaitIs
  <1> DEFINE n == Len(stack[t]) - 1
  <1>1. /\ Running(t, k) /\ pc[k] = "suspend" /\ value[s] = "there"
        /\ value' = [value EXCEPT ![s] = "moved"]
        /\ stack' = [stack EXCEPT ![t] = Pop(stack[t]) \o <<<<"cb", s>>, <<"co", k>>>>]
        /\ pc' = [pc EXCEPT ![k] = "resumed"]
        /\ UNCHANGED <<viaLoop, failing, awaited, callback, promises, futures, freedLocked>>
    BY <1>0 DEF AwaitSuspend
  <1>2. ~ viaLoop
    BY <1>0, <1>1, PartsOf DEF Kept
  <1>3. \A m \in Co \ {k} : InAwait(m) => Awaited(m) # s
    BY <1>0, InAwaitIs
  <1>4. n \in Nat /\ ResumedOn(t, n, <<"cb", s>>, k)
    <2>1. /\ Pop(stack[t]) \in Seq(FrameSet) /\ Len(Pop(stack[t])) = n /\ n <= Len(stack[t])
          /\ n \in Nat /\ \A i \in 1..Len(Pop(stack[t])) : Pop(stack[t])[i] = stack[t][i]
      <3>1. stack[t] \in Seq(FrameSet) /\ stack[t] # <<>>
        BY <1>1, RunnerIs DEF Types
      <3> QED
        BY <3>1 DEF Pop
    <2> HIDE DEF Pop
    <2> QED
      BY <1>1, <2>1, ResumeStack
  <1>5. /\ \A u \in Threads : \A i \in Nat : Has(u, i, <<"co", k>>) => u = t /\ i = n + 1
        /\ \A i \in Nat : \A f : Has(t, i, f) => i <= n + 1
        /\ Has(t, n + 1, <<"co", k>>)
    BY <1>1, RunnerIs, HasFrame
  <1> HIDE DEF n
  <1>6. /\ pc' \in [Co -> Places] /\ \A m \in Co \ {k} : pc'[m] = pc[m]
        /\ pc'[k] = "resumed"
    BY <1>1 DEF Types, Places
  <1>7. /\ value' \in [States -> {"none", "there", "moved"}]
        /\ \A r \in States \ {s} : value'[r] = value[r]
        /\ \A r \in States : value'[r] = "none" <=> value[r] = "none"
    BY <1>1 DEF Types
  <1>8. Types'
    BY <1>1, <1>4, <1>6, <1>7 DEF Types, ResumedOn
  <1>9. \A l : Started(l)' <=> Started(l)
    BY <1>1, <1>6, StatesApart DEF Started, InAwait
  <1>10. Progress'
    <2>1. ASSUME NEW m \in Co
          PROVE  Reached(m)'
      <3>1. Reached(m) /\ Result(m) \in States
        BY PartsOf, StatesApart
      <3> QED
        BY <1>1, <1>6, <1>7, <3>1 DEF Reached, InAwait
    <2>2. ASSUME NEW m \in Co, m > 1
          PROVE  Calls(m)'
      BY <1>1, <1>6, <2>2, PartsOf DEF Calls, InAwait
    <2>3. ASSUME NEW l \in Leaf
          PROVE  Begun(l)'
      BY <1>1, <1>7, <1>9, PartsOf, StatesApart DEF Begun
    <2> QED
      BY <2>1, <2>2, <2>3 DEF Progress
  <1>11. Awaiting'
    <2>1. ASSUME NEW m \in Co \ {k}
          PROVE  Kept(m)'
      <3>1. InAwait(m) => Awaited(m) \in States /\ Awaited(m) # s
        BY <1>3, InAwaitIs
      <3> QED
        BY <1>1, <1>6, <1>7, <3>1, PartsOf, KeptSame
    <2>2. Kept(k)'
      <3>1. Awaited(k)' = s /\ s \in futures
        BY <1>0, <1>1, AwaitedSame, PartsOf DEF Kept
      <3> QED
        BY <1>1, <1>6, <3>1 DEF Kept, InAwait
    <2>3. \A r \in callback : Resumes(r)'
      BY <1>1, <1>6, <1>7, PartsOf, ResumesSame DEF Resumes
    <2> QED
      BY <1>1, <2>1, <2>2, <2>3 DEF Awaiting
  <1>12. OneFrame'
    <2>1. /\ Stands(k)' /\ \A m \in Co \ {k} : Stands(m)' <=> Stands(m)
          /\ \A m \in Co \ {k} : Acts(m)' => Acts(m) /\ \A i \in Nat : ~ Has(t, i, <<"co", m>>)
      BY <1>1, <1>6, RunnerIs DEF Stands, Acts
    <2>2. ASSUME NEW m \in Co \ {k}, NEW i \in Nat, Has(t, i, <<"co", m>>)
          PROVE  i <= n
      <3>1. i # n + 1
        BY <1>5, <2>2, FramesApart DEF Has
      <3> QED
        BY <1>4, <1>5, <2>2, <3>1
    <2>3. \A u \in Threads : \A i \in Nat : Has(u, i, <<"co", k>>) => u = t /\ i > n
      BY <1>4, <1>5
    <2>4. \A m : <<"cb", s>> # <<"co", m>>
      BY FramesApart
    <2> QED
      BY <1>4, <2>1, <2>2, <2>3, <2>4, ResumeOneFrame
  <1>13. Sections'
    <2>1. \A r \in States : Held(r) => Held(r)'
      BY <1>1, <1>7 DEF Held
    <2>2. \A u \in Threads : \A i \in Nat : \A r \in States :
             Has(u, i, <<"set", r>>)' => Has(u, i, <<"set", r>>)
      BY <1>4, HasResumed, FramesApart
    <2>3. \A r \in States : <<"cb", s>> # <<"set", r>>
      BY FramesApart
    <2> QED
      BY <1>4, <2>1, <2>2, <2>3, SectionsHeld, ResumeSections
  <1>14. OneThread'
    <2>1. pc'[Depth] # "unborn"
      BY <1>1, <1>6, RunnerIs, StatesApart
    <2> QED
      BY <1>1, <1>2, <2>1 DEF OneThread
  <1> QED
    BY <1>8, <1>10, <1>11, <1>12, <1>13, <1>14

\* set_callback() that stores the callback.
LEMMA SuspendKeeps ==
    ASSUME CoInv, NEW t \in Threads, NEW k \in Co, AwaitSuspend(t, k), value[Awaited(k)] # "there"
    PROVE  CoInv'
  <1> USE DEF CoInv
  <1>0. PICK s \in States : s = Awaited(k) /\ InAwait(k) /\ Awaiter(s) = k
    <2>1. InAwait(k)
      BY DEF InAwait, AwaitSuspend
    <2> QED
      BY <2>1, InAwaitIs
  <1>1. /\ Running(t, k) /\ pc[k] = "suspend"
        /\ callback' = callback \cup {s}
        /\ stack' = [stack EXCEPT ![t] = Pop(@)]
        /\ pc' = [pc EXCEPT ![k] = "waiting"]
        /\ UNCHANGED <<viaLoop, failing, awaited, value, promises, futures, freedLocked>>
    BY <1>0 DEF AwaitSuspend
  <1>2. value[s] = "none" /\ s \in futures
    <2>1. value[s] # "moved" /\ value[s] \in {"none", "there", "moved"} /\ s \in futures
      BY <1>0, <1>1, PartsOf DEF Kept, Types
    <2> QED
      BY <1>0, <2>1
  <1>3. Popped(t)
    BY <1>1, RunnerIs, PopStack
  <1>4. Awaited(k)' = s
    BY <1>0, <1>1, AwaitedSame
  <1>5. /\ pc' \in [Co -> Places] /\ \A m \in Co \ {k} : pc'[m] = pc[m]
        /\ pc'[k] = "waiting"
    BY <1>1 DEF Types, Places
  <1>6. Types'
    BY <1>0, <1>1, <1>3, <1>5 DEF Types, Popped
  <1>7. \A l : Started(l)' <=> Started(l)
    BY <1>1, <1>5, StatesApart DEF Started, InAwait
  <1>8. Progress'
    <2>1. ASSUME NEW m \in Co
          PROVE  Reached(m)'
      BY <1>1, <1>5, PartsOf DEF Reached, InAwait
    <2>2. ASSUME NEW m \in Co, m > 1
          PROVE  Calls(m)'
      BY <1>1, <1>5, <2>2, PartsOf DEF Calls, InAwait
    <2>3. \A l \in Leaf : Begun(l)'
      BY <1>1, <1>7, PartsOf, BegunSame
    <2> QED
      BY <2>1, <2>2, <2>3 DEF Progress
  <1>9. Awaiting'
    <2>1. ASSUME NEW m \in Co
          PROVE  Kept(m)'
      <3>1. CASE m = k
        BY <1>1, <1>2, <1>4, <1>5, <3>1 DEF Kept, InAwait
      <3>2. CASE m # k
        BY <1>1, <1>5, <3>2, PartsOf, KeptSame
      <3> QED
        BY <3>1, <3>2
    <2>2. ASSUME NEW r \in callback
          PROVE  Resumes(r)'
      BY <1>1, <1>5, PartsOf, ResumesSame DEF Resumes
    <2>3. \A r : r = s => Resumes(r)'
      <3>1. Awaiter(s)' = k
        BY <1>0 DEF Awaiter, Leaf
      <3> QED
        BY <1>4, <1>5, <3>1 DEF Resumes
    <2> QED
      BY <1>1, <2>1, <2>2, <2>3 DEF Awaiting
  <1>10. \A m \in Co : Has(t, Len(stack[t]), <<"co", m>>) <=> m = k
    BY <1>1, RunnerIs, FramesApart DEF Has
  <1>11. OneFrame'
    <2>1. \A m \in Co : /\ Stands(m)' <=> Stands(m) /\ m # k
                        /\ Acts(m)' => Acts(m)
      BY <1>1, <1>5 DEF Stands, Acts
    <2> QED
      BY <1>3, <1>10, <2>1, PopOneFrame
  <1>12. Sections'
    <2>1. \A r \in States : Held(r) => Held(r)'
      BY <1>1 DEF Held
    <2> QED
      BY <1>3, <2>1, HasPopped, SectionsHeld, PopSections
  <1>13. OneThread'
    <2>1. viaLoop => \A u \in Threads : \A i \in Nat : \A r \in States : ~ Has(u, i, <<"cb", r>>)'
      BY <1>3, HasPopped DEF OneThread
    <2>2. viaLoop => freedLocked' = {}
      BY <1>1 DEF OneThread
    <2>3. pc'[Depth] # "unborn" /\ stack[t] # <<>>
      BY <1>1, <1>5, RunnerIs, StatesApart
    <2> QED
      BY <1>1, <1>3, <1>5, <2>1, <2>2, <2>3, OneThreadKept DEF Popped
  <1> QED
    BY <1>6, <1>8, <1>9, <1>11, <1>12, <1>13

\* Nobody is within set_value() of a result whose coroutine is innermost.
LEMMA ResultIsFree ==
    ASSUME CoInv, NEW t \in Threads, NEW k \in Co, Running(t, k),
           NEW u \in Threads, NEW i \in Nat, Has(u, i, <<"set", Result(k)>>)
    PROVE  FALSE
  <1>1. Result(k) \in States \ Leaf /\ Result(k) - Leaves = k
    BY StatesApart
  <1>2. Has(u, i - 1, <<"co", k>>)
    BY <1>1 DEF CoInv, Sections
  <1>3. i >= 1 /\ i <= Len(stack[u]) /\ i - 1 \in Nat
    BY HasFrame DEF CoInv
  <1>4. u = t /\ i - 1 = Len(stack[t])
    BY <1>2, <1>3, RunnerIs
  <1> QED
    BY <1>3, <1>4

LEMMA FinalKeeps ==
    ASSUME CoInv, NEW t \in Threads, NEW k \in Co, Final(t, k)
    PROVE  CoInv'
  <1> USE DEF CoInv
  <1>1. /\ Running(t, k) /\ pc[k] = "final" /\ Drop(Result(k), futures)
        /\ promises' = promises \ {Result(k)}
        /\ stack' = [stack EXCEPT ![t] = Pop(@)]
        /\ pc' = [pc EXCEPT ![k] = "ended"]
        /\ UNCHANGED <<viaLoop, failing, awaited, value, callback, futures>>
    BY DEF Final
  <1>2. Popped(t)
    BY <1>1, RunnerIs, PopStack
  <1>3. /\ pc' \in [Co -> Places] /\ \A m \in Co \ {k} : pc'[m] = pc[m]
        /\ pc'[k] = "ended"
    BY <1>1 DEF Types, Places
  <1>4. Types'
    BY <1>1, <1>2, <1>3 DEF Types, Popped
  <1>5. \A l : Started(l)' <=> Started(l)
    BY <1>1, <1>3, StatesApart DEF Started, InAwait
  <1>6. Progress'
    <2>1. ASSUME NEW m \in Co
          PROVE  Reached(m)'
      <3>1. CASE m = k
        BY <1>1, <1>3, <3>1, PartsOf DEF Reached, InAwait
      <3>2. CASE m # k
        <4>1. Result(m) # Result(k)
          BY <3>2, StatesApart
        <4> QED
          BY <1>1, <1>3, <3>2, <4>1, PartsOf, ReachedSame
      <3> QED
        BY <3>1, <3>2
    <2>2. ASSUME NEW m \in Co, m > 1
          PROVE  Calls(m)'
      BY <1>1, <1>3, <2>2, PartsOf DEF Calls, InAwait
    <2>3. ASSUME NEW l \in Leaf
          PROVE  Begun(l)'
      <3>1. l # Result(k)
        BY StatesApart
      <3> QED
        BY <1>1, <1>5, <3>1, PartsOf, BegunSame
    <2> QED
      BY <2>1, <2>2, <2>3 DEF Progress
  <1>7. Awaiting'
    <2>1. ASSUME NEW m \in Co
          PROVE  Kept(m)'
      <3>1. CASE m = k
        BY <1>3, <3>1 DEF Kept, InAwait
      <3>2. CASE m # k
        BY <1>1, <1>3, <3>2, PartsOf, KeptSame
      <3> QED
        BY <3>1, <3>2
    <2>2. ASSUME NEW r \in callback
          PROVE  Resumes(r)'
      BY <1>1, <1>3, PartsOf, ResumesSame DEF Resumes
    <2> QED
      BY <1>1, <2>1, <2>2 DEF Awaiting
  <1>8. \A m \in Co : Has(t, Len(stack[t]), <<"co", m>>) <=> m = k
    BY <1>1, RunnerIs, FramesApart DEF Has
  <1>9. OneFrame'
    <2>1. \A m \in Co : /\ Stands(m)' <=> Stands(m) /\ m # k
                        /\ Acts(m)' => Acts(m)
      BY <1>1, <1>3 DEF Stands, Acts
    <2> QED
      BY <1>2, <1>8, <2>1, PopOneFrame
  <1>10. Sections'
    <2>1. ASSUME NEW r \in States, NEW u \in Threads, NEW i \in Nat, Has(u, i, <<"set", r>>)'
          PROVE  Held(r)'
      <3>1. Has(u, i, <<"set", r>>)
        BY <1>2, <2>1, HasPopped
      <3>2. r # Result(k)
        BY <1>1, <3>1, ResultIsFree
      <3> QED
        BY <1>1, <3>1, <3>2, SectionsHeld DEF Held
    <2> QED
      BY <1>2, <2>1, PopSections
  <1>11. OneThread'
    <2>1. viaLoop => \A u \in Threads : \A i \in Nat : \A r \in States : ~ Has(u, i, <<"cb", r>>)'
      BY <1>2, HasPopped DEF OneThread
    <2>2. viaLoop => freedLocked' = {}
      <3>1. Result(k) \in States
        BY StatesApart
      <3>2. viaLoop => ~ Locked(Result(k))
        BY <1>1, <3>1, LockedHas, ResultIsFree DEF OneThread
      <3> QED
        BY <1>1, <3>1, <3>2, DropsFree
    <2>3. pc'[Depth] # "unborn" /\ stack[t] # <<>>
      BY <1>1, <1>3, RunnerIs, StatesApart
    <2> QED
      BY <1>1, <1>2, <1>3, <2>1, <2>2, <2>3, OneThreadKept DEF Popped
  <1> QED
    BY <1>4, <1>6, <1>7, <1>9, <1>10, <1>11

LEMMA EndSectionKeeps ==
    ASSUME CoInv, NEW t \in Threads, EndSection(t)
    PROVE  CoInv'
  <1> USE DEF CoInv
  <1>1. PICK s \in States :
           /\ \/ Runs(t, <<"set", s>>) /\ callback' = callback \ {s}
              \/ Runs(t, <<"cb", s>>) /\ UNCHANGED callback
           /\ stack' = [stack EXCEPT ![t] = Pop(@)]
           /\ UNCHANGED <<viaLoop, failing, pc, awaited, value, promises, futures, freedLocked>>
    BY DEF EndSection
  <1>2. stack[t] # <<>> /\ Popped(t)
    <2>1. stack[t] # <<>>
      BY <1>1 DEF Runs
    <2> QED
      BY <1>1, <2>1, PopStack
  <1>3. \A m \in Co : ~ Has(t, Len(stack[t]), <<"co", m>>)
    BY <1>1, FramesApart DEF Runs, Has
  <1>4. callback' \subseteq callback /\ \A r \in callback \ callback' : value[r] # "none"
    <2>1. Runs(t, <<"set", s>>) => value[s] # "none"
      <3>1. Len(stack[t]) \in Nat
        BY DEF Types
      <3>2. Runs(t, <<"set", s>>) => Has(t, Len(stack[t]), <<"set", s>>)
        BY RunsHas
      <3> QED
        BY <3>1, <3>2 DEF Sections
    <2> QED
      BY <1>1, <2>1
  <1>5. Types'
    BY <1>1, <1>2, <1>4 DEF Types, Popped
  <1>6. \A l : Started(l)' <=> Started(l)
    BY <1>1 DEF Started, InAwait
  <1>7. Progress'
    <2>1. \A m \in Co : Reached(m)'
      BY <1>1, PartsOf, ReachedSame
    <2>2. \A m \in Co : m > 1 => Calls(m)'
      BY <1>1, PartsOf, CallsSame
    <2>3. \A l \in Leaf : Begun(l)'
      BY <1>1, <1>6, PartsOf, BegunSame
    <2> QED
      BY <2>1, <2>2, <2>3 DEF Progress
  <1>8. Awaiting'
    <2>1. ASSUME NEW m \in Co
          PROVE  Kept(m)'
      <3>1. Awaited(m)' = Awaited(m)
        BY <1>1, AwaitedSame
      <3> QED
        BY <1>1, <1>4, <3>1, PartsOf DEF Kept, InAwait
    <2>2. ASSUME NEW r \in callback
          PROVE  Resumes(r)'
      BY <1>1, PartsOf, ResumesSame
    <2> QED
      BY <1>4, <2>1, <2>2 DEF Awaiting
  <1>9. OneFrame'
    <2>1. \A m \in Co : (Stands(m)' <=> Stands(m)) /\ (Acts(m)' <=> Acts(m))
      BY <1>1 DEF Stands, Acts
    <2> QED
      BY <1>2, <1>3, <2>1, PopOneFrame
  <1>10. Sections'
    <2>1. \A r \in States : Held(r) => Held(r)'
      BY <1>1 DEF Held
    <2> QED
      BY <1>2, <2>1, HasPopped, SectionsHeld, PopSections
  <1>11. OneThread'
    <2>1. viaLoop => \A u \in Threads : \A i \in Nat : \A r \in States : ~ Has(u, i, <<"cb", r>>)'
      BY <1>2, HasPopped DEF OneThread
    <2>2. viaLoop => freedLocked' = {}
      BY <1>1 DEF OneThread
    <2>3. pc'[Depth] # "unborn" /\ pc' \in [Co -> Places]
      BY <1>1, <1>2 DEF OneThread, Types
    <2> QED
      BY <1>1, <1>2, <2>1, <2>2, <2>3, OneThreadKept DEF Popped
  <1> QED
    BY <1>5, <1>7, <1>8, <1>9, <1>10, <1>11

\* The task goes after the section it ran.
LEMMA ForgetKeeps ==
    ASSUME CoInv, NEW l \in Leaf, Forget(l)
    PROVE  CoInv'
  <1> USE DEF CoInv
  <1>1. /\ l \in promises /\ value[l] # "none" /\ stack[l] = <<>> /\ Drop(l, futures)
        /\ promises' = promises \ {l}
        /\ UNCHANGED <<viaLoop, failing, stack, pc, awaited, value, callback, futures>>
    BY DEF Forget
  <1>2. \A u \in Threads : \A i \in Nat : ~ Has(u, i, <<"set", l>>)
    <2>1. ASSUME NEW u \in Threads, NEW i \in Nat, Has(u, i, <<"set", l>>)
          PROVE  FALSE
      <3>1. u = l
        BY <2>1, StatesApart DEF Sections
      <3> QED
        BY <1>1, <2>1, <3>1, HasFrame
    <2> QED
      BY <2>1
  <1>3. Types'
    BY <1>1 DEF Types
  <1>4. \A m : Started(m)' <=> Started(m)
    BY <1>1 DEF Started, InAwait
  <1>5. Progress'
    <2>1. ASSUME NEW m \in Co
          PROVE  Reached(m)'
      <3>1. Result(m) # l
        BY StatesApart
      <3> QED
        BY <1>1, <3>1, PartsOf, ReachedSame
    <2>2. \A m \in Co : m > 1 => Calls(m)'
      BY <1>1, PartsOf, CallsSame
    <2>3. ASSUME NEW m \in Leaf
          PROVE  Begun(m)'
      BY <1>1, <1>4, PartsOf DEF Begun
    <2> QED
      BY <2>1, <2>2, <2>3 DEF Progress
  <1>6. Awaiting'
    <2>1. \A m \in Co : Kept(m)'
      BY <1>1, PartsOf, KeptSame
    <2>2. \A r \in callback : Resumes(r)'
      BY <1>1, PartsOf, ResumesSame
    <2> QED
      BY <1>1, <2>1, <2>2 DEF Awaiting
  <1>7. OneFrame'
    <2>1. \A m \in Co : (Stands(m)' <=> Stands(m)) /\ (Acts(m)' => Acts(m))
      BY <1>1 DEF Stands, Acts
    <2> QED
      BY <1>1, <2>1, SameOneFrame
  <1>8. Sections'
    <2>1. ASSUME NEW r \in States, NEW u \in Threads, NEW i \in Nat, Has(u, i, <<"set", r>>)
          PROVE  Held(r)'
      BY <1>1, <1>2, <2>1, SectionsHeld DEF Held
    <2> QED
      BY <1>1, <2>1, SameSections
  <1>9. OneThread'
    <2>1. pc[Depth] # "unborn"
      BY <1>1 DEF OneThread
    <2>2. viaLoop => freedLocked' = {}
      <3>1. viaLoop => ~ Locked(l)
        BY <1>2, LockedHas, StatesApart DEF OneThread
      <3> QED
        BY <1>1, <3>1, DropsFree, StatesApart
    <2> QED
      BY <1>1, <2>1, <2>2, OneThreadSame
  <1> QED
    BY <1>3, <1>5, <1>6, <1>7, <1>8, <1>9

LEMMA DetachKeeps ==
    ASSUME CoInv, Detach
    PROVE  CoInv'
  <1> USE DEF CoInv
  <1>1. /\ Drop(Result(Depth), promises) /\ futures' = futures \ {Result(Depth)}
        /\ UNCHANGED <<viaLoop, failing, stack, pc, awaited, value, callback, promises>>
    BY DEF Detach
  <1>2. Types'
    BY <1>1 DEF Types
  <1>3. \A m : Started(m)' <=> Started(m)
    BY <1>1 DEF Started, InAwait
  <1>4. Progress'
    <2>1. \A m \in Co : Reached(m)'
      BY <1>1, PartsOf, ReachedSame
    <2>2. \A m \in Co : m > 1 => Calls(m)'
      BY <1>1, PartsOf, CallsSame
    <2>3. \A m \in Leaf : Begun(m)'
      BY <1>1, <1>3, PartsOf, BegunSame
    <2> QED
      BY <2>1, <2>2, <2>3 DEF Progress
  <1>5. Awaiting'
    <2>1. ASSUME NEW m \in Co
          PROVE  Kept(m)'
      <3>1. InAwait(m) => Awaited(m) # Result(Depth)
        BY InAwaitIs
      <3> QED
        BY <1>1, <3>1, PartsOf, KeptSame
    <2>2. \A r \in callback : Resumes(r)'
      BY <1>1, PartsOf, ResumesSame
    <2> QED
      BY <1>1, <2>1, <2>2 DEF Awaiting
  <1>6. OneFrame'
    <2>1. \A m \in Co : (Stands(m)' <=> Stands(m)) /\ (Acts(m)' => Acts(m))
      BY <1>1 DEF Stands, Acts
    <2> QED
      BY <1>1, <2>1, SameOneFrame
  <1>7. Sections'
    BY <1>1, SectionsHeld, SameSections DEF Held
  <1>8. OneThread'
    <2>1. viaLoop => freedLocked' = {}
      BY <1>1, LockedIsHeld, DropsFree, StatesApart
    <2>2. pc'[Depth] = "unborn" => promises' = {} /\ pc[Depth] = "unborn"
      BY <1>1 DEF OneThread
    <2> QED
      BY <1>1, <2>1, <2>2, OneThreadSame
  <1> QED
    BY <1>2, <1>4, <1>5, <1>6, <1>7, <1>8

\* What set_value() of s makes of the coroutines: the one that awaits s goes on,
\* and the one that returns s is at its end.
SetsFor(s) ==
    /\ UNCHANGED <<viaLoop, failing, awaited, callback, promises, futures, freedLocked>>
    /\ pc' \in [Co -> Places]
    /\ value' \in [States -> {"none", "there", "moved"}]
    /\ value'[s] # "none"
    /\ \A r \in States \ {s} : value'[r] = value[r]
    /\ \A m \in Co : \/ pc'[m] = pc[m]
                     \/ pc[m] = "waiting" /\ pc'[m] = "resumed" /\ Awaited(m) = s
                     \/ pc[m] = "body" /\ pc'[m] = "final" /\ Result(m) = s
    /\ \A m \in Co : pc[m] = "waiting" /\ Awaited(m) = s => pc'[m] = "resumed"
    /\ \A m \in Co : Result(m) = s => pc'[m] = "final"
    /\ value'[s] = "moved" => \E m \in Co : pc[m] = "waiting" /\ Awaited(m) = s

LEMMA SetsForKeeps ==
    ASSUME CoInv, NEW s \in States, SetsFor(s), value[s] = "none",
           s \in Leaf => s \in promises,
           viaLoop => \A m \in Co : pc[m] = "suspend" => Awaited(m) # s
    PROVE  Progress' /\ Awaiting'
  <1>1. /\ UNCHANGED <<viaLoop, failing, awaited, callback, promises, futures, freedLocked>>
        /\ value'[s] # "none"
        /\ \A r \in States \ {s} : value'[r] = value[r]
    BY DEF SetsFor
  <1>2. \A m \in Co : \/ pc'[m] = pc[m]
                      \/ pc[m] = "waiting" /\ pc'[m] = "resumed" /\ Awaited(m) = s
                      \/ pc[m] = "body" /\ pc'[m] = "final" /\ Result(m) = s
    BY DEF SetsFor
  <1>3. \A m \in Co : InAwait(m)' <=> InAwait(m)
    BY <1>2 DEF InAwait
  <1>4. \A m \in Co : Awaited(m)' = Awaited(m)
    BY <1>1, AwaitedSame
  <1>5. \A l : Started(l)' <=> Started(l)
    BY <1>1, <1>3, StatesApart DEF Started
  <1>6. ASSUME NEW m \in Co
        PROVE  Reached(m)'
    <2>1. Reached(m) /\ Result(m) \in States
      BY PartsOf, StatesApart
    <2>2. CASE Result(m) = s
      <3>1. pc'[m] = "final" /\ value'[Result(m)] # "none"
        BY <1>1, <2>2 DEF SetsFor
      <3>2. pc[m] \notin {"unborn", "ended"}
        BY <1>2, <3>1
      <3> QED
        BY <1>1, <2>1, <3>1, <3>2 DEF Reached, InAwait
    <2>3. CASE Result(m) # s
      <3>1. pc'[m] = pc[m] \/ (pc[m] = "waiting" /\ pc'[m] = "resumed")
        BY <1>2, <2>3
      <3>2. value'[Result(m)] = value[Result(m)]
        BY <1>1, <2>1, <2>3
      <3> QED
        BY <1>1, <2>1, <3>1, <3>2 DEF Reached, InAwait
    <2> QED
      BY <2>2, <2>3
  <1>7. ASSUME NEW m \in Co, m > 1
        PROVE  Calls(m)'
    <2>1. Calls(m) /\ m - 1 \in Co
      BY <1>7, PartsOf
    <2>2. pc'[m - 1] = "unborn" <=> pc[m - 1] = "unborn"
      BY <1>2, <2>1
    <2> QED
      BY <1>1, <1>2, <1>3, <2>1, <2>2 DEF Calls
  <1>8. ASSUME NEW l \in Leaf
        PROVE  Begun(l)'
    <2>1. Begun(l) /\ l \in States
      BY PartsOf, StatesApart
    <2> QED
      BY <1>1, <1>5, <2>1 DEF Begun
  <1>9. ASSUME NEW m \in Co
        PROVE  Kept(m)'
    <2>1. Kept(m) /\ (InAwait(m) => Awaited(m) \in States)
      BY PartsOf, InAwaitIs
    <2>2. CASE InAwait(m) /\ Awaited(m) = s
      <3>1. pc[m] = "waiting" => pc'[m] = "resumed"
        BY <2>2 DEF SetsFor
      <3>2. pc'[m] \in {"ready", "suspend"} => pc[m] = pc'[m]
        BY <1>2
      <3>3. pc[m] \in {"ready", "suspend"} => value'[s] # "moved"
        <4>1. ASSUME value'[s] = "moved", pc[m] \in {"ready", "suspend"}
              PROVE  FALSE
          <5>1. PICK a \in Co : pc[a] = "waiting" /\ Awaited(a) = s
            BY <4>1 DEF SetsFor
          <5>2. InAwait(a) /\ a # m
            BY <4>1, <5>1 DEF InAwait
          <5> QED
            BY <2>2, <5>1, <5>2, InAwaitIs
        <4> QED
          BY <4>1
      <3>4. viaLoop => pc[m] # "suspend"
        BY <2>2
      <3>5. pc'[m] # "waiting"
        BY <1>2, <3>1
      <3> QED
        BY <1>1, <1>3, <1>4, <2>1, <2>2, <3>2, <3>3, <3>4, <3>5 DEF Kept
    <2>3. CASE InAwait(m) /\ Awaited(m) # s
      <3>1. pc'[m] = pc[m]
        BY <1>2, <2>3 DEF InAwait
      <3>2. value'[Awaited(m)] = value[Awaited(m)]
        BY <1>1, <2>1, <2>3
      <3> QED
        BY <1>1, <2>1, <2>3, <3>1, <3>2, KeptSame
    <2>4. CASE ~ InAwait(m)
      BY <1>3, <2>4 DEF Kept, InAwait
    <2> QED
      BY <2>2, <2>3, <2>4
  <1>10. ASSUME NEW r \in callback
         PROVE  Resumes(r)'
    <2>1. Resumes(r) /\ r \in States
      BY PartsOf
    <2>2. CASE r = s
      BY <1>1, <2>2 DEF Resumes
    <2>3. CASE r # s
      <3>1. value'[r] = value[r]
        BY <1>1, <2>1, <2>3
      <3>2. ASSUME value[r] = "none"
            PROVE  pc'[Awaiter(r)] = pc[Awaiter(r)]
        <4>1. Awaiter(r) \in Co /\ pc[Awaiter(r)] = "waiting" /\ Awaited(Awaiter(r)) = r
          BY <2>1, <3>2 DEF Resumes
        <4> QED
          BY <1>2, <2>3, <4>1
      <3> QED
        BY <1>1, <2>1, <3>1, <3>2, ResumesSame
    <2> QED
      BY <2>2, <2>3
  <1> QED
    BY <1>1, <1>6, <1>7, <1>8, <1>9, <1>10 DEF Progress, Awaiting

\* Who may set the value of s: the thread of the operation, which runs nothing
\* else, or the coroutine that returns it.
MaySet(t, s) ==
    /\ s \in promises /\ value[s] = "none"
    /\ s \in Leaf => /\ t = s /\ stack[t] = <<>>
                     /\ viaLoop => \A u \in Threads : stack[u] = <<>>
    /\ s \notin Leaf => Running(t, s - Leaves)

LEMMA SetterIs ==
    ASSUME CoInv, NEW t \in Threads, NEW s \in States, SetsFor(s), MaySet(t, s)
    PROVE  /\ viaLoop => \A m \in Co : pc[m] = "suspend" => Awaited(m) # s
           /\ \A m \in Co : Stands(m)' <=> Stands(m) \/ (pc[m] = "waiting" /\ Awaited(m) = s)
           /\ \A m \in Co : Acts(m)' => \/ Acts(m) /\ \A i \in Nat : ~ Has(t, i, <<"co", m>>)
                                        \/ pc[m] = "waiting" /\ Awaited(m) = s
           /\ pc'[Depth] # "unborn"
           /\ stack[t] # <<>> \/ (viaLoop => \A u \in Threads : stack[u] = <<>>)
  <1>1. \A m \in Co : \/ pc'[m] = pc[m]
                      \/ pc[m] = "waiting" /\ pc'[m] = "resumed" /\ Awaited(m) = s
                      \/ pc[m] = "body" /\ pc'[m] = "final" /\ Result(m) = s
    BY DEF SetsFor
  <1>2. \A m \in Co : Stands(m)' <=> Stands(m) \/ (pc[m] = "waiting" /\ Awaited(m) = s)
    BY <1>1 DEF Stands, SetsFor
  <1>3. pc[Depth] # "unborn" /\ pc'[Depth] # "unborn"
    <2>1. pc[Depth] # "unborn"
      BY DEF MaySet, CoInv, OneThread
    <2> QED
      BY <1>1, <2>1, StatesApart
  <1>4. CASE s \in Leaf
    <2>1. stack[t] = <<>> /\ (viaLoop => \A u \in Threads : stack[u] = <<>>)
      BY <1>4 DEF MaySet
    <2>2. \A i \in Nat : \A f : ~ Has(t, i, f)
      BY <2>1, HasFrame DEF CoInv
    <2>3. viaLoop => \A m \in Co : ~ Stands(m)
      BY <2>1, HasFrame DEF CoInv, OneFrame
    <2>4. \A m \in Co : Result(m) # s
      BY <1>4, StatesApart
    <2>5. \A m \in Co : Acts(m)' => Acts(m) \/ (pc[m] = "waiting" /\ Awaited(m) = s)
      BY <1>1, <2>4 DEF Acts
    <2>6. viaLoop => \A m \in Co : pc[m] # "suspend"
      BY <2>3 DEF Stands
    <2> QED
      BY <1>2, <1>3, <2>1, <2>2, <2>5, <2>6
  <1>5. CASE s \notin Leaf
    <2>1. PICK k \in Co : Result(k) = s /\ Running(t, k)
      BY <1>5, StatesApart DEF MaySet
    <2>2. pc'[k] = "final" /\ pc[k] # "suspend"
      BY <1>1, <2>1 DEF SetsFor
    <2>3. \A m \in Co \ {k} : Result(m) # s
      BY <2>1, StatesApart
    <2>4. \A m \in Co : Acts(m)' => (Acts(m) /\ m # k) \/ (pc[m] = "waiting" /\ Awaited(m) = s)
      BY <1>1, <2>2, <2>3 DEF Acts
    <2>5. /\ \A m \in Co \ {k} : Acts(m) => \A i \in Nat : ~ Has(t, i, <<"co", m>>)
          /\ viaLoop => \A m \in Co \ {k} : ~ Acts(m)
          /\ stack[t] # <<>>
      BY <2>1, RunnerIs
    <2>6. viaLoop => \A m \in Co : pc[m] # "suspend"
      BY <2>2, <2>5 DEF Acts
    <2> QED
      BY <1>2, <1>3, <2>4, <2>5, <2>6
  <1> QED
    BY <1>4, <1>5

\* set_value() that runs no callback.
LEMMA SetQuietlyKeeps ==
    ASSUME CoInv, NEW t \in Threads, NEW s \in States, SetsFor(s), MaySet(t, s), UNCHANGED stack,
           \A m \in Co : ~ (pc[m] = "waiting" /\ Awaited(m) = s)
    PROVE  CoInv'
  <1> USE DEF CoInv
  <1>1. /\ UNCHANGED <<viaLoop, failing, awaited, callback, promises, futures, freedLocked>>
        /\ value'[s] # "none" /\ \A r \in States \ {s} : value'[r] = value[r]
    BY DEF SetsFor
  <1>2. Types'
    BY <1>1 DEF Types, SetsFor
  <1>3. Progress' /\ Awaiting'
    <2>1. value[s] = "none" /\ (s \in Leaf => s \in promises)
      BY DEF MaySet
    <2> QED
      BY <2>1, SetterIs, SetsForKeeps
  <1>4. OneFrame'
    BY SetterIs, SameOneFrame
  <1>5. Sections'
    <2>1. \A r \in States : Held(r) => Held(r)'
      BY <1>1 DEF Held
    <2> QED
      BY <2>1, SectionsHeld, SameSections
  <1>6. OneThread'
    <2>1. viaLoop => freedLocked' = {}
      BY <1>1 DEF OneThread
    <2> QED
      BY <1>1, <2>1, SetterIs, OneThreadSame
  <1> QED
    BY <1>2, <1>3, <1>4, <1>5, <1>6

\* set_value() that resumes coroutine a.
LEMMA SetResumesKeeps ==
    ASSUME CoInv, NEW t \in Threads, NEW s \in States, NEW a \in Co, SetsFor(s), MaySet(t, s),
           pc[a] = "waiting", Awaited(a) = s,
           ResumedOn(t, Len(stack[t]), <<"set", s>>, a)
    PROVE  CoInv'
  <1> USE DEF CoInv
  <1> DEFINE n == Len(stack[t])
             f == <<"set", s>>
  <1>1. /\ UNCHANGED <<viaLoop, failing, awaited, callback, promises, futures, freedLocked>>
        /\ value'[s] # "none" /\ \A r \in States \ {s} : value'[r] = value[r]
        /\ pc' \in [Co -> Places]
    BY DEF SetsFor
  <1>2. \A m \in Co \ {a} : ~ (pc[m] = "waiting" /\ Awaited(m) = s)
    <2>1. InAwait(a)
      BY DEF InAwait
    <2> QED
      BY <2>1, InAwaitIs DEF InAwait
  <1>3. n \in Nat /\ ResumedOn(t, n, f, a) /\ \A i \in Nat : \A g : Has(t, i, g) => i <= n
    BY HasFrame DEF Types
  <1>4. (\A m : f # <<"co", m>>) /\ (\A r : f # <<"cb", r>>) /\ (\A r : f = <<"set", r>> => r = s)
    BY FramesApart
  <1>5. \A u \in Threads : \A i \in Nat : ~ Has(u, i, <<"co", a>>)
    <2>1. ~ Stands(a)
      BY DEF Stands
    <2> QED
      BY <2>1 DEF OneFrame
  <1>6. s \notin Leaf => n > 0 /\ Has(t, n, <<"co", s - Leaves>>)
    BY StatesApart, RunnerIs DEF MaySet
  <1>7. s \in Leaf => t = s /\ n = 0
    BY DEF MaySet
  <1> HIDE DEF n, f
  <1>8. Types'
    BY <1>1, <1>3 DEF Types, SetsFor, ResumedOn
  <1>9. Progress' /\ Awaiting'
    <2>1. value[s] = "none" /\ (s \in Leaf => s \in promises)
      BY DEF MaySet
    <2> QED
      BY <2>1, SetterIs, SetsForKeeps
  <1>10. OneFrame'
    <2>1. Stands(a)' /\ \A m \in Co \ {a} : Stands(m)' <=> Stands(m)
      BY <1>2, SetterIs
    <2>2. \A m \in Co \ {a} : Acts(m)' => Acts(m) /\ \A i \in Nat : ~ Has(t, i, <<"co", m>>)
      BY <1>2, SetterIs
    <2> QED
      BY <1>3, <1>4, <1>5, <2>1, <2>2, ResumeOneFrame
  <1>11. Sections'
    <2>1. \A r \in States : Held(r) => Held(r)'
      BY <1>1 DEF Held
    <2>2. Held(s)'
      BY <1>1 DEF Held, MaySet
    <2>3. ASSUME NEW u \in Threads, NEW i \in Nat, NEW r \in States, Has(u, i, <<"set", r>>)'
          PROVE  Held(r)'
      <3>1. Has(u, i, <<"set", r>>) \/ <<"set", r>> = f
        BY <1>3, <2>3, HasResumed, FramesApart
      <3>2. Has(u, i, <<"set", r>>) \/ r = s
        BY <1>4, <3>1
      <3> QED
        BY <2>1, <2>2, <3>2, SectionsHeld
    <2>4. ASSUME NEW r \in States, f = <<"set", r>>
          PROVE  /\ r \in Leaf => t = r /\ n = 0
                 /\ r \notin Leaf => n > 0 /\ Has(t, n, <<"co", r - Leaves>>)
      <3>1. r = s
        BY <1>4, <2>4
      <3> QED
        BY <1>6, <1>7, <3>1
    <2> QED
      BY <1>3, <2>3, <2>4, ResumeSections
  <1>12. OneThread'
    <2>1. viaLoop => freedLocked' = {}
      BY <1>1 DEF OneThread
    <2>2. ASSUME viaLoop, NEW u \in Threads, NEW i \in Nat, NEW r \in States,
                 Has(u, i, <<"cb", r>>)'
          PROVE  FALSE
      <3>1. <<"cb", r>> # f /\ <<"cb", r>> # <<"co", a>>
        BY <1>4, FramesApart
      <3>2. Has(u, i, <<"cb", r>>)
        BY <1>3, <2>2, <3>1, HasResumed
      <3> QED
        BY <2>2, <3>2 DEF OneThread
    <2>3. \A u \in Threads \ {t} : stack'[u] = stack[u]
      BY <1>3 DEF ResumedOn
    <2> QED
      BY <1>1, <2>1, <2>2, <2>3, SetterIs, OneThreadKept
  <1> QED
    BY <1>8, <1>9, <1>10, <1>11, <1>12

LEMMA ReturnKeeps ==
    ASSUME CoInv, NEW t \in Threads, NEW k \in Co, Return(t, k)
    PROVE  CoInv'
  <1> USE DEF CoInv
  <1> DEFINE s == Result(k)
             at == [pc EXCEPT ![k] = "final"]
             a == Awaiter(s)
  <1>1. /\ Running(t, k) /\ pc[k] = "body" /\ ~ Locked(s)
        /\ UNCHANGED <<viaLoop, failing, awaited, callback, promises, futures, freedLocked>>
        /\ IF s \in callback
           THEN /\ value' = [value EXCEPT ![s] = "moved"]
                /\ stack' = [stack EXCEPT ![t] = stack[t] \o <<<<"set", s>>, <<"co", a>>>>]
                /\ pc' = [at EXCEPT ![a] = "resumed"]
           ELSE /\ value' = [value EXCEPT ![s] = "there"]
                /\ pc' = at
                /\ UNCHANGED stack
    BY DEF Return, SetValue, Awaiter
  <1>2. s \in States \ Leaf /\ s - Leaves = k /\ \A m \in Co : Result(m) = s => m = k
    BY StatesApart
  <1>3. MaySet(t, s)
    BY <1>1, <1>2, PartsOf DEF MaySet, Reached
  <1>4. at \in [Co -> Places] /\ at[k] = "final" /\ \A m \in Co \ {k} : at[m] = pc[m]
    BY DEF Types, Places
  <1> HIDE DEF s, at, a
  <1>5. CASE s \in callback
    <2>1. a \in Co /\ pc[a] = "waiting" /\ Awaited(a) = s
      BY <1>3, <1>5, PartsOf DEF Resumes, MaySet, a
    <2>2. \A m \in Co \ {a} : ~ (pc[m] = "waiting" /\ Awaited(m) = s)
      <3>1. InAwait(a)
        BY <2>1 DEF InAwait
      <3> QED
        BY <2>1, <3>1, InAwaitIs DEF InAwait
    <2>3. /\ pc' \in [Co -> Places] /\ pc'[a] = "resumed" /\ pc'[k] = "final"
          /\ \A m \in Co \ {a, k} : pc'[m] = pc[m]
      <3>1. pc' = [at EXCEPT ![a] = "resumed"] /\ a # k
        BY <1>1, <1>5, <2>1
      <3> QED
        BY <1>4, <2>1, <3>1 DEF Places
    <2>4. /\ value' \in [States -> {"none", "there", "moved"}]
          /\ value'[s] = "moved" /\ \A r \in States \ {s} : value'[r] = value[r]
      BY <1>1, <1>2, <1>5 DEF Types
    <2>5. SetsFor(s)
      <3>1. \A m \in Co : \/ pc'[m] = pc[m]
                          \/ pc[m] = "waiting" /\ pc'[m] = "resumed" /\ Awaited(m) = s
                          \/ pc[m] = "body" /\ pc'[m] = "final" /\ Result(m) = s
        BY <1>1, <2>1, <2>3 DEF s
      <3>2. /\ \A m \in Co : pc[m] = "waiting" /\ Awaited(m) = s => pc'[m] = "resumed"
            /\ \A m \in Co : Result(m) = s => pc'[m] = "final"
        BY <1>2, <2>2, <2>3
      <3> QED
        BY <1>1, <2>1, <2>3, <2>4, <3>1, <3>2 DEF SetsFor
    <2>6. ResumedOn(t, Len(stack[t]), <<"set", s>>, a)
      <3>1. stack' = [stack EXCEPT ![t] = stack[t] \o <<<<"set", s>>, <<"co", a>>>>]
        BY <1>1, <1>5
      <3>2. stack[t] \in Seq(FrameSet) /\ Len(stack[t]) <= Len(stack[t])
        BY DEF Types
      <3> QED
        BY <1>2, <2>1, <3>1, <3>2, ResumeStack
    <2> QED
      BY <1>2, <1>3, <2>1, <2>5, <2>6, SetResumesKeeps
  <1>6. CASE s \notin callback
    <2>1. \A m \in Co : ~ (pc[m] = "waiting" /\ Awaited(m) = s)
      BY <1>6, PartsOf DEF Kept
    <2>2. pc' = at /\ UNCHANGED stack
      BY <1>1, <1>6
    <2>3. /\ value' \in [States -> {"none", "there", "moved"}]
          /\ value'[s] = "there" /\ \A r \in States \ {s} : value'[r] = value[r]
      BY <1>1, <1>2, <1>6 DEF Types
    <2>4. SetsFor(s)
      <3>1. \A m \in Co : \/ pc'[m] = pc[m]
                          \/ pc[m] = "body" /\ pc'[m] = "final" /\ Result(m) = s
        BY <1>1, <1>4, <2>2 DEF s
      <3>2. \A m \in Co : Result(m) = s => pc'[m] = "final"
        BY <1>2, <1>4, <2>2
      <3> QED
        BY <1>1, <1>4, <2>1, <2>2, <2>3, <3>1, <3>2 DEF SetsFor
    <2> QED
      BY <1>2, <1>3, <2>1, <2>2, <2>4, SetQuietlyKeeps
  <1> QED
    BY <1>5, <1>6

LEMMA CompleteKeeps ==
    ASSUME CoInv, NEW s \in Leaf, Complete(s)
    PROVE  CoInv'
  <1> USE DEF CoInv
  <1>1. /\ s \in promises /\ value[s] = "none" /\ stack[s] = <<>>
        /\ viaLoop => \A t \in Threads : stack[t] = <<>>
        /\ UNCHANGED <<viaLoop, failing, awaited, callback, promises, futures, freedLocked>>
        /\ IF s \in callback
           THEN /\ value' = [value EXCEPT ![s] = "moved"]
                /\ stack' = [stack EXCEPT ![s] = stack[s] \o <<<<"set", s>>, <<"co", 1>>>>]
                /\ pc' = [pc EXCEPT ![1] = "resumed"]
           ELSE /\ value' = [value EXCEPT ![s] = "there"]
                /\ pc' = pc
                /\ UNCHANGED stack
    BY DEF Complete, SetValue
  <1>2. s \in States /\ s \in Threads /\ 1 \in Co /\ Awaiter(s) = 1 /\ \A m \in Co : Result(m) # s
    BY StatesApart DEF Awaiter
  <1>3. MaySet(s, s)
    BY <1>1 DEF MaySet
  <1>4. CASE s \in callback
    <2>1. pc[1] = "waiting" /\ Awaited(1) = s
      BY <1>1, <1>2, <1>4, PartsOf DEF Resumes
    <2>2. \A m \in Co \ {1} : ~ (pc[m] = "waiting" /\ Awaited(m) = s)
      <3>1. InAwait(1)
        BY <2>1 DEF InAwait
      <3> QED
        BY <1>2, <2>1, <3>1, InAwaitIs DEF InAwait
    <2>3. /\ pc' \in [Co -> Places] /\ pc'[1] = "resumed" /\ \A m \in Co \ {1} : pc'[m] = pc[m]
      BY <1>1, <1>2, <1>4 DEF Types, Places
    <2>4. /\ value' \in [States -> {"none", "there", "moved"}]
          /\ value'[s] = "moved" /\ \A r \in States \ {s} : value'[r] = value[r]
      BY <1>1, <1>2, <1>4 DEF Types
    <2>5. SetsFor(s)
      BY <1>1, <1>2, <2>1, <2>2, <2>3, <2>4 DEF SetsFor
    <2>6. ResumedOn(s, Len(stack[s]), <<"set", s>>, 1)
      <3>1. stack' = [stack EXCEPT ![s] = stack[s] \o <<<<"set", s>>, <<"co", 1>>>>]
        BY <1>1, <1>4
      <3>2. stack[s] \in Seq(FrameSet) /\ Len(stack[s]) <= Len(stack[s])
        BY <1>2 DEF Types
      <3> QED
        BY <1>2, <3>1, <3>2, ResumeStack
    <2> QED
      BY <1>2, <1>3, <2>1, <2>5, <2>6, SetResumesKeeps
  <1>5. CASE s \notin callback
    <2>1. \A m \in Co : ~ (pc[m] = "waiting" /\ Awaited(m) = s)
      BY <1>5, PartsOf DEF Kept
    <2>2. pc' = pc /\ UNCHANGED stack
      BY <1>1, <1>5
    <2>3. /\ value' \in [States -> {"none", "there", "moved"}]
          /\ value'[s] = "there" /\ \A r \in States \ {s} : value'[r] = value[r]
      BY <1>1, <1>2, <1>5 DEF Types
    <2>4. SetsFor(s)
      BY <1>1, <1>2, <2>1, <2>2, <2>3 DEF SetsFor, Types
    <2> QED
      BY <1>2, <1>3, <2>1, <2>2, <2>4, SetQuietlyKeeps
  <1> QED
    BY <1>4, <1>5

-----------------------------------------------------------------------------
(* The theorems.                                                            *)

LEMMA InitCoInv == Init => CoInv
  <1> SUFFICES ASSUME Init PROVE CoInv
    OBVIOUS
  <1>1. /\ viaLoop \in BOOLEAN /\ failing \in Co \cup {0} /\ freedLocked = {}
        /\ stack = [t \in Threads |-> <<>>]
        /\ \A k \in Co : pc[k] = "unborn" /\ awaited[k] = 0
        /\ \A s \in States : value[s] = "none"
        /\ callback = {} /\ promises = {} /\ futures = {}
    BY DEF Init
  <1>2. \A t \in Threads : stack[t] = <<>>
    BY <1>1
  <1>3. \A t \in Threads : \A i : \A f : ~ Has(t, i, f)
    BY <1>2 DEF Has
  <1>4. Types
    <2>1. stack \in [Threads -> Seq(FrameSet)]
      BY <1>1
    <2>2. pc \in [Co -> Places]
      BY DEF Init, Places
    <2> QED
      BY <1>1, <2>1, <2>2 DEF Init, Types
  <1>5. Progress
    <2>1. \A k \in Co : Reached(k)
      BY <1>1, StatesApart DEF Reached, InAwait
    <2>2. \A k \in Co : k > 1 => Calls(k)
      BY <1>1, StatesApart DEF Calls, InAwait
    <2>3. ASSUME NEW l \in Leaf
          PROVE  Begun(l)
      <3>1. ~ Started(l) /\ l \in States
        BY <1>1, StatesApart DEF Started, InAwait, Leaf
      <3> QED
        BY <1>1, <3>1 DEF Begun
    <2> QED
      BY <2>1, <2>2, <2>3 DEF Progress
  <1>6. Awaiting
    BY <1>1 DEF Awaiting, Kept, InAwait
  <1>7. OneFrame
    BY <1>1, <1>3 DEF OneFrame, Stands
  <1>8. Sections
    BY <1>3 DEF Sections
  <1>9. OneThread
    BY <1>1, <1>2, <1>3 DEF OneThread
  <1> QED
    BY <1>4, <1>5, <1>6, <1>7, <1>8, <1>9 DEF CoInv

LEMMA StutterCoInv == CoInv /\ UNCHANGED vars => CoInv'
  <1> SUFFICES ASSUME CoInv, UNCHANGED vars PROVE CoInv'
    OBVIOUS
  <1> USE DEF vars, CoInv
  <1>1. Types'
    BY DEF Types
  <1>2. \A l : Started(l)' <=> Started(l)
    BY DEF Started, InAwait
  <1>3. Progress'
    <2>1. \A m \in Co : Reached(m)'
      BY PartsOf, ReachedSame
    <2>2. \A m \in Co : m > 1 => Calls(m)'
      BY PartsOf, CallsSame
    <2>3. \A m \in Leaf : Begun(m)'
      BY <1>2, PartsOf, BegunSame
    <2> QED
      BY <2>1, <2>2, <2>3 DEF Progress
  <1>4. Awaiting'
    <2>1. \A m \in Co : Kept(m)'
      BY PartsOf, KeptSame
    <2>2. \A r \in callback : Resumes(r)'
      BY PartsOf, ResumesSame
    <2> QED
      BY <2>1, <2>2 DEF Awaiting
  <1>5. OneFrame'
    <2>1. \A m \in Co : (Stands(m)' <=> Stands(m)) /\ (Acts(m)' => Acts(m))
      BY DEF Stands, Acts
    <2> QED
      BY <2>1, SameOneFrame
  <1>6. Sections'
    BY SectionsHeld, SameSections DEF Held
  <1>7. OneThread'
    BY OneThreadSame DEF OneThread
  <1> QED
    BY <1>1, <1>3, <1>4, <1>5, <1>6, <1>7

LEMMA NextCoInv == CoInv /\ [Next]_vars => CoInv'
  <1> SUFFICES ASSUME CoInv, [Next]_vars PROVE CoInv'
    OBVIOUS
  <1>1. CASE Start
    BY <1>1, StartKeeps
  <1>2. CASE Detach
    BY <1>2, DetachKeeps
  <1>3. ASSUME NEW t \in Threads, EndSection(t)
        PROVE  CoInv'
    BY <1>3, EndSectionKeeps
  <1>4. ASSUME NEW t \in Threads, NEW k \in Co, Body(t, k)
        PROVE  CoInv'
    <2>1. CASE Call(t, k)
      <3>1. CASE k = 1
        BY <2>1, <3>1, CallLeafKeeps
      <3>2. CASE k # 1
        BY <2>1, <3>2, CallCoKeeps
      <3> QED
        BY <3>1, <3>2
    <2>2. CASE AwaitReady(t, k)
      BY <2>2, AwaitReadyKeeps
    <2>3. CASE AwaitSuspend(t, k)
      BY <2>3, ResumeAtOnceKeeps, SuspendKeeps
    <2>4. CASE AwaitResume(t, k)
      BY <2>4, AwaitResumeKeeps
    <2>5. CASE Return(t, k)
      BY <2>5, ReturnKeeps
    <2>6. CASE Throw(t, k)
      BY <2>6, ThrowKeeps
    <2>7. CASE Final(t, k)
      BY <2>7, FinalKeeps
    <2> QED
      BY <1>4, <2>1, <2>2, <2>3, <2>4, <2>5, <2>6, <2>7 DEF Body
  <1>5. ASSUME NEW l \in Leaf, Complete(l)
        PROVE  CoInv'
    BY <1>5, CompleteKeeps
  <1>6. ASSUME NEW l \in Leaf, Forget(l)
        PROVE  CoInv'
    BY <1>6, ForgetKeeps
  <1>7. CASE UNCHANGED vars
    BY <1>7, StutterCoInv
  <1> QED
    BY <1>1, <1>2, <1>3, <1>4, <1>5, <1>6, <1>7 DEF Next, Step

\* Where every coroutine, every state and every frame is, whatever is awaited,
\* on however many threads: CoroutinePromise, FutureAwaiter and the mutexes of
\* the shared states.
THEOREM CoroutineCorrect == Spec => []CoInv
  <1>1. Init => CoInv
    BY InitCoInv
  <1>2. CoInv /\ [Next]_vars => CoInv'
    BY NextCoInv
  <1> QED
    BY <1>1, <1>2, PTL DEF Spec

\* The state whose set_value() runs a callback has its promise until the
\* callback is back: future.hpp's set_value() touches no freed state.
THEOREM SettersKeepTheStateCorrect == Spec => []SettersKeepTheState
  <1>1. CoInv => SettersKeepTheState
    <2> SUFFICES ASSUME CoInv, NEW s \in States, NEW x \in Frames(<<"set", s>>)
                 PROVE  s \in promises
      BY DEF SettersKeepTheState
    <2>1. PICK t \in Threads : \E i \in Nat : Has(t, i, <<"set", s>>)
      BY FramesAre DEF CoInv
    <2> QED
      BY <2>1 DEF CoInv, Sections
  <1> QED
    BY <1>1, CoroutineCorrect, PTL

\* On the event loop of echo-serv-v3 no state is freed with its mutex held.
THEOREM LoopIsSafeCorrect == Spec => []LoopIsSafe
  <1>1. CoInv => LoopIsSafe
    BY DEF CoInv, OneThread, LoopIsSafe
  <1> QED
    BY <1>1, CoroutineCorrect, PTL

\* What a suspended coroutine waits for keeps its callback, and somebody will
\* set it unless the body that should have has thrown.
LEMMA WaitsForSomebody ==
    ASSUME CoInv, NEW k \in Co, pc[k] = "waiting"
    PROVE  LET s == Awaited(k) IN
           /\ s \in callback \cap futures
           /\ value[s] = "none"
           /\ s \in promises \/ (failing # 0 /\ s = Result(failing))
  <1> DEFINE s == Awaited(k)
  <1>1. InAwait(k)
    BY DEF InAwait
  <1>2. s \in callback \cap futures /\ value[s] = "none"
    BY <1>1, PartsOf DEF Kept
  <1>3. CASE k = 1
    <2>1. s \in Leaf /\ Started(s)
      BY <1>1, <1>3, InAwaitIs DEF Started
    <2> QED
      BY <1>2, <2>1, PartsOf DEF Begun
  <1>4. CASE k # 1
    <2>1. s = Result(k - 1) /\ k - 1 \in Co
      BY <1>1, <1>4, InAwaitIs
    <2>2. pc[k - 1] # "unborn"
      <3>1. k > 1
        BY <1>4 DEF Co
      <3> QED
        BY <1>1, <3>1, PartsOf DEF Calls
    <2>3. Result(k - 1) \in promises \/ failing = k - 1
      BY <1>2, <2>1, <2>2, PartsOf DEF Reached
    <2>4. k - 1 # 0
      BY <2>1 DEF Co
    <2> QED
      BY <1>2, <2>1, <2>3, <2>4
  <1> QED
    BY <1>3, <1>4

\* A coroutine has one frame, on one thread, or none; and one that waits is
\* bound to be resumed: FutureAwaiter::await_suspend().
THEOREM OneResumptionCorrect == Spec => []OneResumption
  <1>1. ASSUME CoInv, NEW k \in Co
        PROVE  Cardinality(Frames(<<"co", k>>)) =
                  IF pc[k] \in {"unborn", "waiting", "ended"} THEN 0 ELSE 1
    <2> DEFINE f == <<"co", k>>
    <2>1. CASE Stands(k)
      <3>1. PICK t \in Threads : \E i \in Nat : Has(t, i, f)
        BY <1>1, <2>1 DEF CoInv, OneFrame
      <3>2. PICK i \in Nat : Has(t, i, f)
        BY <3>1
      <3>3. \A u \in Threads : \A j \in Nat : Has(u, j, f) => u = t /\ j = i
        BY <1>1, <3>2 DEF CoInv, OneFrame
      <3> HIDE DEF f
      <3>4. Frames(f) = {<<t, i>>}
        <4>1. <<t, i>> \in Frames(f)
          BY <1>1, <3>2, FramesHas DEF CoInv
        <4>2. \A x \in Frames(f) : x = <<t, i>>
          BY <1>1, <3>3, FramesAre DEF CoInv
        <4> QED
          BY <4>1, <4>2
      <3>5. Cardinality(Frames(f)) = 1
        BY <3>4, FS_Singleton
      <3> QED
        BY <2>1, <3>5 DEF Stands, f
    <2>2. CASE ~ Stands(k)
      <3>1. \A t \in Threads : \A i \in Nat : ~ Has(t, i, f)
        BY <1>1, <2>2 DEF CoInv, OneFrame
      <3> HIDE DEF f
      <3>2. Frames(f) = {}
        BY <1>1, <3>1, FramesAre DEF CoInv
      <3>3. Cardinality(Frames(f)) = 0
        BY <3>2, FS_EmptySet
      <3> QED
        BY <2>2, <3>3 DEF Stands, f
    <2> QED
      BY <2>1, <2>2
  <1>2. CoInv => OneResumption
    BY <1>1, WaitsForSomebody DEF OneResumption
  <1> QED
    BY <1>2, CoroutineCorrect, PTL
=============================================================================
