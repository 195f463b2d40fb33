-------------------------- MODULE LogManagerProofs --------------------------
(***************************************************************************)
(* Proofs about LogManager, for any number of threads, calls and forks.    *)
(*                                                                         *)
(* What a thread still has to do is a sequence, so the invariant has two   *)
(* layers.  WellFormed says which steps may follow which, and Discipline   *)
(* that a mutex belongs to the thread whose remaining steps unlock it:     *)
(* both are about sequences only, and the first half of the module shows   *)
(* that every call and every step keeps them.  Singleton, References and   *)
(* Joining relate the seven steps that matter to the state they act on;    *)
(* for them a thread is the set of those steps it has before it, Marks(t). *)
(***************************************************************************)
EXTENDS LogManager, SequenceTheorems, TLAPS

Steps(q) == {q[i] : i \in 1 .. Len(q)}

(* A mutex is held at the beginning of q: q unlocks it before it locks it.   *)
Holds(q, m) == \E k \in 1 .. Len(q) : /\ q[k] = Unlock(m)
                                      /\ \A j \in 1 .. k : q[j] # Lock(m)

After(q, i) == SubSeq(q, i + 1, Len(q))

(* What may follow a step, in the terms of the code: a mutex is unlocked     *)
(* after it was locked; the steps of instance(), configure, reset_manager    *)
(* and of the walks over sinks_ are under the mutex they need; a Manager is  *)
(* not looked up where one is being destroyed; a join comes first, and a     *)
(* start only after a join.                                                  *)
OK(x, rest) ==
    /\ \A m \in Mutexes : x = Lock(m) => Holds(rest, m)
    /\ \A m \in Mutexes : x = Unlock(m) => ~Holds(rest, m)
    /\ x \in {Step("create"), Step("detach"), Step("push"), Step("release")} => Holds(rest, "init")
    /\ x \in {Step("clear"), Step("start"), <<"stop", "none">>, <<"stop", "restart">>}
         => Holds(rest, "sinks")
    /\ x = Step("instance") => /\ \A m \in Mutexes : ~Holds(rest, m)
                               /\ Step("detach") \notin Steps(rest)
    /\ x = Step("detach") => ~Holds(rest, "sinks")
    /\ x \in {Step("instance"), Step("create"), Step("detach"), Step("release"), Lock("init"), Unlock("init")}
         => Step("release") \notin Steps(rest)
    /\ Step("join") \notin Steps(rest) /\ <<"stop", "destroy">> \notin Steps(rest)
    /\ x # Step("join") => Step("start") \notin Steps(rest) /\ Step("gone") \notin Steps(rest)

WellFormed(q) == \A i \in 1 .. Len(q) : OK(q[i], After(q, i))

-----------------------------------------------------------------------------
(* The inductive invariant.                                                  *)

Types ==
    /\ todo \in [All -> Seq(STEPS)]
    /\ owner \in [Mutexes -> All \cup {"free", "orphan"}]
    /\ exists \in BOOLEAN /\ managers \in Nat
    /\ sinks \in Seq({"file", "cw"})
    /\ config \in {"plain", "cloud"} /\ app_holds \in BOOLEAN /\ cw_alive \in BOOLEAN
    /\ is_running \in BOOLEAN /\ worker \in {"loop", "flush", "done", "none", "lost"}
    /\ alive \in SUBSET All /\ forks \in 0 .. MaxForks /\ calls \in 0 .. MaxCalls
    /\ corrupt \in BOOLEAN

Has(t, x) == x \in Steps(todo[t])

(* A mutex belongs to the thread whose remaining steps unlock it.            *)
Discipline ==
    /\ \A t \in All : WellFormed(todo[t])
    /\ \A t \in All, m \in Mutexes : owner[m] = t <=> Holds(todo[t], m)
    /\ \A t \in All \ alive : todo[t] = <<>>

(* A Manager that manager_ no longer points to is being destroyed by the     *)
(* thread that holds manager_init_mutex_.                                    *)
Singleton ==
    /\ exists => managers = 1
    /\ \A t \in All : Has(t, Step("release")) => ~exists /\ managers = 1 /\ owner["init"] = t
    /\ ~exists /\ (\A t \in All : ~Has(t, Step("release"))) => managers = 0

Destroys(t) == Has(t, Step("gone")) \/ Has(t, <<"stop", "destroy">>)

(* The destructor runs once, and only when the last pointer is gone; a       *)
(* pointer that was passed to configure is not dropped meanwhile.            *)
References ==
    /\ IsHeld => cw_alive
    /\ \A t \in All : Destroys(t) => ~IsHeld
    /\ \A t, u \in All : Destroys(t) /\ Destroys(u) => t = u
    /\ \A t \in All : Has(t, <<"config", "cloud">>) => app_holds
    /\ \A t, u \in All : Has(t, <<"config", "cloud">>) => ~Has(u, Step("drop"))

Registered == Contains(sinks, "cw")

(* Whoever joins the worker either holds sinks_mutex_ while the sink is      *)
(* registered or destroys it, and nobody else starts or stops it meanwhile.  *)
Joining ==
    /\ is_running => worker \in {"loop", "lost"}
    /\ \A t \in All : Has(t, Step("start")) => ~is_running /\ Registered /\ owner["sinks"] = t
    /\ \A t \in All : Has(t, Step("gone")) => ~is_running
    /\ \A t \in All : Has(t, Step("join")) =>
          ~is_running /\ ((Registered /\ owner["sinks"] = t) \/ Has(t, Step("gone")))
    /\ ~is_running /\ worker \in {"loop", "flush", "done"} => \E t \in All : Has(t, Step("join"))

IInv == Types /\ Discipline /\ Singleton /\ References /\ Joining

-----------------------------------------------------------------------------
(* Sequences taken apart at their head.                                      *)

LEMMA ConsBasics ==
    ASSUME NEW S, NEW x \in S, NEW q \in Seq(S)
    PROVE  /\ <<x>> \o q \in Seq(S) /\ <<x>> \o q # <<>>
           /\ Len(<<x>> \o q) = Len(q) + 1 /\ Len(q) \in Nat
           /\ (<<x>> \o q)[1] = x
           /\ \A i \in 1 .. Len(q) : (<<x>> \o q)[i + 1] = q[i]
           /\ Head(<<x>> \o q) = x /\ Tail(<<x>> \o q) = q
<1> DEFINE r == <<x>> \o q
<1>1. /\ r \in Seq(S) /\ Len(r) = Len(q) + 1 /\ Len(q) \in Nat
      /\ r[1] = x /\ \A i \in 1 .. Len(q) : r[i + 1] = q[i]
  OBVIOUS
<1> HIDE DEF r
<1>2. r # <<>>
  BY <1>1
<1>3. Head(r) = x
  BY <1>1, <1>2
<1>4. Tail(r) = q
  <2>1. /\ Tail(r) \in Seq(S) /\ Len(Tail(r)) = Len(q)
        /\ \A i \in 1 .. Len(Tail(r)) : Tail(r)[i] = r[i + 1]
    BY <1>1, <1>2, HeadTailProperties
  <2>2. \A i \in 1 .. Len(Tail(r)) : Tail(r)[i] = q[i]
    BY <1>1, <2>1
  <2> QED
    BY <2>1, <2>2, SeqEqual
<1> QED
  BY <1>1, <1>2, <1>3, <1>4 DEF r

LEMMA Uncons ==
    ASSUME NEW S, NEW q \in Seq(S), q # <<>>
    PROVE  Head(q) \in S /\ Tail(q) \in Seq(S) /\ q = <<Head(q)>> \o Tail(q)
<1>1. Head(q) \in S /\ Tail(q) \in Seq(S)
  BY HeadTailProperties
<1>2. Head(q) = q[1] /\ Len(q) \in Nat \ {0}
  OBVIOUS
<1>3. /\ Len(Tail(q)) = Len(q) - 1
      /\ \A i \in 1 .. Len(Tail(q)) : Tail(q)[i] = q[i + 1]
  BY HeadTailProperties
<1> DEFINE r == <<Head(q)>> \o Tail(q)
<1>4. /\ r \in Seq(S) /\ Len(r) = Len(Tail(q)) + 1 /\ r[1] = Head(q)
      /\ \A i \in 1 .. Len(Tail(q)) : r[i + 1] = Tail(q)[i]
  BY <1>1, ConsBasics
<1> HIDE DEF r
<1>5. ASSUME NEW i \in 1 .. Len(q) PROVE q[i] = r[i]
  <2>1. i = 1 \/ (i - 1 \in 1 .. Len(Tail(q)) /\ (i - 1) + 1 = i)
    BY <1>2, <1>3
  <2>2. CASE i - 1 \in 1 .. Len(Tail(q)) /\ (i - 1) + 1 = i
    BY <1>3, <1>4, <2>2
  <2> QED
    BY <1>2, <1>4, <2>1, <2>2
<1>6. q = r
  BY <1>2, <1>3, <1>4, <1>5, SeqEqual
<1> QED
  BY <1>1, <1>6 DEF r

LEMMA ConsSteps ==
    ASSUME NEW S, NEW x \in S, NEW q \in Seq(S)
    PROVE  Steps(<<x>> \o q) = {x} \cup Steps(q)
<1> DEFINE r == <<x>> \o q
<1>1. /\ Len(r) = Len(q) + 1 /\ Len(q) \in Nat /\ r[1] = x
      /\ \A i \in 1 .. Len(q) : r[i + 1] = q[i]
  BY ConsBasics
<1> HIDE DEF r
<1>2. Steps(r) \subseteq {x} \cup Steps(q)
  <2> SUFFICES ASSUME NEW i \in 1 .. Len(r) PROVE r[i] \in {x} \cup Steps(q)
    BY DEF Steps
  <2>1. i = 1 \/ (i - 1 \in 1 .. Len(q) /\ (i - 1) + 1 = i)
    BY <1>1
  <2> QED
    BY <1>1, <2>1 DEF Steps
<1>3. {x} \cup Steps(q) \subseteq Steps(r)
  BY <1>1 DEF Steps
<1> QED
  BY <1>2, <1>3 DEF r

LEMMA ConsHolds ==
    ASSUME NEW S, NEW x \in S, NEW q \in Seq(S), NEW m
    PROVE  /\ x = Unlock(m) => Holds(<<x>> \o q, m)
           /\ x = Lock(m) => ~Holds(<<x>> \o q, m)
           /\ x # Lock(m) /\ x # Unlock(m) => (Holds(<<x>> \o q, m) <=> Holds(q, m))
<1> DEFINE r == <<x>> \o q
<1>1. /\ Len(r) = Len(q) + 1 /\ Len(q) \in Nat /\ r[1] = x
      /\ \A i \in 1 .. Len(q) : r[i + 1] = q[i]
  BY ConsBasics
<1> HIDE DEF r
<1>2. Lock(m) # Unlock(m)
  BY DEF Lock, Unlock
<1>3. ASSUME x = Unlock(m) PROVE Holds(r, m)
  BY <1>1, <1>2, <1>3 DEF Holds
<1>4. ASSUME x = Lock(m) PROVE ~Holds(r, m)
  BY <1>1, <1>4 DEF Holds
<1>5. ASSUME x # Lock(m), x # Unlock(m), Holds(r, m) PROVE Holds(q, m)
  <2>1. PICK k \in 1 .. Len(r) : r[k] = Unlock(m) /\ \A j \in 1 .. k : r[j] # Lock(m)
    BY <1>5 DEF Holds
  <2>2. k - 1 \in 1 .. Len(q) /\ q[k - 1] = Unlock(m)
    <3>1. k # 1
      BY <1>1, <1>5, <2>1
    <3>2. k - 1 \in 1 .. Len(q) /\ (k - 1) + 1 = k
      BY <1>1, <3>1
    <3> QED
      BY <1>1, <2>1, <3>2
  <2>3. \A j \in 1 .. k - 1 : q[j] # Lock(m)
    <3> SUFFICES ASSUME NEW j \in 1 .. k - 1 PROVE q[j] # Lock(m)
      OBVIOUS
    <3>1. j \in 1 .. Len(q) /\ j + 1 \in 1 .. k
      BY <1>1, <2>2
    <3> QED
      BY <1>1, <2>1, <3>1
  <2> QED
    BY <2>2, <2>3 DEF Holds
<1>6. ASSUME x # Lock(m), x # Unlock(m), Holds(q, m) PROVE Holds(r, m)
  <2>1. PICK k \in 1 .. Len(q) : q[k] = Unlock(m) /\ \A j \in 1 .. k : q[j] # Lock(m)
    BY <1>6 DEF Holds
  <2>2. k + 1 \in 1 .. Len(r) /\ r[k + 1] = Unlock(m)
    BY <1>1, <2>1
  <2>3. \A j \in 1 .. k + 1 : r[j] # Lock(m)
    <3> SUFFICES ASSUME NEW j \in 1 .. k + 1 PROVE r[j] # Lock(m)
      OBVIOUS
    <3>1. j = 1 \/ (j - 1 \in 1 .. k /\ j - 1 \in 1 .. Len(q) /\ (j - 1) + 1 = j)
      OBVIOUS
    <3> QED
      BY <1>1, <1>6, <2>1, <3>1
  <2> QED
    BY <2>2, <2>3 DEF Holds
<1> QED
  BY <1>3, <1>4, <1>5, <1>6 DEF r

LEMMA EmptyFacts ==
    /\ \A S : <<>> \in Seq(S)
    /\ Steps(<<>>) = {} /\ \A m : ~Holds(<<>>, m)
  BY DEF Steps, Holds

LEMMA ConsWellFormed ==
    ASSUME NEW S, NEW x \in S, NEW q \in Seq(S)
    PROVE  WellFormed(<<x>> \o q) <=> OK(x, q) /\ WellFormed(q)
<1> DEFINE r == <<x>> \o q
<1>1. /\ r \in Seq(S) /\ Len(r) = Len(q) + 1 /\ Len(q) \in Nat /\ r[1] = x
      /\ \A i \in 1 .. Len(q) : r[i + 1] = q[i]
  BY ConsBasics
<1> HIDE DEF r
<1>2. ASSUME NEW i \in 0 .. Len(q)
      PROVE  /\ After(q, i) \in Seq(S) /\ After(r, i + 1) \in Seq(S)
             /\ After(r, i + 1) = After(q, i)
  <2>1. /\ \A j \in i + 1 .. Len(q) : q[j] \in S
        /\ \A j \in i + 2 .. Len(r) : r[j] \in S
    BY <1>1, ElementOfSeq
  <2>2. /\ After(q, i) \in Seq(S)
        /\ Len(After(q, i)) = IF i + 1 <= Len(q) THEN Len(q) - (i + 1) + 1 ELSE 0
        /\ \A j \in 1 .. Len(q) - (i + 1) + 1 : After(q, i)[j] = q[(i + 1) + j - 1]
    BY <1>1, <2>1, SubSeqProperties DEF After
  <2>3. /\ After(r, i + 1) \in Seq(S)
        /\ Len(After(r, i + 1)) = IF i + 2 <= Len(r) THEN Len(r) - (i + 2) + 1 ELSE 0
        /\ \A j \in 1 .. Len(r) - (i + 2) + 1 : After(r, i + 1)[j] = r[(i + 2) + j - 1]
    <3>1. i + 2 \in Int /\ Len(r) \in Int /\ (i + 1) + 1 = i + 2
      BY <1>1
    <3>2. /\ SubSeq(r, i + 2, Len(r)) \in Seq(S)
          /\ Len(SubSeq(r, i + 2, Len(r))) = IF i + 2 <= Len(r) THEN Len(r) - (i + 2) + 1 ELSE 0
          /\ \A j \in 1 .. Len(r) - (i + 2) + 1 : SubSeq(r, i + 2, Len(r))[j] = r[(i + 2) + j - 1]
      BY <2>1, <3>1, SubSeqProperties
    <3> QED
      BY <3>1, <3>2 DEF After
  <2>4. Len(After(q, i)) = Len(q) - i /\ Len(After(r, i + 1)) = Len(q) - i
    BY <1>1, <2>2, <2>3
  <2>5. ASSUME NEW j \in 1 .. Len(q) - i PROVE After(r, i + 1)[j] = After(q, i)[j]
    <3>1. /\ i + j \in 1 .. Len(q) /\ (i + j) + 1 = (i + 2) + j - 1 /\ i + j = (i + 1) + j - 1
          /\ j \in 1 .. Len(q) - (i + 1) + 1 /\ j \in 1 .. Len(r) - (i + 2) + 1
      BY <1>1
    <3> QED
      BY <1>1, <2>2, <2>3, <3>1
  <2> QED
    BY <2>2, <2>3, <2>4, <2>5, SeqEqual
<1>3. After(q, 0) = q
  BY SubSeqFull DEF After
<1>4. After(r, 1) = q
  BY <1>1, <1>2, <1>3
<1>5. ASSUME WellFormed(r) PROVE OK(x, q) /\ WellFormed(q)
  <2>1. OK(r[1], After(r, 1))
    BY <1>1, <1>5 DEF WellFormed
  <2>2. ASSUME NEW i \in 1 .. Len(q) PROVE OK(q[i], After(q, i))
    <3>1. i + 1 \in 1 .. Len(r) /\ i \in 0 .. Len(q)
      BY <1>1
    <3> QED
      BY <1>1, <1>2, <1>5, <3>1 DEF WellFormed
  <2> QED
    BY <1>1, <1>4, <2>1, <2>2 DEF WellFormed
<1>6. ASSUME OK(x, q), WellFormed(q) PROVE WellFormed(r)
  <2> SUFFICES ASSUME NEW i \in 1 .. Len(r) PROVE OK(r[i], After(r, i))
    BY DEF WellFormed
  <2>1. i = 1 \/ (i - 1 \in 1 .. Len(q) /\ i - 1 \in 0 .. Len(q) /\ (i - 1) + 1 = i)
    BY <1>1
  <2>2. CASE i = 1
    BY <1>1, <1>4, <1>6, <2>2
  <2>3. CASE i - 1 \in 1 .. Len(q) /\ i - 1 \in 0 .. Len(q) /\ (i - 1) + 1 = i
    <3>1. r[i] = q[i - 1]
      BY <1>1, <2>3
    <3>2. After(r, i) = After(q, i - 1)
      BY <1>2, <2>3
    <3> QED
      BY <1>6, <2>3, <3>1, <3>2 DEF WellFormed
  <2> QED
    BY <2>1, <2>2, <2>3
<1> QED
  BY <1>5, <1>6 DEF r

LEMMA StepsAreTyped ==
    /\ \A op \in Ops : Step(op) \in STEPS
    /\ \A m \in Mutexes : Lock(m) \in STEPS /\ Unlock(m) \in STEPS
    /\ \A p \in Purposes : <<"stop", p>> \in STEPS
    /\ \A c \in {"plain", "cloud"} : <<"config", c>> \in STEPS
  BY DEF STEPS

LEMMA ConsFacts ==
    ASSUME NEW x \in STEPS, NEW q \in Seq(STEPS)
    PROVE  /\ <<x>> \o q \in Seq(STEPS)
           /\ Steps(<<x>> \o q) = {x} \cup Steps(q)
           /\ \A m \in Mutexes :
                /\ x = Unlock(m) => Holds(<<x>> \o q, m)
                /\ x = Lock(m) => ~Holds(<<x>> \o q, m)
                /\ x # Lock(m) /\ x # Unlock(m) => (Holds(<<x>> \o q, m) <=> Holds(q, m))
           /\ OK(x, q) /\ WellFormed(q) => WellFormed(<<x>> \o q)
<1>1. <<x>> \o q \in Seq(STEPS)
  BY ConsBasics
<1>2. Steps(<<x>> \o q) = {x} \cup Steps(q)
  BY ConsSteps
<1>3. \A m \in Mutexes :
                /\ x = Unlock(m) => Holds(<<x>> \o q, m)
                /\ x = Lock(m) => ~Holds(<<x>> \o q, m)
                /\ x # Lock(m) /\ x # Unlock(m) => (Holds(<<x>> \o q, m) <=> Holds(q, m))
  BY ConsHolds
<1>4. OK(x, q) /\ WellFormed(q) => WellFormed(<<x>> \o q)
  BY ConsWellFormed
<1> QED
  BY <1>1, <1>2, <1>3, <1>4

-----------------------------------------------------------------------------
(* The calls are well-formed.                                                *)

(* The steps the invariant follows.                                          *)
Special == {Step("release"), Step("join"), Step("start"), Step("gone"), <<"stop", "destroy">>,
            <<"config", "cloud">>, Step("drop")}

Urgent == {Step("join"), Step("start"), Step("gone"), <<"stop", "destroy">>}

Critical(m) == CASE m = "init"  -> {Step("create"), Step("detach"), Step("push")}
                 [] m = "ctx"   -> {Step("snapshot")}
                 [] m = "sinks" -> {Step("dump"), Step("clear"), <<"stop", "none">>, <<"stop", "restart">>}

Calm(q) == q \in Seq(STEPS) /\ WellFormed(q) /\ Steps(q) \cap Urgent = {}

LEMMA EmptyIsCalm == Calm(<<>>)
  BY EmptyFacts DEF Calm, WellFormed

LEMMA ConsCalm ==
    ASSUME NEW x \in STEPS, NEW q, Calm(q), x \notin Urgent, OK(x, q)
    PROVE  Calm(<<x>> \o q)
  BY ConsFacts DEF Calm

(* A step in a critical section.                                             *)
LEMMA Section ==
    ASSUME NEW m \in Mutexes, NEW x \in Critical(m), NEW q, Calm(q), ~Holds(q, m),
           m = "init" => Step("release") \notin Steps(q),
           x = Step("detach") => ~Holds(q, "sinks")
    PROVE  /\ Within(m, <<x>>) \o q = <<Lock(m)>> \o (<<x>> \o (<<Unlock(m)>> \o q))
           /\ Calm(Within(m, <<x>>) \o q)
           /\ Steps(Within(m, <<x>>) \o q) = Steps(q) \cup {Lock(m), x, Unlock(m)}
           /\ \A n \in Mutexes : Holds(Within(m, <<x>>) \o q, n) <=> Holds(q, n)
<1> DEFINE a == <<Unlock(m)>> \o q
           b == <<x>> \o a
           c == <<Lock(m)>> \o b
<1>0. x \in {Step("create"), Step("detach"), Step("push"), Step("snapshot"), Step("dump"),
            Step("clear"), <<"stop", "none">>, <<"stop", "restart">>}
  BY DEF Critical, Mutexes
<1>1. /\ x \in STEPS /\ Lock(m) \in STEPS /\ Unlock(m) \in STEPS /\ q \in Seq(STEPS)
      /\ x \notin Urgent /\ x # Step("instance") /\ x # Step("release")
      /\ \A n : x # Lock(n) /\ x # Unlock(n)
  <2>1. x \in STEPS
    BY <1>0, StepsAreTyped DEF Ops, Purposes
  <2>2. x \notin Urgent /\ x # Step("instance") /\ x # Step("release")
    BY <1>0 DEF Urgent, Step
  <2>3. \A n : x # Lock(n) /\ x # Unlock(n)
    BY <1>0 DEF Step, Lock, Unlock
  <2> QED
    BY <2>1, <2>2, <2>3, StepsAreTyped DEF Calm
<1>2. /\ Lock(m) \notin Urgent /\ Unlock(m) \notin Urgent
      /\ \A n, k : Lock(n) # Unlock(k)
      /\ \A n : Lock(n) = Lock(m) => n = m
      /\ \A n : Unlock(n) = Unlock(m) => n = m
  BY DEF Urgent, Step, Lock, Unlock
<1>3. /\ a \in Seq(STEPS) /\ Steps(a) = {Unlock(m)} \cup Steps(q) /\ Holds(a, m)
      /\ \A n \in Mutexes : n # m => (Holds(a, n) <=> Holds(q, n))
  BY <1>1, <1>2, ConsFacts
<1>4. OK(Unlock(m), q)
  BY <1>1, <1>2 DEF OK, Calm, Urgent, Step, Lock, Unlock
<1>5. Calm(a)
  BY <1>1, <1>2, <1>4, ConsCalm
<1>6. Holds(b, m) /\ \A n \in Mutexes : Holds(b, n) <=> Holds(a, n)
  BY <1>1, <1>3, ConsFacts
<1>7. OK(x, a)
  <2>1. x \in {Step("create"), Step("detach"), Step("push")} => m = "init"
    BY DEF Critical, Mutexes, Step
  <2>2. x \in {Step("clear"), <<"stop", "none">>, <<"stop", "restart">>} => m = "sinks"
    BY DEF Critical, Mutexes, Step
  <2>3. x # Step("start") /\ "sinks" \in Mutexes /\ "sinks" # "init"
    BY <1>1 DEF Urgent, Mutexes
  <2>4. Unlock(m) # Step("release")
    BY DEF Unlock, Step
  <2>5. Steps(a) \cap Urgent = {}
    BY <1>5 DEF Calm
  <2> HIDE DEF a
  <2>6. /\ \A n \in Mutexes : x = Lock(n) => Holds(a, n)
        /\ \A n \in Mutexes : x = Unlock(n) => ~Holds(a, n)
    BY <1>1
  <2>7. x \in {Step("create"), Step("detach"), Step("push"), Step("release")} => Holds(a, "init")
    BY <1>1, <1>3, <2>1
  <2>8. x \in {Step("clear"), Step("start"), <<"stop", "none">>, <<"stop", "restart">>}
         => Holds(a, "sinks")
    BY <1>3, <2>2, <2>3
  <2>9. x = Step("detach") => ~Holds(a, "sinks")
    BY <1>3, <2>1, <2>3
  <2>10. x \in {Step("instance"), Step("create"), Step("detach"), Step("release"), Lock("init"), Unlock("init")}
         => Step("release") \notin Steps(a)
    BY <1>1, <1>3, <2>1, <2>4
  <2> QED
    BY <1>1, <2>5, <2>6, <2>7, <2>8, <2>9, <2>10 DEF OK, Urgent
<1>8. Calm(b) /\ b \in Seq(STEPS) /\ Steps(b) = {x} \cup Steps(a)
  BY <1>1, <1>5, <1>7, ConsCalm, ConsFacts DEF Calm
<1>9. OK(Lock(m), b)
  <2>1. Steps(b) \cap Urgent = {}
    BY <1>8 DEF Calm
  <2>2. m = "init" => Step("release") \notin Steps(b)
    BY <1>1, <1>3, <1>8 DEF Step, Unlock
  <2> HIDE DEF b
  <2> QED
    BY <1>2, <1>6, <2>1, <2>2 DEF OK, Urgent, Lock, Unlock, Step
<1>10. Calm(c) /\ c \in Seq(STEPS) /\ Steps(c) = {Lock(m)} \cup Steps(b)
  <2> HIDE DEF b
  <2>1. Calm(c)
    BY <1>1, <1>2, <1>8, <1>9, ConsCalm
  <2> QED
    BY <1>1, <1>8, <2>1, ConsFacts
<1>11. ~Holds(c, m) /\ \A n \in Mutexes : n # m => (Holds(c, n) <=> Holds(b, n))
  <2> HIDE DEF b
  <2>1. /\ ~Holds(c, m)
        /\ \A n \in Mutexes : Lock(m) # Lock(n) /\ Lock(m) # Unlock(n)
                                 => (Holds(c, n) <=> Holds(b, n))
    BY <1>1, <1>8, ConsFacts
  <2> QED
    BY <1>2, <2>1
<1>12. Within(m, <<x>>) \o q = c
  <2>1. <<Lock(m)>> \in Seq(STEPS) /\ <<x>> \in Seq(STEPS) /\ <<Unlock(m)>> \in Seq(STEPS)
    BY <1>1
  <2>2. <<x>> \o <<Unlock(m)>> \in Seq(STEPS) /\ <<Lock(m)>> \o <<x>> \in Seq(STEPS)
    BY <2>1, ConcatProperties
  <2>3. Within(m, <<x>>) = (<<Lock(m)>> \o <<x>>) \o <<Unlock(m)>>
    BY DEF Within
  <2>4. ((<<Lock(m)>> \o <<x>>) \o <<Unlock(m)>>) \o q = (<<Lock(m)>> \o <<x>>) \o a
    BY <1>1, <2>1, <2>2, ConcatAssociative
  <2>5. (<<Lock(m)>> \o <<x>>) \o a = c
    BY <1>3, <2>1, ConcatAssociative
  <2> QED
    BY <2>3, <2>4, <2>5
<1> HIDE DEF a, b, c
<1>13. Steps(c) = Steps(q) \cup {Lock(m), x, Unlock(m)}
  BY <1>3, <1>8, <1>10
<1>14. \A n \in Mutexes : Holds(c, n) <=> Holds(q, n)
  BY <1>3, <1>6, <1>11
<1> QED
  BY <1>10, <1>12, <1>13, <1>14 DEF a, b, c

(* A sequence that starts with no mutex held; of the special steps only      *)
(* those of S.                                                               *)
CallOf(q, S) == /\ Calm(q) /\ \A m \in Mutexes : ~Holds(q, m)
                /\ Steps(q) \cap Special \subseteq S

LEMMA EmptyCall == \A S : CallOf(<<>>, S)
  BY EmptyIsCalm, EmptyFacts DEF CallOf

LEMMA SectionCall ==
    ASSUME NEW m \in Mutexes, NEW x \in Critical(m), NEW S, NEW q, CallOf(q, S),
           m = "init" => Step("release") \notin Steps(q)
    PROVE  /\ CallOf(Within(m, <<x>>) \o q, S)
           /\ Steps(Within(m, <<x>>) \o q) = Steps(q) \cup {Lock(m), x, Unlock(m)}
           /\ Within(m, <<x>>) \in Seq(STEPS) /\ Within(m, <<x>>) \o <<>> = Within(m, <<x>>)
<1>1. /\ Calm(Within(m, <<x>>) \o q)
      /\ Steps(Within(m, <<x>>) \o q) = Steps(q) \cup {Lock(m), x, Unlock(m)}
      /\ \A n \in Mutexes : Holds(Within(m, <<x>>) \o q, n) <=> Holds(q, n)
  <2>1. Calm(q) /\ ~Holds(q, m) /\ ~Holds(q, "sinks")
    BY DEF CallOf, Mutexes
  <2>2. /\ Calm(Within(m, <<x>>) \o q)
        /\ Steps(Within(m, <<x>>) \o q) = Steps(q) \cup {Lock(m), x, Unlock(m)}
        /\ \A n \in Mutexes : Holds(Within(m, <<x>>) \o q, n) <=> Holds(q, n)
    BY <2>1, Section
  <2> QED
    BY <2>2
<1>2. {Lock(m), x, Unlock(m)} \cap Special = {}
  <2>1. x \in {Step("create"), Step("detach"), Step("push"), Step("snapshot"), Step("dump"),
               Step("clear"), <<"stop", "none">>, <<"stop", "restart">>}
    BY DEF Critical, Mutexes
  <2>2. x \notin Special
    BY <2>1 DEF Special, Step
  <2>3. Lock(m) \notin Special /\ Unlock(m) \notin Special
    BY DEF Special, Step, Lock, Unlock
  <2> QED
    BY <2>2, <2>3
<1>3. Within(m, <<x>>) \in Seq(STEPS) /\ Within(m, <<x>>) \o <<>> = Within(m, <<x>>)
  <2>1. Lock(m) \in STEPS /\ Unlock(m) \in STEPS /\ x \in STEPS
    <3>1. x \in {Step("create"), Step("detach"), Step("push"), Step("snapshot"), Step("dump"),
                 Step("clear"), <<"stop", "none">>, <<"stop", "restart">>}
      BY DEF Critical, Mutexes
    <3> QED
      BY <3>1, StepsAreTyped DEF Ops, Purposes
  <2>2. <<Lock(m)>> \in Seq(STEPS) /\ <<x>> \in Seq(STEPS) /\ <<Unlock(m)>> \in Seq(STEPS)
    BY <2>1
  <2>3. Within(m, <<x>>) \in Seq(STEPS)
    BY <2>2, ConcatProperties DEF Within
  <2> QED
    BY <2>3, ConcatEmptySeq
<1> QED
  BY <1>1, <1>2, <1>3 DEF CallOf

LEMMA LoneSection ==
    ASSUME NEW m \in Mutexes, NEW x \in Critical(m)
    PROVE  /\ CallOf(Within(m, <<x>>), {})
           /\ Steps(Within(m, <<x>>)) = {Lock(m), x, Unlock(m)}
<1>1. CallOf(<<>>, {}) /\ Steps(<<>>) = {}
  BY EmptyCall, EmptyFacts
<1>2. /\ CallOf(Within(m, <<x>>) \o <<>>, {})
      /\ Steps(Within(m, <<x>>) \o <<>>) = Steps(<<>>) \cup {Lock(m), x, Unlock(m)}
      /\ Within(m, <<x>>) \o <<>> = Within(m, <<x>>)
  BY <1>1, SectionCall
<1> QED
  BY <1>1, <1>2

(* instance() comes first, and where no Manager is being destroyed.          *)
LEMMA InstanceCall ==
    ASSUME NEW S, NEW q, CallOf(q, S), Step("detach") \notin Steps(q),
           Step("release") \notin Steps(q)
    PROVE  CallOf(Instance \o q, S)
<1> DEFINE x == Step("instance")
<1>1. /\ x \in STEPS /\ x \notin Urgent /\ x \notin Special
      /\ \A m : x # Lock(m) /\ x # Unlock(m)
      /\ x \notin {Step("create"), Step("detach"), Step("push"), Step("release"), Step("clear"),
                   Step("start"), Step("join"), <<"stop", "none">>, <<"stop", "restart">>}
  BY StepsAreTyped DEF Ops, Urgent, Special, Step, Lock, Unlock
<1>2. OK(x, q)
  BY <1>1 DEF OK, CallOf, Calm, Urgent
<1> HIDE DEF x
<1>3. Calm(<<x>> \o q)
  BY <1>1, <1>2, ConsCalm DEF CallOf
<1>4. /\ \A m \in Mutexes : ~Holds(<<x>> \o q, m)
      /\ Steps(<<x>> \o q) = {x} \cup Steps(q)
  BY <1>1, ConsFacts DEF CallOf, Calm
<1>5. CallOf(<<x>> \o q, S)
  BY <1>1, <1>3, <1>4 DEF CallOf
<1> QED
  BY <1>5 DEF x, Instance

LEMMA DumpCall == CallOf(Dump, {}) /\ CallOf(Instance \o Dump, {})
<1>1. /\ "ctx" \in Mutexes /\ Step("snapshot") \in Critical("ctx")
      /\ "sinks" \in Mutexes /\ Step("dump") \in Critical("sinks")
  BY DEF Mutexes, Critical
<1> DEFINE q == Within("sinks", <<Step("dump")>>)
<1>2. CallOf(q, {}) /\ Steps(q) = {Lock("sinks"), Step("dump"), Unlock("sinks")}
  BY <1>1, LoneSection
<1> HIDE DEF q
<1>4. /\ CallOf(Within("ctx", <<Step("snapshot")>>) \o q, {})
      /\ Steps(Within("ctx", <<Step("snapshot")>>) \o q)
           = Steps(q) \cup {Lock("ctx"), Step("snapshot"), Unlock("ctx")}
  <2>1. Step("release") \notin Steps(q)
    BY <1>2 DEF Step, Lock, Unlock
  <2> QED
    BY <1>1, <1>2, <2>1, SectionCall
<1>5. Dump = Within("ctx", <<Step("snapshot")>>) \o q
  BY DEF Dump, q
<1>6. CallOf(Dump, {}) /\ Step("detach") \notin Steps(Dump) /\ Step("release") \notin Steps(Dump)
  BY <1>2, <1>4, <1>5 DEF Step, Lock, Unlock
<1> QED
  BY <1>6, InstanceCall

LEMMA StopCall ==
    /\ CallOf(Stop, {}) /\ CallOf(Instance \o Stop, {})
    /\ CallOf(ClearSinks, {}) /\ Steps(ClearSinks) = {Lock("sinks"), Step("clear"), Unlock("sinks")}
    /\ CallOf(Instance \o RestartSinks, {})
<1>1. "sinks" \in Mutexes
  BY DEF Mutexes
<1>2. ASSUME NEW x \in {Step("stop"), Step("clear"), <<"stop", "restart">>}
      PROVE  LET q == Within("sinks", <<x>>)
             IN  CallOf(q, {}) /\ Steps(q) = {Lock("sinks"), x, Unlock("sinks")}
  <2>1. x \in Critical("sinks")
    BY DEF Critical, Step
  <2> QED
    BY <1>1, <2>1, LoneSection
<1>3. CallOf(Stop, {}) /\ Steps(Stop) = {Lock("sinks"), Step("stop"), Unlock("sinks")}
  BY <1>2 DEF Stop
<1>4. CallOf(ClearSinks, {}) /\ Steps(ClearSinks) = {Lock("sinks"), Step("clear"), Unlock("sinks")}
  BY <1>2 DEF ClearSinks
<1>5. CallOf(RestartSinks, {})
      /\ Steps(RestartSinks) = {Lock("sinks"), <<"stop", "restart">>, Unlock("sinks")}
  BY <1>2 DEF RestartSinks
<1>6. CallOf(Instance \o Stop, {})
  <2>1. Step("detach") \notin Steps(Stop) /\ Step("release") \notin Steps(Stop)
    BY <1>3 DEF Step, Lock, Unlock
  <2> QED
    BY <1>3, <2>1, InstanceCall
<1>7. CallOf(Instance \o RestartSinks, {})
  <2>1. Step("detach") \notin Steps(RestartSinks) /\ Step("release") \notin Steps(RestartSinks)
    BY <1>5 DEF Step, Lock, Unlock
  <2> QED
    BY <1>5, <2>1, InstanceCall
<1> QED
  BY <1>3, <1>4, <1>6, <1>7

(* Terminate, before whatever is left to do.                                 *)
LEMMA TerminateFirst ==
    ASSUME NEW q, Calm(q), ~Holds(q, "sinks")
    PROVE  /\ Calm(Terminate \o q)
           /\ \A n \in Mutexes : Holds(Terminate \o q, n) <=> Holds(q, n)
           /\ Steps(Terminate \o q) = Steps(q) \cup
                {Lock("sinks"), Step("clear"), <<"stop", "none">>, Unlock("sinks")}
<1>1. /\ "sinks" \in Mutexes /\ "sinks" # "init" /\ Step("clear") \in Critical("sinks")
      /\ Step("stop") \in Critical("sinks") /\ Step("stop") = <<"stop", "none">>
      /\ Step("stop") # Step("detach") /\ Step("clear") # Step("detach")
  BY DEF Mutexes, Critical, Step
<1>2. /\ Calm(ClearSinks \o q)
      /\ \A n \in Mutexes : Holds(ClearSinks \o q, n) <=> Holds(q, n)
      /\ Steps(ClearSinks \o q) = Steps(q) \cup {Lock("sinks"), Step("clear"), Unlock("sinks")}
  BY <1>1, Section DEF ClearSinks
<1>3. ~Holds(ClearSinks \o q, "sinks")
  BY <1>1, <1>2
<1>4. /\ Calm(Stop \o (ClearSinks \o q))
      /\ \A n \in Mutexes : Holds(Stop \o (ClearSinks \o q), n) <=> Holds(q, n)
      /\ Steps(Stop \o (ClearSinks \o q))
           = Steps(ClearSinks \o q) \cup {Lock("sinks"), Step("stop"), Unlock("sinks")}
  BY <1>1, <1>2, <1>3, Section DEF Stop
<1>5. Terminate \o q = Stop \o (ClearSinks \o q)
  <2>1. Stop \in Seq(STEPS) /\ ClearSinks \in Seq(STEPS) /\ q \in Seq(STEPS)
    BY StopCall DEF CallOf, Calm
  <2> QED
    BY <2>1, ConcatAssociative DEF Terminate
<1> QED
  BY <1>1, <1>2, <1>4, <1>5

LEMMA TerminateCall == CallOf(Instance \o Terminate, {})
<1>1. Calm(<<>>) /\ Steps(<<>>) = {} /\ \A m : ~Holds(<<>>, m)
  BY EmptyIsCalm, EmptyFacts
<1>2. Terminate \o <<>> = Terminate
  <2>1. Terminate \in Seq(STEPS)
    BY StopCall, ConcatProperties DEF CallOf, Calm, Terminate
  <2> QED
    BY <2>1, ConcatEmptySeq
<1>3. /\ Calm(Terminate)
      /\ \A n \in Mutexes : ~Holds(Terminate, n)
      /\ Steps(Terminate) = {Lock("sinks"), Step("clear"), <<"stop", "none">>, Unlock("sinks")}
  <2>1. /\ Calm(Terminate \o <<>>)
        /\ \A n \in Mutexes : Holds(Terminate \o <<>>, n) <=> Holds(<<>>, n)
        /\ Steps(Terminate \o <<>>) = Steps(<<>>) \cup
                {Lock("sinks"), Step("clear"), <<"stop", "none">>, Unlock("sinks")}
    BY <1>1, TerminateFirst
  <2> QED
    BY <1>1, <1>2, <2>1
<1>4. /\ CallOf(Terminate, {}) /\ Step("detach") \notin Steps(Terminate)
      /\ Step("release") \notin Steps(Terminate)
  BY <1>3 DEF CallOf, Special, Step, Lock, Unlock
<1> QED
  BY <1>4, InstanceCall

LEMMA ResetCall == CallOf(ResetManager, {})
<1>1. "init" \in Mutexes /\ Step("detach") \in Critical("init")
  BY DEF Mutexes, Critical
<1> QED
  BY <1>1, LoneSection DEF ResetManager

LEMMA DropCall == CallOf(<<Step("drop")>>, {Step("drop")})
<1> DEFINE x == Step("drop")
<1>1. /\ x \in STEPS /\ x \notin Urgent
      /\ \A m : x # Lock(m) /\ x # Unlock(m)
      /\ x \notin {Step("create"), Step("detach"), Step("push"), Step("release"), Step("clear"),
                   Step("instance"), Step("start"), Step("join"), <<"stop", "none">>, <<"stop", "restart">>}
  BY StepsAreTyped DEF Ops, Urgent, Step, Lock, Unlock
<1> HIDE DEF x
<1>2. OK(x, <<>>)
  BY <1>1, EmptyFacts DEF OK, Lock, Unlock
<1>3. Calm(<<x>> \o <<>>) /\ <<x>> \o <<>> = <<x>>
  <2>1. Calm(<<>>)
    BY EmptyIsCalm
  <2>2. Calm(<<x>> \o <<>>)
    BY <1>1, <1>2, <2>1, ConsCalm
  <2>3. <<x>> \o <<>> = <<x>>
    OBVIOUS
  <2> QED
    BY <2>2, <2>3
<1>4. Steps(<<x>> \o <<>>) = {x} /\ \A m \in Mutexes : ~Holds(<<x>> \o <<>>, m)
  BY <1>1, EmptyFacts, ConsFacts
<1>5. CallOf(<<x>>, {x})
  BY <1>3, <1>4 DEF CallOf
<1> QED
  BY <1>5 DEF x

LEMMA ConfigureCall ==
    ASSUME NEW c \in {"plain", "cloud"}, NEW clear_old_sinks \in BOOLEAN
    PROVE  CallOf(Instance \o Configure(c, clear_old_sinks), {<<"config", c>>})
<1> DEFINE x == <<"config", c>>
           p == Within("init", <<Step("push")>>)
           q == <<x>> \o p
<1>1. /\ x \in STEPS /\ x \notin Urgent
      /\ \A m : x # Lock(m) /\ x # Unlock(m)
      /\ x \notin {Step("create"), Step("detach"), Step("push"), Step("release"), Step("clear"),
                   Step("instance"), Step("start"), Step("join"), <<"stop", "none">>, <<"stop", "restart">>}
  BY StepsAreTyped DEF Urgent, Step, Lock, Unlock
<1>2. CallOf(p, {}) /\ Steps(p) = {Lock("init"), Step("push"), Unlock("init")}
  <2>1. "init" \in Mutexes /\ Step("push") \in Critical("init")
    BY DEF Mutexes, Critical
  <2> QED
    BY <2>1, LoneSection
<1> HIDE DEF p
<1>3. OK(x, p)
  <2>1. Step("start") \notin Steps(p) /\ Step("gone") \notin Steps(p) /\ Step("join") \notin Steps(p)
        /\ <<"stop", "destroy">> \notin Steps(p)
    BY <1>2 DEF CallOf, Calm, Urgent
  <2>2. x # Lock("init") /\ x # Unlock("init")
    BY <1>1
  <2> HIDE DEF x
  <2> QED
    BY <1>1, <2>1, <2>2 DEF OK
<1>4. Calm(q)
  BY <1>1, <1>2, <1>3, ConsCalm DEF CallOf
<1>5. Steps(q) = {x} \cup Steps(p) /\ \A m \in Mutexes : ~Holds(q, m)
  <2> HIDE DEF x
  <2> QED
    BY <1>1, <1>2, ConsFacts DEF CallOf, Calm
<1>6. CallOf(q, {x})
  <2> HIDE DEF q
  <2> QED
    BY <1>2, <1>4, <1>5 DEF CallOf
<1>7. Step("release") \notin Steps(q) /\ Step("detach") \notin Steps(q)
  <2> HIDE DEF q
  <2>1. Steps(q) = {<<"config", c>>, Lock("init"), Step("push"), Unlock("init")}
    BY <1>2, <1>5 DEF x
  <2> QED
    BY <2>1 DEF Step, Lock, Unlock
<1>8. q \in Seq(STEPS) /\ p \in Seq(STEPS)
  BY <1>2, <1>4 DEF CallOf, Calm
<1> HIDE DEF q
<1>9. /\ CallOf(ClearSinks \o q, {x})
      /\ Steps(ClearSinks \o q) = Steps(q) \cup {Lock("sinks"), Step("clear"), Unlock("sinks")}
  <2>1. "sinks" \in Mutexes /\ Step("clear") \in Critical("sinks") /\ "sinks" # "init"
    BY DEF Mutexes, Critical
  <2> QED
    BY <1>6, <2>1, SectionCall DEF ClearSinks
<1>10. Step("release") \notin Steps(ClearSinks \o q) /\ Step("detach") \notin Steps(ClearSinks \o q)
  BY <1>7, <1>9 DEF Step, Lock, Unlock
<1>11. CASE clear_old_sinks
  <2>1. Configure(c, clear_old_sinks) = (ClearSinks \o <<x>>) \o p
    BY <1>11 DEF Configure, p
  <2>2. (ClearSinks \o <<x>>) \o p = ClearSinks \o q
    <3>1. ClearSinks \in Seq(STEPS) /\ <<x>> \in Seq(STEPS)
      BY <1>1, StopCall DEF CallOf, Calm
    <3> QED
      BY <1>8, <3>1, ConcatAssociative DEF q
  <2> QED
    BY <1>9, <1>10, <2>1, <2>2, InstanceCall
<1>12. CASE ~clear_old_sinks
  <2>1. Configure(c, clear_old_sinks) = (<<>> \o <<x>>) \o p
    BY <1>12 DEF Configure, p
  <2>2. <<>> \o <<x>> = <<x>>
    OBVIOUS
  <2>3. Configure(c, clear_old_sinks) = q
    BY <2>1, <2>2 DEF q
  <2> QED
    BY <1>6, <1>7, <2>3, InstanceCall
<1> QED
  BY <1>11, <1>12

-----------------------------------------------------------------------------
(* The step a thread is at, and the steps that replace it.                   *)

Rest(t) == Tail(todo[t])

LEMMA AtStep ==
    ASSUME Types, Discipline, NEW t \in All, NEW op, op # "nothing", At(t, op)
    PROVE  LET x == Head(todo[t]) IN
           /\ x \in STEPS /\ x = <<op, Arg(t)>> /\ Rest(t) \in Seq(STEPS)
           /\ OK(x, Rest(t)) /\ WellFormed(Rest(t))
           /\ Steps(todo[t]) = {x} \cup Steps(Rest(t))
           /\ \A m \in Mutexes :
                /\ x = Unlock(m) => Holds(todo[t], m)
                /\ x = Lock(m) => ~Holds(todo[t], m)
                /\ x # Lock(m) /\ x # Unlock(m) => (Holds(todo[t], m) <=> Holds(Rest(t), m))
           /\ \A more : Then(t, more) => /\ todo' = [todo EXCEPT ![t] = more \o Rest(t)]
                                         /\ todo'[t] = more \o Rest(t)
                                         /\ \A u \in All : u # t => todo'[u] = todo[u]
<1> DEFINE x == Head(todo[t])
           r == Rest(t)
<1>1. todo \in [All -> Seq(STEPS)] /\ todo[t] \in Seq(STEPS)
  BY DEF Types
<1>2. todo[t] # <<>> /\ x[1] = op /\ Arg(t) = x[2]
  BY DEF At, Doing, Arg
<1>3. x \in STEPS /\ r \in Seq(STEPS) /\ todo[t] = <<x>> \o r
  BY <1>1, <1>2, Uncons DEF Rest
<1>4. x = <<x[1], x[2]>>
  BY <1>3 DEF STEPS, Step, Lock, Unlock
<1>5. \A more : Then(t, more) => /\ todo' = [todo EXCEPT ![t] = more \o Rest(t)]
                                 /\ todo'[t] = more \o Rest(t)
                                 /\ \A u \in All : u # t => todo'[u] = todo[u]
  BY <1>1 DEF Then, Rest
<1> HIDE DEF x, r
<1>6. OK(x, r) /\ WellFormed(r)
  BY <1>3, ConsWellFormed DEF Discipline
<1>7. /\ Steps(todo[t]) = {x} \cup Steps(r)
      /\ \A m \in Mutexes :
           /\ x = Unlock(m) => Holds(todo[t], m)
           /\ x = Lock(m) => ~Holds(todo[t], m)
           /\ x # Lock(m) /\ x # Unlock(m) => (Holds(todo[t], m) <=> Holds(r, m))
  BY <1>3, ConsFacts
<1> QED
  BY <1>2, <1>3, <1>4, <1>5, <1>6, <1>7 DEF x, r

(* Discipline' when one thread's steps are replaced.                         *)
LEMMA Replace ==
    ASSUME Types, Discipline, NEW t \in All, NEW q \in Seq(STEPS),
           todo' = [todo EXCEPT ![t] = q], t \in alive, alive \subseteq alive', WellFormed(q),
           \A m \in Mutexes : owner'[m] = t <=> Holds(q, m),
           \A m \in Mutexes, u \in All : u # t => (owner'[m] = u <=> owner[m] = u)
    PROVE  Discipline' /\ todo' \in [All -> Seq(STEPS)]
<1>1. todo \in [All -> Seq(STEPS)]
  BY DEF Types
<1>2. todo'[t] = q /\ \A u \in All : u # t => todo'[u] = todo[u]
  BY <1>1
<1>3. todo' \in [All -> Seq(STEPS)]
  BY <1>1
<1>4. \A u \in All : WellFormed(todo'[u])
  BY <1>2 DEF Discipline
<1>5. \A u \in All, m \in Mutexes : owner'[m] = u <=> Holds(todo'[u], m)
  BY <1>2 DEF Discipline
<1>6. \A u \in All \ alive' : todo'[u] = <<>>
  BY <1>2 DEF Discipline
<1> QED
  BY <1>3, <1>4, <1>5, <1>6 DEF Discipline

(* The special steps a thread has before it, and those that follow the step  *)
(* it is at.                                                                 *)
Marks(t) == Steps(todo[t]) \cap Special
Kept(t)  == Steps(Rest(t)) \cap Special

LEMMA MarksAt ==
    ASSUME Types, Discipline, NEW t \in All, NEW op, op # "nothing", At(t, op)
    PROVE  /\ Marks(t) = ({<<op, Arg(t)>>} \cap Special) \cup Kept(t)
           /\ Step("join") \notin Kept(t) /\ <<"stop", "destroy">> \notin Kept(t)
           /\ op # "join" => Step("start") \notin Kept(t) /\ Step("gone") \notin Kept(t)
           /\ op \in {"instance", "create", "detach", "release"} => Step("release") \notin Kept(t)
           /\ op \in {"lock", "unlock"} /\ Arg(t) = "init" => Step("release") \notin Kept(t)
           /\ op \in {"lock", "unlock"} => Arg(t) \in Mutexes
           /\ op \in Ops => Arg(t) = "none"
           /\ op = "stop" => Arg(t) \in Purposes
           /\ op = "config" => Arg(t) \in {"plain", "cloud"}
           /\ t \in alive /\ ~corrupt
<1> DEFINE x == <<op, Arg(t)>>
<1>1. /\ x \in STEPS /\ OK(x, Rest(t)) /\ Steps(todo[t]) = {x} \cup Steps(Rest(t))
  BY AtStep
<1>2. /\ op \in {"lock", "unlock"} => Arg(t) \in Mutexes
      /\ op \in Ops => Arg(t) = "none"
      /\ op = "stop" => Arg(t) \in Purposes
      /\ op = "config" => Arg(t) \in {"plain", "cloud"}
  BY <1>1 DEF STEPS, Step, Lock, Unlock, Ops
<1>3. /\ Step("join") \notin Steps(Rest(t)) /\ <<"stop", "destroy">> \notin Steps(Rest(t))
      /\ op # "join" => Step("start") \notin Steps(Rest(t)) /\ Step("gone") \notin Steps(Rest(t))
  BY <1>1 DEF OK, Step
<1>4. op \in {"instance", "create", "detach", "release"} => Step("release") \notin Steps(Rest(t))
  BY <1>1, <1>2 DEF OK, Step, Ops
<1>5. op \in {"lock", "unlock"} /\ Arg(t) = "init" => Step("release") \notin Steps(Rest(t))
  BY <1>1 DEF OK, Lock, Unlock
<1> QED
  BY <1>1, <1>2, <1>3, <1>4, <1>5 DEF Marks, Kept, At

LEMMA Continue ==
    ASSUME Types, Discipline, NEW t \in All, NEW op, op \notin {"nothing", "lock", "unlock"},
           At(t, op), NEW more, Then(t, more), more \o Rest(t) \in Seq(STEPS),
           WellFormed(more \o Rest(t)), alive \subseteq alive',
           \A m \in Mutexes : Holds(more \o Rest(t), m) <=> Holds(Rest(t), m),
           \A m \in Mutexes, u \in All : owner'[m] = u <=> owner[m] = u
    PROVE  /\ Discipline' /\ todo' \in [All -> Seq(STEPS)]
           /\ Marks(t)' = Steps(more \o Rest(t)) \cap Special
           /\ \A u \in All : u # t => Marks(u)' = Marks(u)
<1> DEFINE q == more \o Rest(t)
<1>1. /\ todo' = [todo EXCEPT ![t] = q] /\ todo'[t] = q
      /\ \A u \in All : u # t => todo'[u] = todo[u]
  BY AtStep
<1>2. \A m \in Mutexes : owner'[m] = t <=> Holds(q, m)
  <2> SUFFICES ASSUME NEW m \in Mutexes PROVE owner'[m] = t <=> Holds(q, m)
    OBVIOUS
  <2>1. <<op, Arg(t)>> # Lock(m) /\ <<op, Arg(t)>> # Unlock(m)
    BY DEF Lock, Unlock
  <2>2. Holds(todo[t], m) <=> Holds(Rest(t), m)
    BY <2>1, AtStep
  <2> QED
    BY <2>2 DEF Discipline
<1>3. t \in alive
  BY DEF At
<1> HIDE DEF q
<1>4. Discipline' /\ todo' \in [All -> Seq(STEPS)]
  <2>1. q \in Seq(STEPS) /\ WellFormed(q)
    BY DEF q
  <2>2. \A m \in Mutexes, u \in All : u # t => (owner'[m] = u <=> owner[m] = u)
    OBVIOUS
  <2>3. todo' = [todo EXCEPT ![t] = q] /\ t \in alive
    BY <1>1, <1>3
  <2> QED
    BY <1>2, <2>1, <2>2, <2>3, Replace
<1>5. Marks(t)' = Steps(q) \cap Special
  BY <1>1 DEF Marks
<1>6. \A u \in All : u # t => Marks(u)' = Marks(u)
  BY <1>1 DEF Marks
<1> QED
  BY <1>4, <1>5, <1>6 DEF q

(* The step is simply done.                                                  *)
LEMMA Pop ==
    ASSUME Types, Discipline, NEW t \in All, NEW op, op \notin {"nothing", "lock", "unlock"},
           At(t, op), Then(t, <<>>), alive \subseteq alive',
           \A m \in Mutexes, u \in All : owner'[m] = u <=> owner[m] = u
    PROVE  /\ Discipline' /\ todo' \in [All -> Seq(STEPS)]
           /\ Marks(t)' = Kept(t)
           /\ \A u \in All : u # t => Marks(u)' = Marks(u)
<1>1. Rest(t) \in Seq(STEPS) /\ WellFormed(Rest(t))
  BY AtStep
<1>2. <<>> \o Rest(t) = Rest(t)
  BY <1>1, ConcatEmptySeq
<1> QED
  BY <1>1, <1>2, Continue DEF Kept

(* Another step comes first.                                                 *)
LEMMA Prefix ==
    ASSUME Types, Discipline, NEW t \in All, NEW op, op \notin {"nothing", "lock", "unlock", "join"},
           At(t, op), NEW y \in Urgent, y # Step("join"), Then(t, <<y>>),
           y = Step("start") => Holds(Rest(t), "sinks"), alive \subseteq alive',
           \A m \in Mutexes, u \in All : owner'[m] = u <=> owner[m] = u
    PROVE  /\ Discipline' /\ todo' \in [All -> Seq(STEPS)]
           /\ Marks(t)' = {y} \cup Kept(t)
           /\ \A u \in All : u # t => Marks(u)' = Marks(u)
<1>1. Rest(t) \in Seq(STEPS) /\ WellFormed(Rest(t)) /\ OK(<<op, Arg(t)>>, Rest(t))
  BY AtStep
<1>2. y \in STEPS /\ y \in Special /\ \A m : y # Lock(m) /\ y # Unlock(m)
  <2>1. y \in {Step("start"), Step("gone"), <<"stop", "destroy">>}
    BY DEF Urgent
  <2> QED
    BY <2>1, StepsAreTyped DEF Special, Ops, Purposes, Step, Lock, Unlock
<1>3. OK(y, Rest(t))
  <2>1. /\ Step("join") \notin Steps(Rest(t)) /\ <<"stop", "destroy">> \notin Steps(Rest(t))
        /\ Step("start") \notin Steps(Rest(t)) /\ Step("gone") \notin Steps(Rest(t))
    BY <1>1 DEF OK, Step
  <2>2. y \notin {Step("create"), Step("detach"), Step("push"), Step("release"), Step("instance"),
                  Step("clear"), <<"stop", "none">>, <<"stop", "restart">>}
    BY DEF Urgent, Step
  <2>3. y # Lock("init") /\ y # Unlock("init")
    BY <1>2
  <2>4. y \in {Step("clear"), Step("start"), <<"stop", "none">>, <<"stop", "restart">>}
          => Holds(Rest(t), "sinks")
    BY <2>2
  <2>5. /\ \A m \in Mutexes : y = Lock(m) => Holds(Rest(t), m)
        /\ \A m \in Mutexes : y = Unlock(m) => ~Holds(Rest(t), m)
    BY <1>2
  <2> QED
    BY <2>1, <2>2, <2>3, <2>4, <2>5 DEF OK
<1>4. /\ <<y>> \o Rest(t) \in Seq(STEPS) /\ WellFormed(<<y>> \o Rest(t))
      /\ Steps(<<y>> \o Rest(t)) = {y} \cup Steps(Rest(t))
      /\ \A m \in Mutexes : Holds(<<y>> \o Rest(t), m) <=> Holds(Rest(t), m)
  BY <1>1, <1>2, <1>3, ConsFacts
<1>5. Steps(<<y>> \o Rest(t)) \cap Special = {y} \cup Kept(t)
  BY <1>2, <1>4 DEF Kept
<1> QED
  BY <1>4, <1>5, Continue

LEMMA MutexSteps ==
    ASSUME Types, Discipline, NEW t \in All, Acquire(t) \/ Release(t)
    PROVE  /\ Discipline' /\ todo' \in [All -> Seq(STEPS)]
           /\ Marks(t) = Kept(t) /\ Marks(t)' = Kept(t)
           /\ \A u \in All : u # t => Marks(u)' = Marks(u)
           /\ \E m \in Mutexes :
                /\ \A n \in Mutexes : n # m => owner'[n] = owner[n]
                /\ owner[m] \in {"free", t} /\ (m = "init" => Step("release") \notin Kept(t))
                /\ owner' \in [Mutexes -> All \cup {"free", "orphan"}]
                /\ (m = "sinks" => Step("start") \notin Kept(t) /\ Step("join") \notin Kept(t))
<1> DEFINE m == Arg(t)
<1>1. PICK op \in {"lock", "unlock"} : At(t, op) /\ (op = "lock" <=> Acquire(t))
                                      /\ (op = "unlock" <=> Release(t))
  BY DEF Acquire, Release, At
<1>2. /\ m \in Mutexes /\ Rest(t) \in Seq(STEPS) /\ OK(<<op, m>>, Rest(t)) /\ WellFormed(Rest(t))
      /\ t \in alive /\ alive' = alive
  <2>1. alive' = alive
    BY DEF Acquire, Release, proc
  <2> QED
    BY <1>1, <2>1, AtStep, MarksAt
<1>3. Then(t, <<>>) /\ owner' = [owner EXCEPT ![m] = IF op = "lock" THEN t ELSE "free"]
  BY <1>1 DEF Acquire, Release
<1>4. /\ todo' = [todo EXCEPT ![t] = Rest(t)] /\ todo'[t] = Rest(t)
      /\ \A u \in All : u # t => todo'[u] = todo[u]
  <2>1. <<>> \o Rest(t) = Rest(t)
    BY <1>2, ConcatEmptySeq
  <2> QED
    BY <1>1, <1>3, <2>1, AtStep
<1>5. owner[m] = IF op = "lock" THEN "free" ELSE t
  <2>1. CASE op = "lock"
    BY <1>1, <2>1 DEF Acquire
  <2>2. CASE op = "unlock"
    <3>1. Holds(todo[t], m)
      BY <1>1, <1>2, <2>2, AtStep DEF Unlock
    <3> QED
      BY <1>2, <2>2, <3>1 DEF Discipline
  <2> QED
    BY <2>1, <2>2
<1>6. owner \in [Mutexes -> All \cup {"free", "orphan"}] /\ t \notin {"free", "orphan"}
      /\ \A u \in All : u \notin {"free", "orphan"}
  BY ThreadsAssumption DEF Types, All
<1> HIDE DEF m
<1>7. \A n \in Mutexes : owner'[n] = t <=> Holds(Rest(t), n)
  <2> SUFFICES ASSUME NEW n \in Mutexes PROVE owner'[n] = t <=> Holds(Rest(t), n)
    OBVIOUS
  <2>1. CASE n = m
    BY <1>2, <1>3, <1>6, <2>1 DEF OK, Lock, Unlock
  <2>2. CASE n # m
    <3>1. Holds(todo[t], n) <=> Holds(Rest(t), n)
      <4>1. <<op, m>> # Lock(n) /\ <<op, m>> # Unlock(n)
        BY <2>2 DEF Lock, Unlock
      <4> QED
        BY <1>1, <4>1, AtStep DEF m
    <3> QED
      BY <1>3, <1>6, <2>2, <3>1 DEF Discipline
  <2> QED
    BY <2>1, <2>2
<1>8. \A n \in Mutexes, u \in All : u # t => (owner'[n] = u <=> owner[n] = u)
  BY <1>2, <1>3, <1>5, <1>6
<1>9. Discipline' /\ todo' \in [All -> Seq(STEPS)]
  BY <1>2, <1>4, <1>7, <1>8, Replace
<1>10. /\ Marks(t) = Kept(t) /\ (m = "init" => Step("release") \notin Kept(t))
       /\ Step("start") \notin Kept(t) /\ Step("join") \notin Kept(t)
  <2>1. <<op, m>> \notin Special
    BY DEF Special, Step
  <2> QED
    BY <1>1, <2>1, MarksAt DEF m
<1>11. Marks(t)' = Kept(t) /\ \A u \in All : u # t => Marks(u)' = Marks(u)
  BY <1>4 DEF Marks, Kept
<1>12. /\ \A n \in Mutexes : n # m => owner'[n] = owner[n]
       /\ owner[m] \in {"free", t} /\ owner' \in [Mutexes -> All \cup {"free", "orphan"}]
  BY <1>2, <1>3, <1>5, <1>6
<1> QED
  BY <1>2, <1>9, <1>10, <1>11, <1>12

LEMMA InstanceStep ==
    ASSUME Types, Discipline, NEW t \in All, instance(t)
    PROVE  /\ Discipline' /\ todo' \in [All -> Seq(STEPS)]
           /\ Marks(t) = Kept(t) /\ Marks(t)' = Kept(t)
           /\ \A u \in All : u # t => Marks(u)' = Marks(u)
<1>1. At(t, "instance") /\ alive' = alive /\ owner' = owner
  BY DEF instance, proc
<1>2. /\ Rest(t) \in Seq(STEPS) /\ OK(Step("instance"), Rest(t)) /\ WellFormed(Rest(t))
      /\ Arg(t) = "none"
  BY <1>1, AtStep, MarksAt DEF Ops, Step
<1>3. Marks(t) = Kept(t)
  <2>1. <<"instance", "none">> \notin Special
    BY DEF Special, Step
  <2> QED
    BY <1>1, <1>2, <2>1, MarksAt
<1>4. CASE exists
  <2>1. Then(t, <<>>)
    BY <1>4 DEF instance
  <2> QED
    BY <1>1, <1>3, <2>1, Pop
<1>5. CASE ~exists
  <2> DEFINE more == Within("init", <<Step("create")>>)
  <2>1. /\ Calm(Rest(t)) /\ ~Holds(Rest(t), "init") /\ Step("release") \notin Steps(Rest(t))
    <3>1. "init" \in Mutexes /\ Step("instance") # Step("join")
      BY DEF Mutexes, Step
    <3> QED
      BY <1>2, <3>1 DEF OK, Calm, Urgent
  <2>2. /\ "init" \in Mutexes /\ Step("create") \in Critical("init")
        /\ Step("create") # Step("detach")
    BY DEF Mutexes, Critical, Step
  <2>3. /\ Calm(more \o Rest(t))
        /\ Steps(more \o Rest(t)) = Steps(Rest(t)) \cup {Lock("init"), Step("create"), Unlock("init")}
        /\ \A n \in Mutexes : Holds(more \o Rest(t), n) <=> Holds(Rest(t), n)
    BY <2>1, <2>2, Section
  <2>4. Then(t, more)
    BY <1>5 DEF instance
  <2> HIDE DEF more
  <2>5. /\ Discipline' /\ todo' \in [All -> Seq(STEPS)]
        /\ Marks(t)' = Steps(more \o Rest(t)) \cap Special
        /\ \A u \in All : u # t => Marks(u)' = Marks(u)
    BY <1>1, <2>3, <2>4, Continue DEF Calm
  <2>6. Steps(more \o Rest(t)) \cap Special = Kept(t)
    BY <2>3 DEF Kept, Special, Step, Lock, Unlock
  <2> QED
    BY <1>3, <2>5, <2>6
<1> QED
  BY <1>4, <1>5

LEMMA DetachStep ==
    ASSUME Types, Discipline, NEW t \in All, detach(t)
    PROVE  /\ Discipline' /\ todo' \in [All -> Seq(STEPS)]
           /\ Marks(t) = Kept(t) /\ Step("release") \notin Kept(t)
           /\ Marks(t)' = Kept(t) \cup (IF exists THEN {Step("release")} ELSE {})
           /\ \A u \in All : u # t => Marks(u)' = Marks(u)
           /\ owner["init"] = t
<1>1. At(t, "detach") /\ alive' = alive /\ owner' = owner
  BY DEF detach, proc
<1>2. /\ Rest(t) \in Seq(STEPS) /\ OK(Step("detach"), Rest(t)) /\ WellFormed(Rest(t))
      /\ Arg(t) = "none"
  BY <1>1, AtStep, MarksAt DEF Ops, Step
<1>3. Marks(t) = Kept(t) /\ Step("release") \notin Kept(t)
  <2>1. <<"detach", "none">> \notin Special
    BY DEF Special, Step
  <2> QED
    BY <1>1, <1>2, <2>1, MarksAt
<1>4. owner["init"] = t
  <2>1. "init" \in Mutexes /\ Holds(Rest(t), "init")
    BY <1>2 DEF Mutexes, OK
  <2>2. Holds(todo[t], "init")
    BY <1>1, <1>2, <2>1, AtStep DEF Lock, Unlock
  <2> QED
    BY <2>1, <2>2 DEF Discipline
<1>5. CASE ~exists
  <2>1. Then(t, <<>>)
    BY <1>5 DEF detach, Destructor
  <2> QED
    BY <1>1, <1>3, <1>4, <1>5, <2>1, Pop
<1>6. CASE exists
  <2> DEFINE q == <<Step("release")>> \o Rest(t)
  <2>1. /\ Calm(Rest(t)) /\ Holds(Rest(t), "init") /\ ~Holds(Rest(t), "sinks")
        /\ Step("release") \notin Steps(Rest(t))
    <3>1. Step("detach") # Step("join")
      BY DEF Step
    <3> QED
      BY <1>2, <3>1 DEF OK, Calm, Urgent
  <2>2. /\ Step("release") \in STEPS /\ Step("release") \notin Urgent
        /\ Step("release") \notin {Step("instance"), Step("detach"), Step("clear"), Step("start"),
                                   <<"stop", "none">>, <<"stop", "restart">>}
        /\ \A m : Step("release") # Lock(m) /\ Step("release") # Unlock(m)
    BY StepsAreTyped DEF Urgent, Step, Lock, Unlock, Ops
  <2>3. OK(Step("release"), Rest(t))
    <3>1. /\ \A m \in Mutexes : Step("release") = Lock(m) => Holds(Rest(t), m)
          /\ \A m \in Mutexes : Step("release") = Unlock(m) => ~Holds(Rest(t), m)
      BY <2>2
    <3>2. Steps(Rest(t)) \cap Urgent = {}
      BY <2>1 DEF Calm
    <3> QED
      BY <2>1, <2>2, <3>1, <3>2 DEF OK, Urgent
  <2>4. Calm(q)
    BY <2>1, <2>2, <2>3, ConsCalm
  <2>5. /\ Steps(q) = {Step("release")} \cup Steps(Rest(t))
        /\ \A m \in Mutexes : Holds(q, m) <=> Holds(Rest(t), m)
    BY <1>2, <2>2, ConsFacts
  <2> HIDE DEF q
  <2>6. ~Holds(q, "sinks")
    BY <2>1, <2>5 DEF Mutexes
  <2>7. /\ Calm(Terminate \o q)
        /\ \A n \in Mutexes : Holds(Terminate \o q, n) <=> Holds(q, n)
        /\ Steps(Terminate \o q) = Steps(q) \cup
             {Lock("sinks"), Step("clear"), <<"stop", "none">>, Unlock("sinks")}
    BY <2>4, <2>6, TerminateFirst
  <2>8. (Terminate \o <<Step("release")>>) \o Rest(t) = Terminate \o q
    <3>1. Terminate \in Seq(STEPS) /\ <<Step("release")>> \in Seq(STEPS)
      BY <2>2, StopCall, ConcatProperties DEF CallOf, Calm, Terminate
    <3> QED
      BY <1>2, <3>1, ConcatAssociative DEF q
  <2> DEFINE more == Terminate \o <<Step("release")>>
  <2>9. Then(t, more)
    BY <1>6 DEF detach, Destructor
  <2>10. /\ more \o Rest(t) \in Seq(STEPS) /\ WellFormed(more \o Rest(t))
         /\ \A m \in Mutexes : Holds(more \o Rest(t), m) <=> Holds(Rest(t), m)
         /\ Steps(more \o Rest(t)) = Steps(Rest(t)) \cup {Step("release")} \cup
              {Lock("sinks"), Step("clear"), <<"stop", "none">>, Unlock("sinks")}
    BY <2>5, <2>7, <2>8 DEF Calm
  <2> HIDE DEF more
  <2>11. /\ Discipline' /\ todo' \in [All -> Seq(STEPS)]
         /\ Marks(t)' = Steps(more \o Rest(t)) \cap Special
         /\ \A u \in All : u # t => Marks(u)' = Marks(u)
    BY <1>1, <2>9, <2>10, Continue
  <2>12. Steps(more \o Rest(t)) \cap Special = Kept(t) \cup {Step("release")}
    <3>1. {Lock("sinks"), Step("clear"), <<"stop", "none">>, Unlock("sinks")} \cap Special = {}
      BY DEF Special, Step, Lock, Unlock
    <3>2. Step("release") \in Special
      BY DEF Special
    <3> QED
      BY <2>10, <3>1, <3>2 DEF Kept
  <2> QED
    BY <1>3, <1>4, <1>6, <2>11, <2>12
<1> QED
  BY <1>5, <1>6

(* The steps that may run the destructor of the CloudWatch sink.             *)
LEMMA DroppingStep ==
    ASSUME Types, Discipline, NEW t \in All, NEW op \in {"clear", "config", "drop", "release"},
           At(t, op), Dropping(t)
    PROVE  /\ Discipline' /\ todo' \in [All -> Seq(STEPS)]
           /\ Marks(t)' = Kept(t) \cup (IF IsHeld /\ ~IsHeld' THEN {<<"stop", "destroy">>} ELSE {})
           /\ \A u \in All : u # t => Marks(u)' = Marks(u)
<1>1. alive' = alive /\ owner' = owner
  BY DEF Dropping, proc
<1>2. CASE IsHeld /\ ~IsHeld'
  <2>1. Then(t, <<<<"stop", "destroy">>>>)
    BY <1>2 DEF Dropping
  <2>2. <<"stop", "destroy">> \in Urgent /\ <<"stop", "destroy">> # Step("join")
        /\ <<"stop", "destroy">> # Step("start")
    BY DEF Urgent, Step
  <2> DEFINE y == <<"stop", "destroy">>
  <2>3. Then(t, <<y>>) /\ y \in Urgent /\ y # Step("join") /\ y # Step("start")
    BY <2>1, <2>2
  <2> HIDE DEF y
  <2>4. /\ Discipline' /\ todo' \in [All -> Seq(STEPS)]
        /\ Marks(t)' = {y} \cup Kept(t)
        /\ \A u \in All : u # t => Marks(u)' = Marks(u)
    BY <1>1, <2>3, Prefix
  <2> QED
    BY <1>2, <2>4 DEF y
<1>3. CASE ~(IsHeld /\ ~IsHeld')
  <2>1. Then(t, <<>>)
    BY <1>3 DEF Dropping
  <2> QED
    BY <1>1, <1>3, <2>1, Pop
<1> QED
  BY <1>2, <1>3

LEMMA UrgentStep ==
    ASSUME NEW r \in Seq(STEPS), WellFormed(r), Steps(r) \cap Urgent = {},
           NEW y \in {Step("start"), Step("gone")}, y = Step("start") => Holds(r, "sinks")
    PROVE  /\ <<y>> \o r \in Seq(STEPS) /\ WellFormed(<<y>> \o r)
           /\ Steps(<<y>> \o r) = {y} \cup Steps(r)
           /\ \A m \in Mutexes : Holds(<<y>> \o r, m) <=> Holds(r, m)
<1>1. y \in STEPS /\ \A m : y # Lock(m) /\ y # Unlock(m)
  BY StepsAreTyped DEF Ops, Step, Lock, Unlock
<1>2. OK(y, r)
  <2>1. /\ Step("join") \notin Steps(r) /\ <<"stop", "destroy">> \notin Steps(r)
        /\ Step("start") \notin Steps(r) /\ Step("gone") \notin Steps(r)
    BY DEF Urgent
  <2>2. y \notin {Step("create"), Step("detach"), Step("push"), Step("release"), Step("instance"),
                  Step("clear"), <<"stop", "none">>, <<"stop", "restart">>}
    BY DEF Step
  <2>3. y # Lock("init") /\ y # Unlock("init")
    BY <1>1
  <2>4. /\ \A m \in Mutexes : y = Lock(m) => Holds(r, m)
        /\ \A m \in Mutexes : y = Unlock(m) => ~Holds(r, m)
    BY <1>1
  <2> QED
    BY <2>1, <2>2, <2>3, <2>4 DEF OK
<1> QED
  BY <1>1, <1>2, ConsFacts

LEMMA JoinStepFirst ==
    ASSUME NEW r \in Seq(STEPS), WellFormed(r), Step("join") \notin Steps(r),
           <<"stop", "destroy">> \notin Steps(r)
    PROVE  /\ <<Step("join")>> \o r \in Seq(STEPS) /\ WellFormed(<<Step("join")>> \o r)
           /\ Steps(<<Step("join")>> \o r) = {Step("join")} \cup Steps(r)
           /\ \A m \in Mutexes : Holds(<<Step("join")>> \o r, m) <=> Holds(r, m)
<1> DEFINE y == Step("join")
<1>1. y \in STEPS /\ \A m : y # Lock(m) /\ y # Unlock(m)
  BY StepsAreTyped DEF Ops, Step, Lock, Unlock
<1>2. y \notin {Step("create"), Step("detach"), Step("push"), Step("release"), Step("instance"),
                Step("clear"), Step("start"), <<"stop", "none">>, <<"stop", "restart">>}
  BY DEF Step
<1>3. OK(y, r)
  <2>1. /\ \A m \in Mutexes : y = Lock(m) => Holds(r, m)
        /\ \A m \in Mutexes : y = Unlock(m) => ~Holds(r, m)
    BY <1>1
  <2>2. y # Lock("init") /\ y # Unlock("init")
    BY <1>1
  <2> QED
    BY <1>2, <2>1, <2>2 DEF OK
<1> HIDE DEF y
<1>4. /\ <<y>> \o r \in Seq(STEPS) /\ WellFormed(<<y>> \o r)
      /\ Steps(<<y>> \o r) = {y} \cup Steps(r)
      /\ \A m \in Mutexes : Holds(<<y>> \o r, m) <=> Holds(r, m)
  BY <1>1, <1>3, ConsFacts
<1> QED
  BY <1>4 DEF y

(* What stop_impl puts before the rest, joining or not.                      *)
LEMMA AfterStopFirst ==
    ASSUME NEW r \in Seq(STEPS), WellFormed(r), Steps(r) \cap Urgent = {},
           NEW p \in Purposes, p # "destroy" => Holds(r, "sinks"),
           NEW joins \in BOOLEAN
    PROVE  LET q == ((IF joins THEN <<Step("join")>> ELSE <<>>) \o AfterStop(p)) \o r IN
           /\ q \in Seq(STEPS) /\ WellFormed(q)
           /\ Steps(q) = Steps(r) \cup (IF joins THEN {Step("join")} ELSE {})
                \cup (IF p = "restart" THEN {Step("start")} ELSE IF p = "destroy" THEN {Step("gone")} ELSE {})
           /\ \A m \in Mutexes : Holds(q, m) <=> Holds(r, m)
<1> DEFINE G == IF p = "restart" THEN {Step("start")} ELSE IF p = "destroy" THEN {Step("gone")} ELSE {}
           a == AfterStop(p) \o r
<1>1. AfterStop(p) = (IF p = "restart" THEN <<Step("start")>> ELSE IF p = "destroy" THEN <<Step("gone")>> ELSE <<>>)
  BY DEF AfterStop, Purposes
<1>2. /\ a \in Seq(STEPS) /\ WellFormed(a) /\ Steps(a) = Steps(r) \cup G
      /\ \A m \in Mutexes : Holds(a, m) <=> Holds(r, m)
  <2>1. CASE p = "restart"
    BY <1>1, <2>1, UrgentStep
  <2>2. CASE p = "destroy"
    <3>1. Step("gone") # Step("start")
      BY DEF Step
    <3>2. /\ <<Step("gone")>> \o r \in Seq(STEPS) /\ WellFormed(<<Step("gone")>> \o r)
          /\ Steps(<<Step("gone")>> \o r) = {Step("gone")} \cup Steps(r)
          /\ \A m \in Mutexes : Holds(<<Step("gone")>> \o r, m) <=> Holds(r, m)
      BY <3>1, UrgentStep
    <3> QED
      BY <1>1, <2>2, <3>2
  <2>3. CASE p \notin {"restart", "destroy"}
    <3>1. <<>> \o r = r
      BY ConcatEmptySeq
    <3> QED
      BY <1>1, <2>3, <3>1
  <2> QED
    BY <2>1, <2>2, <2>3
<1>3. AfterStop(p) \in Seq(STEPS)
  <2>1. Step("start") \in STEPS /\ Step("gone") \in STEPS
    BY StepsAreTyped DEF Ops
  <2> QED
    BY <1>1, <2>1
<1>4. CASE ~joins
  <2>1. <<>> \o AfterStop(p) = AfterStop(p)
    BY <1>3, ConcatEmptySeq
  <2> QED
    BY <1>2, <1>4, <2>1
<1>5. CASE joins
  <2>1. Step("join") \notin Steps(a) /\ <<"stop", "destroy">> \notin Steps(a)
    <3>1. Step("join") \notin G /\ <<"stop", "destroy">> \notin G
      BY DEF Step
    <3> QED
      BY <1>2, <3>1 DEF Urgent
  <2>2. (<<Step("join")>> \o AfterStop(p)) \o r = <<Step("join")>> \o a
    <3>1. <<Step("join")>> \in Seq(STEPS)
      BY StepsAreTyped DEF Ops
    <3> QED
      BY <1>3, <3>1, ConcatAssociative
  <2> HIDE DEF a, G
  <2>3. /\ <<Step("join")>> \o a \in Seq(STEPS) /\ WellFormed(<<Step("join")>> \o a)
        /\ Steps(<<Step("join")>> \o a) = {Step("join")} \cup Steps(a)
        /\ \A m \in Mutexes : Holds(<<Step("join")>> \o a, m) <=> Holds(a, m)
    BY <1>2, <2>1, JoinStepFirst
  <2>4. Steps(<<Step("join")>> \o a) = Steps(r) \cup {Step("join")} \cup G
    BY <1>2, <2>3
  <2> QED
    BY <1>2, <1>5, <2>2, <2>3, <2>4 DEF G
<1> QED
  BY <1>4, <1>5

(* A step that needs a mutex is taken by its owner.                          *)
LEMMA Owners ==
    ASSUME Types, Discipline, NEW t \in All, NEW op, op # "nothing", At(t, op)
    PROVE  /\ op \in {"create", "detach", "push", "release"} => owner["init"] = t
           /\ op \in {"clear", "start"} \/ (op = "stop" /\ Arg(t) # "destroy") => owner["sinks"] = t
<1> DEFINE x == <<op, Arg(t)>>
<1>1. /\ OK(x, Rest(t)) /\ (op \in Ops => Arg(t) = "none") /\ (op = "stop" => Arg(t) \in Purposes)
      /\ \A m \in Mutexes : x # Lock(m) /\ x # Unlock(m) => (Holds(todo[t], m) <=> Holds(Rest(t), m))
  BY AtStep, MarksAt
<1>2. ASSUME op \in {"create", "detach", "push", "release"} PROVE owner["init"] = t
  <2>1. "init" \in Mutexes /\ x # Lock("init") /\ x # Unlock("init")
    BY <1>2 DEF Mutexes, Lock, Unlock
  <2>2. Holds(Rest(t), "init")
    BY <1>1, <1>2 DEF OK, Step, Ops
  <2> QED
    BY <1>1, <2>1, <2>2 DEF Discipline
<1>3. ASSUME op \in {"clear", "start"} \/ (op = "stop" /\ Arg(t) # "destroy")
      PROVE  owner["sinks"] = t
  <2>1. "sinks" \in Mutexes /\ x # Lock("sinks") /\ x # Unlock("sinks")
    BY <1>3 DEF Mutexes, Lock, Unlock
  <2>2. Holds(Rest(t), "sinks")
    BY <1>1, <1>3 DEF OK, Step, Ops, Purposes
  <2> QED
    BY <1>1, <2>1, <2>2 DEF Discipline
<1> QED
  BY <1>2, <1>3

LEMMA StopStep ==
    ASSUME Types, Discipline, NEW t \in All, stop_impl(t)
    PROVE  /\ Discipline' /\ todo' \in [All -> Seq(STEPS)] /\ Arg(t) \in Purposes
           /\ \A u \in All : u # t => Marks(u)' = Marks(u)
           /\ Marks(t) = Kept(t) \cup (IF Arg(t) = "destroy" THEN {<<"stop", "destroy">>} ELSE {})
           /\ Arg(t) # "destroy" => owner["sinks"] = t
           /\ \/ /\ is_running /\ ~is_running' /\ (Arg(t) = "destroy" \/ Registered)
                 /\ Marks(t)' = Kept(t) \cup (IF worker = "lost" THEN {} ELSE {Step("join")})
                      \cup (IF Arg(t) = "restart" THEN {Step("start")} ELSE
                            IF Arg(t) = "destroy" THEN {Step("gone")} ELSE {})
              \/ /\ is_running' = is_running
                 /\ ~is_running \/ (Arg(t) # "destroy" /\ ~Registered)
                 /\ Marks(t)' = Kept(t) \cup (IF Arg(t) = "destroy" THEN {Step("gone")} ELSE {})
<1>1. At(t, "stop") /\ alive' = alive /\ owner' = owner
  BY DEF stop_impl, proc
<1>2. /\ Rest(t) \in Seq(STEPS) /\ OK(<<"stop", Arg(t)>>, Rest(t)) /\ WellFormed(Rest(t))
      /\ Arg(t) \in Purposes
  BY <1>1, AtStep, MarksAt
<1>3. Marks(t) = Kept(t) \cup (IF Arg(t) = "destroy" THEN {<<"stop", "destroy">>} ELSE {})
  <2>1. {<<"stop", Arg(t)>>} \cap Special = (IF Arg(t) = "destroy" THEN {<<"stop", "destroy">>} ELSE {})
    <3> DEFINE p == Arg(t)
    <3> HIDE DEF p
    <3>1. <<"stop", "destroy">> \in Special
      BY DEF Special
    <3>2. p # "destroy" => <<"stop", p>> \notin Special
      BY DEF Special, Step
    <3>3. {<<"stop", p>>} \cap Special = (IF p = "destroy" THEN {<<"stop", "destroy">>} ELSE {})
      BY <3>1, <3>2
    <3> QED
      BY <3>3 DEF p
  <2> QED
    BY <1>1, <2>1, MarksAt
<1>4. Arg(t) # "destroy" => owner["sinks"] = t
  BY <1>1, Owners
<1>5. Steps(Rest(t)) \cap Urgent = {}
  BY <1>2 DEF OK, Urgent, Step
<1>6. Arg(t) # "destroy" => Holds(Rest(t), "sinks")
  BY <1>2 DEF OK, Purposes
<1> DEFINE More(j, p) == (IF j THEN <<Step("join")>> ELSE <<>>) \o AfterStop(p)
           G(j, p) == (IF j THEN {Step("join")} ELSE {})
                \cup (IF p = "restart" THEN {Step("start")} ELSE IF p = "destroy" THEN {Step("gone")} ELSE {})
<1>7. ASSUME NEW j \in BOOLEAN, NEW p \in Purposes, p # "destroy" => Holds(Rest(t), "sinks"), Then(t, More(j, p))
      PROVE  /\ Discipline' /\ todo' \in [All -> Seq(STEPS)]
             /\ \A u \in All : u # t => Marks(u)' = Marks(u)
             /\ Marks(t)' = Kept(t) \cup G(j, p)
  <2>1. /\ More(j, p) \o Rest(t) \in Seq(STEPS) /\ WellFormed(More(j, p) \o Rest(t))
        /\ Steps(More(j, p) \o Rest(t)) = Steps(Rest(t)) \cup (IF j THEN {Step("join")} ELSE {})
                \cup (IF p = "restart" THEN {Step("start")} ELSE IF p = "destroy" THEN {Step("gone")} ELSE {})
        /\ \A m \in Mutexes : Holds(More(j, p) \o Rest(t), m) <=> Holds(Rest(t), m)
    BY <1>2, <1>5, <1>7, AfterStopFirst
  <2> HIDE DEF More
  <2>2. /\ Discipline' /\ todo' \in [All -> Seq(STEPS)]
        /\ Marks(t)' = Steps(More(j, p) \o Rest(t)) \cap Special
        /\ \A u \in All : u # t => Marks(u)' = Marks(u)
    BY <1>1, <1>7, <2>1, Continue
  <2>3. G(j, p) \subseteq Special
    BY DEF Special
  <2> HIDE DEF G
  <2>4. Steps(More(j, p) \o Rest(t)) = Steps(Rest(t)) \cup G(j, p)
    BY <2>1 DEF G
  <2>5. Steps(More(j, p) \o Rest(t)) \cap Special = Kept(t) \cup G(j, p)
    BY <2>3, <2>4 DEF Kept
  <2> QED
    BY <2>2, <2>5
<1>8. CASE /\ is_running /\ (Arg(t) = "destroy" \/ Registered) /\ is_running' = FALSE
           /\ Then(t, (IF worker = "lost" THEN <<>> ELSE <<Step("join")>>) \o AfterStop(Arg(t)))
  <2>1. CASE worker = "lost"
    <3>1. Then(t, More(FALSE, Arg(t)))
      BY <1>8, <2>1
    <3>2. Marks(t)' = Kept(t) \cup G(FALSE, Arg(t)) /\ Discipline' /\ todo' \in [All -> Seq(STEPS)]
          /\ \A u \in All : u # t => Marks(u)' = Marks(u)
      BY <1>2, <1>6, <1>7, <3>1
    <3> QED
      BY <1>2, <1>3, <1>4, <1>8, <2>1, <3>2
  <2>2. CASE worker # "lost"
    <3>1. Then(t, More(TRUE, Arg(t)))
      BY <1>8, <2>2
    <3>2. Marks(t)' = Kept(t) \cup G(TRUE, Arg(t)) /\ Discipline' /\ todo' \in [All -> Seq(STEPS)]
          /\ \A u \in All : u # t => Marks(u)' = Marks(u)
      BY <1>2, <1>6, <1>7, <3>1
    <3> QED
      BY <1>2, <1>3, <1>4, <1>8, <2>2, <3>2
  <2> QED
    BY <2>1, <2>2
<1>9. CASE /\ ~is_running \/ (Arg(t) # "destroy" /\ ~Registered)
           /\ is_running' = is_running
           /\ Then(t, IF Arg(t) = "destroy" THEN <<Step("gone")>> ELSE <<>>)
  <2>1. CASE Arg(t) = "destroy"
    <3>1. /\ Step("gone") \in Urgent /\ Step("gone") # Step("join") /\ Step("gone") # Step("start")
          /\ Then(t, <<Step("gone")>>)
      BY <1>9, <2>1 DEF Urgent, Step
    <3>2. /\ Discipline' /\ todo' \in [All -> Seq(STEPS)]
          /\ Marks(t)' = {Step("gone")} \cup Kept(t)
          /\ \A u \in All : u # t => Marks(u)' = Marks(u)
      BY <1>1, <3>1, Prefix
    <3> QED
      BY <1>2, <1>3, <1>4, <1>9, <2>1, <3>2
  <2>2. CASE Arg(t) # "destroy"
    <3>1. Then(t, <<>>)
      BY <1>9, <2>2
    <3>2. /\ Discipline' /\ todo' \in [All -> Seq(STEPS)]
          /\ Marks(t)' = Kept(t)
          /\ \A u \in All : u # t => Marks(u)' = Marks(u)
      BY <1>1, <3>1, Pop
    <3> QED
      BY <1>2, <1>3, <1>4, <1>9, <2>2, <3>2
  <2> QED
    BY <2>1, <2>2
<1> QED
  BY <1>8, <1>9 DEF stop_impl, Registered

-----------------------------------------------------------------------------
(* The steps that give a thread something else to do.                        *)

LEMMA NothingToDo ==
    ASSUME Types, Discipline, NEW t \in All, todo[t] = <<>>
    PROVE  Marks(t) = {} /\ \A m \in Mutexes : owner[m] # t
<1>1. Steps(<<>>) = {} /\ \A m : ~Holds(<<>>, m)
  BY EmptyFacts
<1> QED
  BY <1>1 DEF Marks, Discipline

LEMMA BeginStep ==
    ASSUME Types, Discipline, NEW t \in All, Idle(t), NEW S, NEW q, CallOf(q, S),
           todo' = [todo EXCEPT ![t] = q], owner' = owner, alive' = alive
    PROVE  /\ Discipline' /\ todo' \in [All -> Seq(STEPS)]
           /\ Marks(t) = {} /\ Marks(t)' \subseteq S
           /\ \A u \in All : u # t => Marks(u)' = Marks(u)
<1>1. t \in alive /\ todo[t] = <<>>
  BY DEF Idle
<1>2. q \in Seq(STEPS) /\ WellFormed(q) /\ \A m \in Mutexes : ~Holds(q, m)
  BY DEF CallOf, Calm
<1>3. Marks(t) = {} /\ \A m \in Mutexes : owner[m] # t
  BY <1>1, NothingToDo
<1>4. Discipline' /\ todo' \in [All -> Seq(STEPS)]
  BY <1>1, <1>2, <1>3, Replace
<1>5. todo'[t] = q /\ \A u \in All : u # t => todo'[u] = todo[u]
  BY DEF Types
<1>6. Marks(t)' \subseteq S
  BY <1>5 DEF Marks, CallOf
<1>7. \A u \in All : u # t => Marks(u)' = Marks(u)
  BY <1>5 DEF Marks
<1> QED
  BY <1>3, <1>4, <1>6, <1>7

LEMMA AwsCallIsACall == CallOf(AwsCall, {})
<1>1. CallOf(<<>>, {}) /\ CallOf(Instance \o Dump, {})
  BY EmptyCall, DumpCall
<1> QED
  BY <1>1 DEF AwsCall

LEMMA ForkStep ==
    ASSUME Types, Discipline, Fork
    PROVE  /\ Discipline' /\ todo' \in [All -> Seq(STEPS)]
           /\ owner' \in [Mutexes -> All \cup {"free", "orphan"}] /\ alive' \in SUBSET All
           /\ \A u \in All : Marks(u)' = {}
           /\ exists
<1>1. PICK t \in Threads :
         /\ exists /\ alive' = {t}
         /\ todo' = [u \in All |-> IF u = t THEN <<Step("fork_reset")>> ELSE <<>>]
  BY DEF Fork
<1>2. owner' = [m \in Mutexes |-> IF owner[m] = "free" THEN "free" ELSE "orphan"]
  BY DEF Fork
<1>3. t \in All /\ \A u \in All : u \notin {"free", "orphan"}
  BY ThreadsAssumption DEF All
<1> DEFINE x == Step("fork_reset")
<1>4. /\ x \in STEPS /\ x \notin Special /\ x \notin Urgent
      /\ \A m : x # Lock(m) /\ x # Unlock(m)
      /\ x \notin {Step("create"), Step("detach"), Step("push"), Step("release"), Step("clear"),
                   Step("instance"), Step("start"), Step("join"), <<"stop", "none">>, <<"stop", "restart">>}
  BY StepsAreTyped DEF Ops, Special, Urgent, Step, Lock, Unlock
<1> HIDE DEF x
<1>5. OK(x, <<>>)
  <2>1. x # Lock("init") /\ x # Unlock("init")
    BY <1>4
  <2> QED
    BY <1>4, <2>1, EmptyFacts DEF OK
<1>6. <<x>> \o <<>> = <<x>> /\ WellFormed(<<>>) /\ <<>> \in Seq(STEPS)
  <2>1. <<x>> \in Seq(STEPS)
    BY <1>4
  <2>2. <<x>> \o <<>> = <<x>>
    BY <2>1, ConcatEmptySeq
  <2> QED
    BY <2>2, EmptyIsCalm DEF Calm
<1>7. /\ <<x>> \in Seq(STEPS) /\ Steps(<<x>>) = {x} /\ WellFormed(<<x>>)
      /\ \A m \in Mutexes : ~Holds(<<x>>, m)
  <2>1. /\ <<x>> \o <<>> \in Seq(STEPS)
        /\ Steps(<<x>> \o <<>>) = {x} \cup Steps(<<>>)
        /\ \A m \in Mutexes : Holds(<<x>> \o <<>>, m) <=> Holds(<<>>, m)
        /\ WellFormed(<<x>> \o <<>>)
    BY <1>4, <1>5, <1>6, ConsFacts
  <2> QED
    BY <1>6, <2>1, EmptyFacts
<1>8. todo'[t] = <<x>> /\ \A u \in All : u # t => todo'[u] = <<>>
  BY <1>1, <1>3 DEF x
<1>9. todo' \in [All -> Seq(STEPS)]
  <2>1. \A u \in All : (IF u = t THEN <<x>> ELSE <<>>) \in Seq(STEPS)
    BY <1>6, <1>7
  <2>2. todo' = [u \in All |-> IF u = t THEN <<x>> ELSE <<>>]
    BY <1>1 DEF x
  <2> QED
    BY <2>1, <2>2
<1>10. /\ \A u \in All : WellFormed(todo'[u])
       /\ \A u \in All, m \in Mutexes : ~Holds(todo'[u], m)
       /\ \A u \in All : Steps(todo'[u]) \cap Special = {}
  <2> SUFFICES ASSUME NEW u \in All
               PROVE  /\ WellFormed(todo'[u]) /\ \A m \in Mutexes : ~Holds(todo'[u], m)
                      /\ Steps(todo'[u]) \cap Special = {}
    OBVIOUS
  <2>1. CASE u = t
    BY <1>4, <1>7, <1>8, <2>1
  <2>2. CASE u # t
    BY <1>6, <1>8, <2>2, EmptyFacts
  <2> QED
    BY <2>1, <2>2
<1>11. \A m \in Mutexes : owner'[m] \in {"free", "orphan"}
  BY <1>2
<1>12. \A u \in All, m \in Mutexes : owner'[m] = u <=> Holds(todo'[u], m)
  BY <1>3, <1>10, <1>11
<1>13. \A u \in All \ alive' : todo'[u] = <<>>
  BY <1>1, <1>8
<1>14. Discipline'
  BY <1>10, <1>12, <1>13 DEF Discipline
<1>15. \A u \in All : Marks(u)' = {}
  BY <1>10 DEF Marks
<1> QED
  BY <1>1, <1>2, <1>3, <1>9, <1>14, <1>15

-----------------------------------------------------------------------------
(* What the steps do to the rest of the state.                               *)

Semantics == Singleton /\ References /\ Joining

LEMMA HasMark ==
    /\ \A t, x : x \in Special => (Has(t, x) <=> x \in Marks(t))
    /\ \A t : Destroys(t) <=> Step("gone") \in Marks(t) \/ <<"stop", "destroy">> \in Marks(t)
    /\ \A t, x : x \in Special => (Has(t, x)' <=> x \in Marks(t)')
    /\ \A t : Destroys(t)' <=> (Step("gone") \in Marks(t)' \/ <<"stop", "destroy">> \in Marks(t)')
<1>1. {Step("gone"), <<"stop", "destroy">>} \subseteq Special
  BY DEF Special
<1> QED
  BY <1>1 DEF Has, Marks, Destroys

LEMMA Distinct ==
    /\ Step("release") \in Special /\ Step("join") \in Special /\ Step("start") \in Special
    /\ Step("gone") \in Special /\ <<"stop", "destroy">> \in Special
    /\ <<"config", "cloud">> \in Special /\ Step("drop") \in Special
    /\ Step("release") \notin {Step("join"), Step("start"), Step("gone"), <<"stop", "destroy">>,
                               <<"config", "cloud">>, Step("drop")}
    /\ Step("join") \notin {Step("start"), Step("gone"), <<"stop", "destroy">>,
                            <<"config", "cloud">>, Step("drop")}
    /\ Step("start") \notin {Step("gone"), <<"stop", "destroy">>, <<"config", "cloud">>, Step("drop")}
    /\ Step("gone") \notin {<<"stop", "destroy">>, <<"config", "cloud">>, Step("drop")}
    /\ <<"stop", "destroy">> \notin {<<"config", "cloud">>, Step("drop")}
    /\ <<"config", "cloud">> # Step("drop")
  BY DEF Special, Step

(* Each part of the invariant, under a step that leaves its subject alone.   *)
LEMMA SingletonKept ==
    ASSUME Singleton, exists' = exists, managers' = managers,
           \A u \in All : Step("release") \in Marks(u)' <=> Step("release") \in Marks(u),
           \A u \in All : Step("release") \in Marks(u) /\ owner["init"] = u => owner'["init"] = u
    PROVE  Singleton'
<1>1. /\ \A u \in All : Has(u, Step("release")) <=> Step("release") \in Marks(u)
      /\ \A u \in All : Has(u, Step("release"))' <=> Step("release") \in Marks(u)'
  BY HasMark, Distinct
<1> QED
  BY <1>1 DEF Singleton

LEMMA ReferencesKept ==
    ASSUME References, IsHeld' => IsHeld, cw_alive' = cw_alive, app_holds' = app_holds,
           \A u \in All : Destroys(u)' => Destroys(u),
           \A u \in All : <<"config", "cloud">> \in Marks(u)' => <<"config", "cloud">> \in Marks(u),
           \A u \in All : Step("drop") \in Marks(u)' => Step("drop") \in Marks(u)
    PROVE  References'
<1>1. /\ \A u \in All, x \in {<<"config", "cloud">>, Step("drop")} : Has(u, x) <=> x \in Marks(u)
      /\ \A u \in All, x \in {<<"config", "cloud">>, Step("drop")} : Has(u, x)' <=> x \in Marks(u)'
  BY HasMark, Distinct
<1>2. (IsHeld => cw_alive)' /\ \A u \in All : (Destroys(u) => ~IsHeld)'
  BY DEF References
<1>3. \A t, u \in All : Destroys(t)' /\ Destroys(u)' => t = u
  BY DEF References
<1>4. /\ \A u \in All : Has(u, <<"config", "cloud">>)' => app_holds'
      /\ \A t, u \in All : Has(t, <<"config", "cloud">>)' => ~Has(u, Step("drop"))'
  BY <1>1 DEF References
<1> QED
  BY <1>2, <1>3, <1>4 DEF References

LEMMA JoiningKept ==
    ASSUME Joining, is_running' = is_running,
           is_running => worker' \in {"loop", "lost"},
           worker' \in {"loop", "flush", "done"} => worker \in {"loop", "flush", "done"},
           \A u \in All : Step("start") \in Marks(u)' => Step("start") \in Marks(u),
           \A u \in All : Step("gone") \in Marks(u)' => Step("gone") \in Marks(u) \/ ~is_running,
           \A u \in All : Step("gone") \in Marks(u) /\ Step("join") \in Marks(u) => Step("gone") \in Marks(u)',
           \A u \in All : Step("join") \in Marks(u)' <=> Step("join") \in Marks(u),
           \A u \in All : Step("start") \in Marks(u)' \/ Step("join") \in Marks(u)'
                             => /\ Registered => Registered'
                                /\ owner["sinks"] = u => owner'["sinks"] = u
    PROVE  Joining'
<1> DEFINE X == {Step("start"), Step("gone"), Step("join")}
<1>1. /\ \A u \in All, x \in X : Has(u, x) <=> x \in Marks(u)
      /\ \A u \in All, x \in X : Has(u, x)' <=> x \in Marks(u)'
  BY HasMark, Distinct
<1>2. (is_running => worker \in {"loop", "lost"})'
  BY DEF Joining
<1>3. \A u \in All : (Has(u, Step("start")) => ~is_running /\ Registered /\ owner["sinks"] = u)'
  BY <1>1 DEF Joining
<1>4. \A u \in All : (Has(u, Step("gone")) => ~is_running)'
  BY <1>1 DEF Joining
<1>5. \A u \in All : (Has(u, Step("join")) =>
          ~is_running /\ ((Registered /\ owner["sinks"] = u) \/ Has(u, Step("gone"))))'
  BY <1>1 DEF Joining
<1>6. (~is_running /\ worker \in {"loop", "flush", "done"} => \E u \in All : Has(u, Step("join")))'
  BY <1>1 DEF Joining
<1> QED
  BY <1>2, <1>3, <1>4, <1>5, <1>6 DEF Joining

(* Nothing the parts speak of changes, but for mutexes and the progress of   *)
(* the worker.                                                               *)
LEMMA QuietStep ==
    ASSUME Semantics, UNCHANGED <<mgr, cw>>, \A u \in All : Marks(u)' = Marks(u),
           is_running => worker' \in {"loop", "lost"},
           worker' \in {"loop", "flush", "done"} => worker \in {"loop", "flush", "done"},
           \A u \in All : Step("release") \in Marks(u) /\ owner["init"] = u => owner'["init"] = u,
           \A u \in All : (Step("start") \in Marks(u) \/ Step("join") \in Marks(u)) /\ owner["sinks"] = u
                             => owner'["sinks"] = u
    PROVE  Semantics'
<1>1. Singleton'
  BY SingletonKept DEF Semantics, mgr
<1>2. (IsHeld' <=> IsHeld) /\ (Registered' <=> Registered)
  BY DEF mgr, cw, IsHeld, Registered
<1>3. \A u \in All : Destroys(u)' => Destroys(u)
  BY HasMark
<1>4. References'
  BY <1>2, <1>3, ReferencesKept DEF Semantics, cw
<1>5. Joining'
  BY <1>2, JoiningKept DEF Semantics, cw
<1> QED
  BY <1>1, <1>4, <1>5 DEF Semantics

-----------------------------------------------------------------------------
(* Every action preserves the invariant.                                     *)

LEMMA BeginPreserves == ASSUME IInv, NEW t \in Threads, Begin(t) PROVE IInv'
<1>1. Types /\ Discipline /\ Semantics /\ t \in All
  BY DEF IInv, Semantics, All
<1>2. ASSUME NEW S, NEW q, CallOf(q, S), Call(t, q)
      PROVE  /\ Types' /\ Discipline'
             /\ Marks(t) = {} /\ Marks(t)' \subseteq S
             /\ \A u \in All : u # t => Marks(u)' = Marks(u)
             /\ UNCHANGED <<owner, mgr, cw, worker>>
  <2>1. /\ Idle(t) /\ todo' = [todo EXCEPT ![t] = q] /\ owner' = owner /\ alive' = alive
        /\ UNCHANGED <<owner, mgr, cw, worker, alive, forks, corrupt>>
        /\ calls < MaxCalls /\ calls' = calls + 1
    BY <1>2 DEF Call
  <2>2. /\ Discipline' /\ todo' \in [All -> Seq(STEPS)]
        /\ Marks(t) = {} /\ Marks(t)' \subseteq S
        /\ \A u \in All : u # t => Marks(u)' = Marks(u)
    BY <1>1, <1>2, <2>1, BeginStep
  <2>3. Types'
    <3>1. calls' \in 0 .. MaxCalls
      BY <1>1, <2>1, BoundsAssumption DEF Types
    <3> QED
      BY <1>1, <2>1, <2>2, <3>1 DEF Types, mgr, cw
  <2> QED
    BY <2>1, <2>2, <2>3
<1>3. ASSUME NEW q, CallOf(q, {}), Call(t, q) PROVE IInv'
  <2>1. /\ Types' /\ Discipline' /\ Marks(t) = {} /\ Marks(t)' = {}
        /\ \A u \in All : u # t => Marks(u)' = Marks(u)
        /\ UNCHANGED <<owner, mgr, cw, worker>>
    BY <1>2, <1>3
  <2>2. is_running => worker \in {"loop", "lost"}
    BY <1>1 DEF Semantics, Joining
  <2>3. Semantics'
    BY <1>1, <2>1, <2>2, QuietStep
  <2> QED
    BY <2>1, <2>3 DEF IInv, Semantics
<1>4. CASE log(t)
  BY <1>3, <1>4, DumpCall DEF log
<1>5. CASE stop(t)
  BY <1>3, <1>5, StopCall DEF stop
<1>6. CASE terminate(t)
  BY <1>3, <1>6, TerminateCall DEF terminate
<1>7. CASE restart_sinks(t)
  BY <1>3, <1>7, StopCall DEF restart_sinks
<1>8. CASE reset_manager(t)
  BY <1>3, <1>8, ResetCall DEF reset_manager
<1>9. ASSUME NEW S, NEW q, CallOf(q, S), Call(t, q),
             S \in {{<<"config", "plain">>}, {<<"config", "cloud">>}, {Step("drop")}},
             <<"config", "cloud">> \in S => app_holds /\ ~Pending(Step("drop")),
             Step("drop") \in S => ~Pending(<<"config", "cloud">>)
      PROVE  IInv'
  <2>1. /\ Types' /\ Discipline' /\ Marks(t) = {} /\ Marks(t)' \subseteq S
        /\ \A u \in All : u # t => Marks(u)' = Marks(u)
        /\ UNCHANGED <<owner, mgr, cw, worker>>
    BY <1>2, <1>9
  <2>2. is_running => worker \in {"loop", "lost"}
    BY <1>1 DEF Semantics, Joining
  <2>3. \A u \in All, x \in {Step("release"), Step("join"), Step("start"), Step("gone"), <<"stop", "destroy">>} :
          x \in Marks(u)' <=> x \in Marks(u)
    <3>1. \A x \in {Step("release"), Step("join"), Step("start"), Step("gone"), <<"stop", "destroy">>} :
            x \notin S
      BY <1>9 DEF Step
    <3> QED
      BY <2>1, <3>1
  <2>4. Singleton'
    BY <1>1, <2>1, <2>3, SingletonKept DEF Semantics, mgr
  <2>5. (IsHeld' <=> IsHeld) /\ (Registered' <=> Registered)
    BY <2>1 DEF mgr, cw, IsHeld, Registered
  <2>6. Joining'
    BY <1>1, <2>1, <2>2, <2>3, <2>5, JoiningKept DEF Semantics, cw
  <2>7. \A x \in Special : ~Pending(x) => \A u \in All : x \notin Marks(u)
    <3> SUFFICES ASSUME NEW x \in Special, ~Pending(x), NEW u \in All, x \in Marks(u) PROVE FALSE
      OBVIOUS
    <3>1. todo[u] \in Seq(STEPS) /\ x \in Steps(todo[u])
      BY <1>1 DEF Types, Marks
    <3>2. u \in alive
      <4>1. Steps(<<>>) = {}
        BY EmptyFacts
      <4> QED
        BY <1>1, <3>1, <4>1 DEF Discipline
    <3> QED
      BY <3>1, <3>2 DEF Pending, ToSet, Steps
  <2>8. References'
    <3>1. /\ \A u \in All, x \in {<<"config", "cloud">>, Step("drop")} : Has(u, x) <=> x \in Marks(u)
          /\ \A u \in All, x \in {<<"config", "cloud">>, Step("drop")} : Has(u, x)' <=> x \in Marks(u)'
          /\ \A u \in All : Destroys(u)' <=> Destroys(u)
      BY <2>3, HasMark, Distinct
    <3>2. (IsHeld => cw_alive)' /\ \A u \in All : (Destroys(u) => ~IsHeld)'
      BY <1>1, <2>1, <2>5, <3>1 DEF References, Semantics, cw
    <3>3. \A v, u \in All : Destroys(v)' /\ Destroys(u)' => v = u
      BY <1>1, <3>1 DEF References, Semantics
    <3>4. \A u \in All : <<"config", "cloud">> \in Marks(u)' => app_holds'
      BY <1>1, <1>9, <2>1, <3>1 DEF References, Semantics, cw
    <3>5. ASSUME NEW v \in All, NEW u \in All, <<"config", "cloud">> \in Marks(v)', Step("drop") \in Marks(u)'
          PROVE  FALSE
      <4>1. Step("drop") # <<"config", "cloud">> /\ Step("drop") # <<"config", "plain">>
        BY DEF Step
      <4>2. CASE v = t /\ u = t
        BY <1>9, <2>1, <3>5, <4>1, <4>2
      <4>3. CASE v = t /\ u # t
        BY <1>9, <2>1, <2>7, <3>5, <4>3, Distinct
      <4>4. CASE v # t /\ u = t
        BY <1>9, <2>1, <2>7, <3>5, <4>4, Distinct
      <4>5. CASE v # t /\ u # t
        BY <1>1, <2>1, <3>1, <3>5, <4>5 DEF References, Semantics
      <4> QED
        BY <4>2, <4>3, <4>4, <4>5
    <3> QED
      BY <3>1, <3>2, <3>3, <3>4, <3>5 DEF References
  <2> QED
    BY <2>1, <2>4, <2>6, <2>8 DEF IInv
<1>10. CASE configure(t)
  <2>1. PICK c \in {"plain", "cloud"}, clear_old_sinks \in BOOLEAN :
          /\ c = "cloud" => app_holds /\ ~Pending(Step("drop"))
          /\ Call(t, Instance \o Configure(c, clear_old_sinks))
    BY <1>10 DEF configure
  <2>2. CallOf(Instance \o Configure(c, clear_old_sinks), {<<"config", c>>})
    BY ConfigureCall
  <2>3. /\ {<<"config", c>>} \in {{<<"config", "plain">>}, {<<"config", "cloud">>}, {Step("drop")}}
        /\ <<"config", "cloud">> \in {<<"config", c>>} => c = "cloud"
        /\ Step("drop") \notin {<<"config", c>>}
    BY DEF Step
  <2> QED
    BY <1>9, <2>1, <2>2, <2>3
<1>11. CASE drop_config(t)
  <2>1. /\ ~Pending(<<"config", "cloud">>) /\ Call(t, <<Step("drop")>>)
        /\ CallOf(<<Step("drop")>>, {Step("drop")})
        /\ <<"config", "cloud">> \notin {Step("drop")}
    BY <1>11, DropCall, Distinct DEF drop_config
  <2> QED
    BY <1>9, <2>1
<1> QED
  BY <1>4, <1>5, <1>6, <1>7, <1>8, <1>10, <1>11 DEF Begin

LEMMA WorkPreserves == ASSUME IInv, Work PROVE IInv'
<1>1. Types /\ Discipline /\ Semantics /\ Worker \in All
  BY DEF IInv, Semantics, All
<1> DEFINE q == IF worker' = "done" THEN <<>> ELSE AwsCall
<1>2. CallOf(q, {})
  BY EmptyCall, AwsCallIsACall
<1>3. /\ Idle(Worker) /\ todo' = [todo EXCEPT ![Worker] = q] /\ owner' = owner /\ alive' = alive
      /\ UNCHANGED <<owner, mgr, cw, proc, corrupt>>
  BY DEF Work, proc
<1> HIDE DEF q
<1>4. /\ Discipline' /\ todo' \in [All -> Seq(STEPS)]
      /\ Marks(Worker) = {} /\ Marks(Worker)' \subseteq {}
      /\ \A u \in All : u # Worker => Marks(u)' = Marks(u)
  BY <1>1, <1>2, <1>3, BeginStep
<1>5. /\ worker \in {"loop", "flush"} /\ worker' \in {"loop", "flush", "done"}
      /\ is_running => worker' \in {"loop", "lost"}
  BY <1>1 DEF Work, Semantics, Joining
<1>6. Types'
  BY <1>1, <1>3, <1>4, <1>5 DEF Types, mgr, cw, proc
<1>7. Semantics'
  BY <1>1, <1>3, <1>4, <1>5, QuietStep
<1> QED
  BY <1>4, <1>6, <1>7 DEF IInv, Semantics

LEMMA ForkPreserves == ASSUME IInv, Fork PROVE IInv'
<1>1. Types /\ Discipline /\ Semantics
  BY DEF IInv, Semantics
<1>2. /\ Discipline' /\ todo' \in [All -> Seq(STEPS)]
      /\ owner' \in [Mutexes -> All \cup {"free", "orphan"}] /\ alive' \in SUBSET All
      /\ \A u \in All : Marks(u)' = {}
      /\ exists
  BY <1>1, ForkStep
<1>3. /\ worker' = (IF worker = "none" THEN "none" ELSE "lost")
      /\ forks < MaxForks /\ forks' = forks + 1
      /\ UNCHANGED <<mgr, cw, calls, corrupt>>
  BY DEF Fork
<1>4. Types'
  <2>1. forks' \in 0 .. MaxForks
    BY <1>1, <1>3, BoundsAssumption DEF Types
  <2> QED
    BY <1>1, <1>2, <1>3, <2>1 DEF Types, mgr, cw
<1>5. \A u \in All, x \in Special : ~Has(u, x)'
  BY <1>2, HasMark
<1>6. \A u \in All : ~Destroys(u)'
  BY <1>2, HasMark
<1>7. Singleton'
  BY <1>1, <1>2, <1>3, <1>5, Distinct DEF Singleton, Semantics, mgr
<1>8. IsHeld' <=> IsHeld
  BY <1>3 DEF mgr, cw, IsHeld
<1>9. References'
  BY <1>1, <1>3, <1>5, <1>6, <1>8, Distinct DEF References, Semantics, cw
<1>10. Joining'
  <2>1. (is_running => worker \in {"loop", "lost"})'
    BY <1>1, <1>3 DEF Joining, Semantics, cw
  <2>2. worker' \notin {"loop", "flush", "done"}
    BY <1>3
  <2> QED
    BY <1>5, <2>1, <2>2, Distinct DEF Joining
<1> QED
  BY <1>2, <1>4, <1>7, <1>9, <1>10 DEF IInv

LEMMA RacyAccessPreserves == ASSUME IInv, RacyAccess PROVE IInv'
<1>1. UNCHANGED <<todo, owner, mgr, cw, worker, proc>> /\ corrupt' = TRUE
  BY DEF RacyAccess
<1>2. Types' /\ Discipline'
  BY <1>1 DEF IInv, Types, Discipline, mgr, cw, proc
<1>3. IsHeld' = IsHeld /\ Registered' = Registered
  BY <1>1 DEF mgr, cw, IsHeld, Registered
<1>4. \A u \in All : Destroys(u)' = Destroys(u)
  BY <1>1 DEF Destroys, Has
<1>5. \A u, x : Has(u, x)' = Has(u, x)
  BY <1>1 DEF Has
<1>6. Singleton' /\ References'
  BY <1>1, <1>3, <1>4, <1>5 DEF IInv, Singleton, References, mgr, cw
<1>7. Joining'
  BY <1>1, <1>3, <1>5 DEF IInv, Joining, mgr, cw
<1> QED
  BY <1>2, <1>6, <1>7 DEF IInv

LEMMA MutexPreserves == ASSUME IInv, NEW t \in All, Acquire(t) \/ Release(t) PROVE IInv'
<1>1. Types /\ Discipline /\ Semantics
  BY DEF IInv, Semantics
<1>2. /\ Discipline' /\ todo' \in [All -> Seq(STEPS)]
      /\ Marks(t) = Kept(t) /\ Marks(t)' = Kept(t)
      /\ \A u \in All : u # t => Marks(u)' = Marks(u)
  BY <1>1, MutexSteps
<1>3. PICK m \in Mutexes :
                /\ \A n \in Mutexes : n # m => owner'[n] = owner[n]
                /\ owner[m] \in {"free", t} /\ (m = "init" => Step("release") \notin Kept(t))
                /\ owner' \in [Mutexes -> All \cup {"free", "orphan"}]
                /\ (m = "sinks" => Step("start") \notin Kept(t) /\ Step("join") \notin Kept(t))
  BY <1>1, MutexSteps
<1>4. UNCHANGED <<mgr, cw, worker, proc, corrupt>>
  BY DEF Acquire, Release
<1>5. Types'
  BY <1>1, <1>2, <1>3, <1>4 DEF Types, mgr, cw, proc
<1>6. "init" \in Mutexes /\ "sinks" \in Mutexes /\ \A u \in All : u # "free"
  BY ThreadsAssumption DEF Mutexes, All
<1>7. \A u \in All : Step("release") \in Marks(u) /\ owner["init"] = u => owner'["init"] = u
  BY <1>2, <1>3, <1>6
<1>8. \A u \in All : (Step("start") \in Marks(u) \/ Step("join") \in Marks(u)) /\ owner["sinks"] = u
                             => owner'["sinks"] = u
  BY <1>2, <1>3, <1>6
<1>9. \A u \in All : Marks(u)' = Marks(u)
  BY <1>2
<1>10. /\ is_running => worker' \in {"loop", "lost"}
       /\ worker' \in {"loop", "flush", "done"} => worker \in {"loop", "flush", "done"}
  BY <1>1, <1>4 DEF Semantics, Joining
<1>11. Semantics'
  BY <1>1, <1>4, <1>7, <1>8, <1>9, <1>10, QuietStep
<1> QED
  BY <1>2, <1>5, <1>11 DEF IInv, Semantics

(* instance, dump and child_on_fork.                                         *)
LEMMA QuietPreserves ==
    ASSUME IInv, NEW t \in All, instance(t) \/ dump(t) \/ child_on_fork(t)
    PROVE  IInv'
<1>1. Types /\ Discipline /\ Semantics
  BY DEF IInv, Semantics
<1>2. UNCHANGED <<mgr, cw, worker, proc, corrupt>> /\ alive' = alive
  BY DEF instance, dump, child_on_fork, proc
<1>3. /\ owner' \in [Mutexes -> All \cup {"free", "orphan"}]
      /\ \A m \in Mutexes, u \in All : owner'[m] = u <=> owner[m] = u
  <2>1. \A u \in All : u \notin {"free", "orphan"}
    BY ThreadsAssumption DEF All
  <2>2. CASE owner' = owner
    BY <1>1, <2>2 DEF Types
  <2>3. CASE owner' = ForkReset
    <3>1. owner' = [m \in Mutexes |-> IF m # "init" /\ owner[m] = "orphan" THEN "free" ELSE owner[m]]
      BY <2>3 DEF ForkReset
    <3> QED
      BY <1>1, <2>1, <3>1 DEF Types
  <2> QED
    BY <2>2, <2>3 DEF instance, dump, child_on_fork
<1>4. /\ Discipline' /\ todo' \in [All -> Seq(STEPS)] /\ Marks(t)' = Marks(t)
      /\ \A u \in All : u # t => Marks(u)' = Marks(u)
  <2>1. CASE instance(t)
    BY <1>1, <2>1, InstanceStep
  <2>2. ASSUME NEW op \in {"snapshot", "dump", "fork_reset"}, At(t, op), Then(t, <<>>)
        PROVE  /\ Discipline' /\ todo' \in [All -> Seq(STEPS)] /\ Marks(t)' = Marks(t)
               /\ \A u \in All : u # t => Marks(u)' = Marks(u)
    <3>1. op \notin {"nothing", "lock", "unlock"} /\ op \in Ops
      BY DEF Ops
    <3>2. /\ Discipline' /\ todo' \in [All -> Seq(STEPS)]
          /\ Marks(t)' = Kept(t)
          /\ \A u \in All : u # t => Marks(u)' = Marks(u)
      BY <1>1, <1>2, <1>3, <2>2, <3>1, Pop
    <3>3. Marks(t) = ({<<op, Arg(t)>>} \cap Special) \cup Kept(t)
      BY <1>1, <2>2, <3>1, MarksAt
    <3>4. <<op, Arg(t)>> \notin Special
      BY DEF Special, Step
    <3> QED
      BY <3>2, <3>3, <3>4
  <2> QED
    BY <2>1, <2>2 DEF dump, child_on_fork
<1>5. Types'
  BY <1>1, <1>2, <1>3, <1>4 DEF Types, mgr, cw, proc
<1>6. \A u \in All : Marks(u)' = Marks(u)
  BY <1>4
<1>7. /\ is_running => worker' \in {"loop", "lost"}
      /\ worker' \in {"loop", "flush", "done"} => worker \in {"loop", "flush", "done"}
  BY <1>1, <1>2 DEF Semantics, Joining
<1>8. Semantics'
  <2>1. "init" \in Mutexes /\ "sinks" \in Mutexes
    BY DEF Mutexes
  <2> QED
    BY <1>1, <1>2, <1>3, <1>6, <1>7, <2>1, QuietStep
<1> QED
  BY <1>4, <1>5, <1>8 DEF IInv, Semantics

LEMMA CreatePreserves == ASSUME IInv, NEW t \in All, create(t) PROVE IInv'
<1>1. Types /\ Discipline /\ Semantics
  BY DEF IInv, Semantics
<1>2. /\ At(t, "create") /\ Then(t, <<>>)
      /\ UNCHANGED <<owner, sinks, config, cw, worker, proc, corrupt>> /\ alive' = alive
  BY DEF create, proc
<1>3. \/ exists /\ UNCHANGED <<exists, managers>>
      \/ ~exists /\ exists' = TRUE /\ managers' = managers + 1
  BY DEF create, MustCreate
<1>4. /\ Discipline' /\ todo' \in [All -> Seq(STEPS)] /\ Marks(t)' = Kept(t)
      /\ \A u \in All : u # t => Marks(u)' = Marks(u)
  BY <1>1, <1>2, Pop
<1>5. Marks(t) = Kept(t) /\ Step("release") \notin Kept(t)
  <2>1. <<"create", Arg(t)>> \notin Special
    BY DEF Special, Step
  <2> QED
    BY <1>1, <1>2, <2>1, MarksAt
<1>6. owner["init"] = t
  BY <1>1, <1>2, Owners
<1>7. \A u \in All : Marks(u)' = Marks(u)
  BY <1>4, <1>5
<1>8. Types'
  <2>1. exists' \in BOOLEAN /\ managers' \in Nat
    <3>1. exists \in BOOLEAN /\ managers \in Nat
      BY <1>1 DEF Types
    <3>2. CASE exists /\ UNCHANGED <<exists, managers>>
      BY <3>1, <3>2
    <3>3. CASE ~exists /\ exists' = TRUE /\ managers' = managers + 1
      <4>1. exists' \in BOOLEAN
        BY <3>3
      <4>2. managers' \in Nat
        BY <3>1, <3>3
      <4> QED
        BY <4>1, <4>2
    <3> QED
      BY <1>3, <3>2, <3>3
  <2> QED
    BY <1>1, <1>2, <1>4, <2>1 DEF Types, cw, proc
<1>9. Singleton'
  <2>1. CASE exists
    BY <1>1, <1>2, <1>3, <1>7, <2>1, SingletonKept DEF Semantics
  <2>2. CASE ~exists
    <3>1. \A u \in All : Step("release") \notin Marks(u)
      BY <1>1, <1>5, <1>6, HasMark, Distinct DEF Semantics, Singleton
    <3>2. managers = 0
      BY <1>1, <2>2, <3>1, HasMark, Distinct DEF Semantics, Singleton
    <3>3. \A u \in All : ~Has(u, Step("release"))'
      BY <1>7, <3>1, HasMark, Distinct
    <3> QED
      BY <1>3, <2>2, <3>2, <3>3 DEF Singleton
  <2> QED
    BY <2>1, <2>2
<1>10. (IsHeld' <=> IsHeld) /\ (Registered' <=> Registered)
  BY <1>2 DEF cw, IsHeld, Registered
<1>11. References'
  <2>1. \A u \in All : Destroys(u)' => Destroys(u)
    BY <1>7, HasMark
  <2> QED
    BY <1>1, <1>2, <1>7, <1>10, <2>1, ReferencesKept DEF Semantics, cw
<1>12. Joining'
  <2>1. is_running => worker \in {"loop", "lost"}
    BY <1>1 DEF Semantics, Joining
  <2> QED
    BY <1>1, <1>2, <1>7, <1>10, <2>1, JoiningKept DEF Semantics, cw
<1> QED
  BY <1>4, <1>8, <1>9, <1>11, <1>12 DEF IInv

LEMMA DetachPreserves == ASSUME IInv, NEW t \in All, detach(t) PROVE IInv'
<1>1. Types /\ Discipline /\ Semantics
  BY DEF IInv, Semantics
<1>2. /\ exists' = FALSE
      /\ UNCHANGED <<owner, managers, sinks, config, cw, worker, proc, corrupt>>
  BY DEF detach
<1>3. /\ Discipline' /\ todo' \in [All -> Seq(STEPS)]
      /\ Marks(t) = Kept(t) /\ Step("release") \notin Kept(t)
      /\ Marks(t)' = Kept(t) \cup (IF exists THEN {Step("release")} ELSE {})
      /\ \A u \in All : u # t => Marks(u)' = Marks(u)
      /\ owner["init"] = t
  BY <1>1, DetachStep
<1>4. Types'
  BY <1>1, <1>2, <1>3 DEF Types, cw, proc
<1>5. \A u \in All : \A x \in Special : x # Step("release") => (x \in Marks(u)' <=> x \in Marks(u))
  BY <1>3
<1>6. Singleton'
  <2>1. /\ \A u \in All : Has(u, Step("release")) <=> Step("release") \in Marks(u)
        /\ \A u \in All : Has(u, Step("release"))' <=> Step("release") \in Marks(u)'
    BY HasMark, Distinct
  <2>2. CASE exists
    <3>1. \A u \in All : Step("release") \in Marks(u)' <=> u = t
      BY <1>1, <1>3, <2>1, <2>2 DEF Semantics, Singleton
    <3> QED
      BY <1>1, <1>2, <1>3, <2>1, <2>2, <3>1 DEF Semantics, Singleton
  <2>3. CASE ~exists
    <3>1. \A u \in All : Step("release") \in Marks(u)' <=> Step("release") \in Marks(u)
      BY <1>3, <2>3
    <3> QED
      BY <1>1, <1>2, <2>1, <2>3, <3>1 DEF Semantics, Singleton
  <2> QED
    BY <2>2, <2>3
<1>7. (IsHeld' <=> IsHeld) /\ (Registered' <=> Registered)
  BY <1>2 DEF cw, IsHeld, Registered
<1>8. References'
  <2>1. \A u \in All : Destroys(u)' => Destroys(u)
    BY <1>5, HasMark, Distinct
  <2>2. \A u \in All : <<"config", "cloud">> \in Marks(u)' => <<"config", "cloud">> \in Marks(u)
    BY <1>5, Distinct
  <2>3. \A u \in All : Step("drop") \in Marks(u)' => Step("drop") \in Marks(u)
    BY <1>5, Distinct
  <2> QED
    BY <1>1, <1>2, <1>7, <2>1, <2>2, <2>3, ReferencesKept DEF Semantics, cw
<1>9. Joining'
  <2>1. is_running => worker \in {"loop", "lost"}
    BY <1>1 DEF Semantics, Joining
  <2>2. \A u \in All, x \in {Step("start"), Step("gone"), Step("join")} : x \in Marks(u)' <=> x \in Marks(u)
    BY <1>5, Distinct
  <2> QED
    BY <1>1, <1>2, <1>7, <2>1, <2>2, JoiningKept DEF Semantics, cw
<1> QED
  BY <1>3, <1>4, <1>6, <1>8, <1>9 DEF IInv

LEMMA ContainsFacts ==
    /\ \A x : ~Contains(<<>>, x)
    /\ \A S : \A q, r \in Seq(S) : \A x : Contains(q \o r, x) <=> Contains(q, x) \/ Contains(r, x)
<1>1. \A x : ~Contains(<<>>, x)
  BY DEF Contains
<1>2. ASSUME NEW S, NEW q \in Seq(S), NEW r \in Seq(S), NEW x
      PROVE  Contains(q \o r, x) <=> Contains(q, x) \/ Contains(r, x)
  <2>1. /\ Len(q \o r) = Len(q) + Len(r) /\ Len(q) \in Nat /\ Len(r) \in Nat
        /\ \A i \in 1 .. Len(q) + Len(r) : (q \o r)[i] = IF i <= Len(q) THEN q[i] ELSE r[i - Len(q)]
    BY ConcatProperties
  <2>2. ASSUME Contains(q \o r, x) PROVE Contains(q, x) \/ Contains(r, x)
    <3>1. PICK i \in 1 .. Len(q) + Len(r) : (q \o r)[i] = x
      BY <2>1, <2>2 DEF Contains
    <3>2. (i \in 1 .. Len(q) /\ q[i] = x) \/ (i - Len(q) \in 1 .. Len(r) /\ r[i - Len(q)] = x)
      BY <2>1, <3>1
    <3> QED
      BY <3>2 DEF Contains
  <2>3. ASSUME Contains(q, x) PROVE Contains(q \o r, x)
    <3>1. PICK i \in 1 .. Len(q) : q[i] = x
      BY <2>3 DEF Contains
    <3>2. i \in 1 .. Len(q) + Len(r) /\ (q \o r)[i] = x
      BY <2>1, <3>1
    <3> QED
      BY <2>1, <3>2 DEF Contains
  <2>4. ASSUME Contains(r, x) PROVE Contains(q \o r, x)
    <3>1. PICK i \in 1 .. Len(r) : r[i] = x
      BY <2>4 DEF Contains
    <3>2. i + Len(q) \in 1 .. Len(q) + Len(r) /\ (q \o r)[i + Len(q)] = x
      BY <2>1, <3>1
    <3> QED
      BY <2>1, <3>2 DEF Contains
  <2> QED
    BY <2>2, <2>3, <2>4
<1> QED
  BY <1>1, <1>2

LEMMA PushPreserves ==
    ASSUME IInv, NEW t \in All, push(t)
    PROVE  IInv' /\ (Registered => Registered') /\ (IsHeld' <=> IsHeld)
<1>1. Types /\ Discipline /\ Semantics
  BY DEF IInv, Semantics
<1>2. /\ At(t, "push") /\ Then(t, <<>>) /\ sinks' \in {sinks, sinks \o SinksOf(config)}
      /\ UNCHANGED <<owner, exists, managers, config, cw, worker, proc, corrupt>> /\ alive' = alive
  BY DEF push, proc
<1>3. /\ Discipline' /\ todo' \in [All -> Seq(STEPS)] /\ Marks(t)' = Kept(t)
      /\ \A u \in All : u # t => Marks(u)' = Marks(u)
  BY <1>1, <1>2, Pop
<1>4. Marks(t) = Kept(t)
  <2>1. <<"push", Arg(t)>> \notin Special
    BY DEF Special, Step
  <2> QED
    BY <1>1, <1>2, <2>1, MarksAt
<1>5. \A u \in All : Marks(u)' = Marks(u)
  BY <1>3, <1>4
<1>6. sinks \in Seq({"file", "cw"}) /\ SinksOf(config) \in Seq({"file", "cw"})
  <2>1. <<"file", "cw">> \in Seq({"file", "cw"}) /\ <<"file">> \in Seq({"file", "cw"})
    OBVIOUS
  <2>2. sinks \in Seq({"file", "cw"})
    BY <1>1 DEF Types
  <2> QED
    BY <2>1, <2>2 DEF SinksOf
<1>7. Types'
  <2>1. sinks' \in Seq({"file", "cw"})
    <3>1. sinks \o SinksOf(config) \in Seq({"file", "cw"})
      BY <1>6, ConcatProperties
    <3> QED
      BY <1>2, <1>6, <3>1
  <2> QED
    BY <1>1, <1>2, <1>3, <2>1 DEF Types, cw, proc
<1> DEFINE more == SinksOf(config)
<1>8a. \A x : Contains(sinks \o more, x) <=> Contains(sinks, x) \/ Contains(more, x)
  BY <1>6, ContainsFacts
<1> HIDE DEF more
<1>8b. sinks' \in {sinks, sinks \o more}
  BY <1>2 DEF more
<1>8. Registered => Registered'
  BY <1>8a, <1>8b DEF Registered
<1>9. Registered' => Registered \/ config = "cloud"
  <2>1. config # "cloud" => ~Contains(more, "cw")
    BY DEF SinksOf, Contains, more
  <2> QED
    BY <1>8a, <1>8b, <2>1 DEF Registered
<1>10. IsHeld' <=> IsHeld
  BY <1>2, <1>8, <1>9 DEF IsHeld, Held, Registered, cw
<1>11. Singleton'
  BY <1>1, <1>2, <1>5, SingletonKept DEF Semantics
<1>12. References'
  <2>1. \A u \in All : Destroys(u)' => Destroys(u)
    BY <1>5, HasMark
  <2> QED
    BY <1>1, <1>2, <1>5, <1>10, <2>1, ReferencesKept DEF Semantics, cw
<1>13. Joining'
  <2>1. is_running => worker \in {"loop", "lost"}
    BY <1>1 DEF Semantics, Joining
  <2> QED
    BY <1>1, <1>2, <1>5, <1>8, <2>1, JoiningKept DEF Semantics, cw
<1> QED
  BY <1>3, <1>7, <1>8, <1>10, <1>11, <1>12, <1>13 DEF IInv

(* The parts of the invariant that speak of marks, in one place.             *)
LEMMA InTermsOfMarks ==
    ASSUME Semantics, NEW u \in All
    PROVE  /\ Step("release") \in Marks(u) => ~exists /\ managers = 1 /\ owner["init"] = u
           /\ Step("start") \in Marks(u) => ~is_running /\ Registered /\ owner["sinks"] = u
           /\ Step("gone") \in Marks(u) => ~is_running
           /\ Step("join") \in Marks(u) =>
                ~is_running /\ ((Registered /\ owner["sinks"] = u) \/ Step("gone") \in Marks(u))
           /\ Destroys(u) => ~IsHeld
           /\ <<"config", "cloud">> \in Marks(u) => app_holds
           /\ Step("drop") \in Marks(u) => \A v \in All : <<"config", "cloud">> \notin Marks(v)
<1> DEFINE X == {Step("release"), Step("start"), Step("gone"), Step("join"), <<"config", "cloud">>, Step("drop")}
<1>1. \A v \in All, x \in X : Has(v, x) <=> x \in Marks(v)
  BY HasMark, Distinct
<1>2. Step("release") \in Marks(u) => ~exists /\ managers = 1 /\ owner["init"] = u
  BY <1>1 DEF Semantics, Singleton
<1>3. /\ Step("start") \in Marks(u) => ~is_running /\ Registered /\ owner["sinks"] = u
      /\ Step("gone") \in Marks(u) => ~is_running
      /\ Step("join") \in Marks(u) =>
           ~is_running /\ ((Registered /\ owner["sinks"] = u) \/ Step("gone") \in Marks(u))
  BY <1>1 DEF Semantics, Joining
<1>4. /\ Destroys(u) => ~IsHeld
      /\ <<"config", "cloud">> \in Marks(u) => app_holds
      /\ Step("drop") \in Marks(u) => \A v \in All : <<"config", "cloud">> \notin Marks(v)
  BY <1>1 DEF Semantics, References
<1> QED
  BY <1>2, <1>3, <1>4

LEMMA JoinPreserves == ASSUME IInv, NEW t \in All, join(t) PROVE IInv'
<1>1. Types /\ Discipline /\ Semantics
  BY DEF IInv, Semantics
<1>2. /\ At(t, "join") /\ Then(t, <<>>) /\ worker' = "none"
      /\ UNCHANGED <<owner, mgr, cw, proc, corrupt>> /\ alive' = alive
  BY DEF join, proc
<1>3. /\ Discipline' /\ todo' \in [All -> Seq(STEPS)] /\ Marks(t)' = Kept(t)
      /\ \A u \in All : u # t => Marks(u)' = Marks(u)
  BY <1>1, <1>2, Pop
<1>4. Marks(t) = Kept(t) \cup {Step("join")} /\ Step("join") \notin Kept(t)
  <2>1. Arg(t) = "none" /\ <<"join", "none">> = Step("join")
    BY <1>1, <1>2, MarksAt DEF Ops, Step
  <2> QED
    BY <1>1, <1>2, <2>1, MarksAt, Distinct
<1>5. Types'
  BY <1>1, <1>2, <1>3 DEF Types, mgr, cw, proc
<1>6. \A u \in All : \A x \in Special : x # Step("join") => (x \in Marks(u)' <=> x \in Marks(u))
  BY <1>3, <1>4
<1>7. (IsHeld' <=> IsHeld) /\ (Registered' <=> Registered)
  BY <1>2 DEF mgr, cw, IsHeld, Registered
<1>8. Singleton'
  BY <1>1, <1>2, <1>6, SingletonKept, Distinct DEF Semantics, mgr
<1>9. References'
  <2>1. \A u \in All : Destroys(u)' => Destroys(u)
    BY <1>6, HasMark, Distinct
  <2>2. /\ \A u \in All : <<"config", "cloud">> \in Marks(u)' => <<"config", "cloud">> \in Marks(u)
        /\ \A u \in All : Step("drop") \in Marks(u)' => Step("drop") \in Marks(u)
    BY <1>6, Distinct
  <2> QED
    BY <1>1, <1>2, <1>7, <2>1, <2>2, ReferencesKept DEF Semantics, cw
<1>10. Joining'
  <2>1. \A u \in All, x \in {Step("start"), Step("gone"), Step("join")} : Has(u, x)' <=> x \in Marks(u)'
    BY HasMark, Distinct
  <2>2. /\ \A u \in All, x \in {Step("start"), Step("gone")} : x \in Marks(u)' <=> x \in Marks(u)
        /\ \A u \in All : Step("join") \in Marks(u)' => Step("join") \in Marks(u)
    BY <1>3, <1>4, <1>6, Distinct
  <2>3. ~is_running /\ ~is_running'
    BY <1>1, <1>2, <1>4, InTermsOfMarks DEF cw
  <2>4. \A u \in All : (Has(u, Step("start")) => ~is_running /\ Registered /\ owner["sinks"] = u)'
    BY <1>1, <1>2, <1>7, <2>1, <2>2, <2>3, InTermsOfMarks
  <2>5. \A u \in All : (Has(u, Step("join")) =>
          ~is_running /\ ((Registered /\ owner["sinks"] = u) \/ Has(u, Step("gone"))))'
    BY <1>1, <1>2, <1>7, <2>1, <2>2, <2>3, InTermsOfMarks
  <2> QED
    BY <1>2, <2>3, <2>4, <2>5 DEF Joining
<1> QED
  BY <1>3, <1>5, <1>8, <1>9, <1>10 DEF IInv

(* The sink has been joined and is registered when it is started again.      *)
LEMMA AtStart ==
    ASSUME IInv, NEW t \in All, At(t, "start")
    PROVE  /\ Marks(t) = Kept(t) \cup {Step("start")} /\ Step("start") \notin Kept(t)
           /\ Step("gone") \notin Kept(t) /\ Step("join") \notin Kept(t)
           /\ ~is_running /\ Registered /\ owner["sinks"] = t
           /\ \A u \in All : Step("gone") \notin Marks(u) /\ Step("join") \notin Marks(u)
           /\ worker \in {"none", "lost"}
<1>1. Types /\ Discipline /\ Semantics
  BY DEF IInv, Semantics
<1>2. Arg(t) = "none" /\ <<"start", "none">> = Step("start")
  BY <1>1, MarksAt DEF Ops, Step
<1>3. /\ Marks(t) = Kept(t) \cup {Step("start")} /\ Step("start") \notin Kept(t)
      /\ Step("gone") \notin Kept(t) /\ Step("join") \notin Kept(t)
  BY <1>1, <1>2, MarksAt, Distinct
<1>4. ~is_running /\ Registered /\ owner["sinks"] = t
  BY <1>1, <1>3, InTermsOfMarks
<1>5. IsHeld
  BY <1>4 DEF IsHeld, Held, Registered
<1>6. \A u \in All : Step("gone") \notin Marks(u)
  BY <1>1, <1>5, InTermsOfMarks, HasMark
<1>7. \A u \in All : Step("join") \notin Marks(u)
  BY <1>1, <1>3, <1>4, <1>6, InTermsOfMarks, Distinct
<1>8. worker \in {"none", "lost"}
  BY <1>1, <1>4, <1>7, HasMark, Distinct DEF Semantics, Joining, Types
<1> QED
  BY <1>3, <1>4, <1>6, <1>7, <1>8

LEMMA StartPreserves == ASSUME IInv, NEW t \in All, start(t) PROVE IInv'
<1>1. Types /\ Discipline /\ Semantics
  BY DEF IInv, Semantics
<1>2. /\ At(t, "start") /\ Then(t, <<>>) /\ worker' = "loop" /\ is_running' = TRUE
      /\ alive' = alive \cup {Worker}
      /\ UNCHANGED <<owner, mgr, app_holds, cw_alive, forks, calls, corrupt>>
  BY DEF start
<1>3. /\ Discipline' /\ todo' \in [All -> Seq(STEPS)] /\ Marks(t)' = Kept(t)
      /\ \A u \in All : u # t => Marks(u)' = Marks(u)
  BY <1>1, <1>2, Pop
<1>4. /\ Marks(t) = Kept(t) \cup {Step("start")} /\ Step("start") \notin Kept(t)
      /\ owner["sinks"] = t
      /\ \A u \in All : Step("gone") \notin Marks(u) /\ Step("join") \notin Marks(u)
  BY <1>2, AtStart
<1>5. Types'
  BY <1>1, <1>2, <1>3 DEF Types, mgr, All
<1>6. \A u \in All : \A x \in Special : x # Step("start") => (x \in Marks(u)' <=> x \in Marks(u))
  BY <1>3, <1>4
<1>7. (IsHeld' <=> IsHeld) /\ (Registered' <=> Registered)
  BY <1>2 DEF mgr, IsHeld, Registered
<1>8. Singleton'
  BY <1>1, <1>2, <1>6, SingletonKept, Distinct DEF Semantics, mgr
<1>9. References'
  <2>1. \A u \in All : Destroys(u)' => Destroys(u)
    BY <1>6, HasMark, Distinct
  <2>2. /\ \A u \in All : <<"config", "cloud">> \in Marks(u)' => <<"config", "cloud">> \in Marks(u)
        /\ \A u \in All : Step("drop") \in Marks(u)' => Step("drop") \in Marks(u)
    BY <1>6, Distinct
  <2> QED
    BY <1>1, <1>2, <1>7, <2>1, <2>2, ReferencesKept DEF Semantics
<1>10. Joining'
  <2>1. \A u \in All, x \in {Step("start"), Step("gone"), Step("join")} : Has(u, x)' <=> x \in Marks(u)'
    BY HasMark, Distinct
  <2>2. \A u \in All : Step("start") \notin Marks(u)
                       \/ (u = t /\ Step("start") \notin Marks(u)')
    BY <1>1, <1>3, <1>4, InTermsOfMarks
  <2>3. \A u \in All, x \in {Step("start"), Step("gone"), Step("join")} : x \notin Marks(u)'
    BY <1>3, <1>4, <1>6, <2>2, Distinct
  <2> QED
    BY <1>2, <2>1, <2>3 DEF Joining
<1> QED
  BY <1>3, <1>5, <1>8, <1>9, <1>10 DEF IInv

(* The sink is stopped, joined and unregistered when it goes.                *)
LEMMA AtGone ==
    ASSUME IInv, NEW t \in All, At(t, "gone")
    PROVE  /\ Marks(t) = Kept(t) \cup {Step("gone")} /\ Step("gone") \notin Kept(t)
           /\ Step("join") \notin Kept(t) /\ <<"stop", "destroy">> \notin Kept(t)
           /\ ~is_running /\ ~IsHeld /\ ~Registered
           /\ \A u \in All : Step("join") \notin Marks(u)
           /\ worker \in {"none", "lost"}
<1>1. Types /\ Discipline /\ Semantics
  BY DEF IInv, Semantics
<1>2. Arg(t) = "none" /\ <<"gone", "none">> = Step("gone")
  BY <1>1, MarksAt DEF Ops, Step
<1>3. /\ Marks(t) = Kept(t) \cup {Step("gone")} /\ Step("gone") \notin Kept(t)
      /\ Step("join") \notin Kept(t) /\ <<"stop", "destroy">> \notin Kept(t)
  BY <1>1, <1>2, MarksAt, Distinct
<1>4. Destroys(t)
  BY <1>3, HasMark
<1>5. ~is_running /\ ~IsHeld
  BY <1>1, <1>3, <1>4, InTermsOfMarks
<1>6. ~Registered
  BY <1>5 DEF IsHeld, Held, Registered
<1>7. ASSUME NEW u \in All, Step("join") \in Marks(u) PROVE FALSE
  <2>1. Step("gone") \in Marks(u)
    BY <1>1, <1>6, <1>7, InTermsOfMarks
  <2>2. Destroys(u)
    BY <2>1, HasMark
  <2>3. u = t
    BY <1>1, <1>4, <2>2 DEF Semantics, References
  <2> QED
    BY <1>3, <1>7, <2>3, Distinct
<1>8. worker \in {"none", "lost"}
  BY <1>1, <1>5, <1>7, HasMark, Distinct DEF Semantics, Joining, Types
<1> QED
  BY <1>3, <1>5, <1>6, <1>7, <1>8

LEMMA GonePreserves == ASSUME IInv, NEW t \in All, gone(t) PROVE IInv'
<1>1. Types /\ Discipline /\ Semantics
  BY DEF IInv, Semantics
<1>2. /\ At(t, "gone") /\ Then(t, <<>>) /\ cw_alive' = FALSE
      /\ UNCHANGED <<owner, mgr, app_holds, is_running, worker, proc, corrupt>> /\ alive' = alive
  BY DEF gone, proc
<1>3. /\ Discipline' /\ todo' \in [All -> Seq(STEPS)] /\ Marks(t)' = Kept(t)
      /\ \A u \in All : u # t => Marks(u)' = Marks(u)
  BY <1>1, <1>2, Pop
<1>4. /\ Marks(t) = Kept(t) \cup {Step("gone")} /\ ~is_running /\ ~IsHeld
      /\ \A u \in All : Step("join") \notin Marks(u)
  BY <1>2, AtGone
<1>5. Types'
  BY <1>1, <1>2, <1>3 DEF Types, mgr, proc
<1>6. \A u \in All : \A x \in Special : /\ x \in Marks(u)' => x \in Marks(u)
                                        /\ x # Step("gone") => (x \in Marks(u)' <=> x \in Marks(u))
  BY <1>3, <1>4
<1>7. (IsHeld' <=> IsHeld) /\ (Registered' <=> Registered)
  BY <1>2 DEF mgr, IsHeld, Registered
<1>8. Singleton'
  BY <1>1, <1>2, <1>6, SingletonKept, Distinct DEF Semantics, mgr
<1>9. References'
  <2>1. \A u \in All : Destroys(u)' => Destroys(u)
    BY <1>6, HasMark, Distinct
  <2>2. \A u \in All, x \in {<<"config", "cloud">>, Step("drop")} : Has(u, x)' => Has(u, x)
    BY <1>6, HasMark, Distinct
  <2>3. ~IsHeld'
    BY <1>4, <1>7
  <2> QED
    BY <1>1, <1>2, <2>1, <2>2, <2>3 DEF References, Semantics
<1>10. Joining'
  <2>1. is_running => worker \in {"loop", "lost"}
    BY <1>4
  <2> QED
    BY <1>1, <1>2, <1>4, <1>6, <1>7, <2>1, JoiningKept, Distinct DEF Semantics
<1> QED
  BY <1>3, <1>5, <1>8, <1>9, <1>10 DEF IInv

LEMMA StopPreserves == ASSUME IInv, NEW t \in All, stop_impl(t) PROVE IInv'
<1>1. Types /\ Discipline /\ Semantics
  BY DEF IInv, Semantics
<1> DEFINE p == Arg(t)
           Destroying == IF p = "destroy" THEN {<<"stop", "destroy">>} ELSE {}
<1>2. /\ Discipline' /\ todo' \in [All -> Seq(STEPS)] /\ p \in Purposes
      /\ \A u \in All : u # t => Marks(u)' = Marks(u)
      /\ Marks(t) = Kept(t) \cup Destroying
      /\ p # "destroy" => owner["sinks"] = t
      /\ \/ /\ is_running /\ ~is_running' /\ (p = "destroy" \/ Registered)
            /\ Marks(t)' = Kept(t) \cup (IF worker = "lost" THEN {} ELSE {Step("join")})
                 \cup (IF p = "restart" THEN {Step("start")} ELSE
                       IF p = "destroy" THEN {Step("gone")} ELSE {})
         \/ /\ is_running' = is_running
            /\ ~is_running \/ (p # "destroy" /\ ~Registered)
            /\ Marks(t)' = Kept(t) \cup (IF p = "destroy" THEN {Step("gone")} ELSE {})
  BY <1>1, StopStep
<1>3. UNCHANGED <<owner, mgr, app_holds, cw_alive, worker, proc, corrupt>>
  BY DEF stop_impl
<1>4. Step("gone") \notin Kept(t) /\ Step("start") \notin Kept(t) /\ Step("join") \notin Kept(t)
      /\ <<"stop", "destroy">> \notin Kept(t)
  <2>1. At(t, "stop")
    BY DEF stop_impl
  <2> QED
    BY <1>1, <2>1, MarksAt
<1> HIDE DEF p
<1>5. is_running' \in BOOLEAN
  BY <1>1 DEF stop_impl, Types
<1>6. Types'
  BY <1>1, <1>2, <1>3, <1>5 DEF Types, mgr, proc
<1>7. (IsHeld' <=> IsHeld) /\ (Registered' <=> Registered)
  BY <1>3 DEF mgr, IsHeld, Registered
<1>8. \A u \in All, x \in {Step("release"), <<"config", "cloud">>, Step("drop")} :
        x \in Marks(u)' <=> x \in Marks(u)
  <2>1. \A x \in {Step("release"), <<"config", "cloud">>, Step("drop")} :
          /\ x \in Marks(t) <=> x \in Kept(t)
          /\ x \in Marks(t)' <=> x \in Kept(t)
    BY <1>2, Distinct
  <2> QED
    BY <1>2, <2>1
<1>9. \A u \in All : Destroys(u)' <=> Destroys(u)
  <2>1. Step("gone") \in Marks(t)' \/ <<"stop", "destroy">> \in Marks(t)' <=> p = "destroy"
    BY <1>2, <1>4, Distinct
  <2>2. Step("gone") \in Marks(t) \/ <<"stop", "destroy">> \in Marks(t) <=> p = "destroy"
    BY <1>2, <1>4, Distinct
  <2> QED
    BY <1>2, <2>1, <2>2, HasMark
<1>10. Singleton'
  BY <1>1, <1>3, <1>8, SingletonKept DEF Semantics, mgr
<1>11. References'
  BY <1>1, <1>3, <1>7, <1>8, <1>9, ReferencesKept DEF Semantics
<1>12. ASSUME /\ is_running /\ ~is_running' /\ (p = "destroy" \/ Registered)
              /\ Marks(t)' = Kept(t) \cup (IF worker = "lost" THEN {} ELSE {Step("join")})
                   \cup (IF p = "restart" THEN {Step("start")} ELSE
                         IF p = "destroy" THEN {Step("gone")} ELSE {})
       PROVE  Joining'
  <2>1. \A u \in All, x \in {Step("start"), Step("gone"), Step("join")} : Has(u, x)' <=> x \in Marks(u)'
    BY HasMark, Distinct
  <2>2. \A u \in All, x \in {Step("start"), Step("gone"), Step("join")} : x \notin Marks(u)
    BY <1>1, <1>12, InTermsOfMarks
  <2>3. \A u \in All : (Has(u, Step("start")) => ~is_running /\ Registered /\ owner["sinks"] = u)'
    <3>1. Step("start") \in Marks(t)' => p = "restart"
      BY <1>4, <1>12, Distinct
    <3> QED
      BY <1>2, <1>3, <1>7, <1>12, <2>1, <2>2, <3>1
  <2>4. \A u \in All : (Has(u, Step("join")) =>
          ~is_running /\ ((Registered /\ owner["sinks"] = u) \/ Has(u, Step("gone"))))'
    <3>1. p = "destroy" => Step("gone") \in Marks(t)'
      BY <1>12
    <3> QED
      BY <1>2, <1>3, <1>7, <1>12, <2>1, <2>2, <3>1
  <2>5. (~is_running /\ worker \in {"loop", "flush", "done"} => \E u \in All : Has(u, Step("join")))'
    BY <1>3, <1>12, <2>1
  <2>6. (is_running => worker \in {"loop", "lost"})'
    BY <1>12
  <2>7. \A u \in All : (Has(u, Step("gone")) => ~is_running)'
    BY <1>12
  <2> QED
    BY <2>3, <2>4, <2>5, <2>6, <2>7 DEF Joining
<1>13. ASSUME /\ is_running' = is_running
              /\ ~is_running \/ (p # "destroy" /\ ~Registered)
              /\ Marks(t)' = Kept(t) \cup (IF p = "destroy" THEN {Step("gone")} ELSE {})
       PROVE  Joining'
  <2>1. is_running => worker \in {"loop", "lost"}
    BY <1>1 DEF Semantics, Joining
  <2>2. \A u \in All, x \in {Step("start"), Step("join")} : x \in Marks(u)' <=> x \in Marks(u)
    BY <1>2, <1>4, <1>13, Distinct
  <2>3. \A u \in All : /\ Step("gone") \in Marks(u)' => Step("gone") \in Marks(u) \/ ~is_running
                       /\ Step("gone") \in Marks(u) => Step("gone") \in Marks(u)'
    BY <1>2, <1>4, <1>13, Distinct
  <2>4. worker' = worker /\ owner' = owner
    BY <1>3
  <2>5. Joining /\ (Registered => Registered')
    BY <1>1, <1>7 DEF Semantics
  <2> QED
    BY <1>13, <2>1, <2>2, <2>3, <2>4, <2>5, JoiningKept
<1> QED
  BY <1>2, <1>6, <1>10, <1>11, <1>12, <1>13 DEF IInv

(* What the four steps that drop a pointer have in common.                   *)
LEMMA DroppingPreserves ==
    ASSUME IInv, NEW t \in All, NEW op \in {"clear", "config", "drop", "release"},
           At(t, op), Dropping(t), IsHeld' => IsHeld,
           sinks' \in Seq({"file", "cw"}), config' \in {"plain", "cloud"}, app_holds' \in BOOLEAN,
           exists' = exists, managers' \in Nat,
           Registered => Registered' \/ owner["sinks"] = t,
           app_holds' = app_holds \/ op = "drop"
    PROVE  /\ Types' /\ Discipline' /\ References' /\ Joining'
           /\ Marks(t) = Kept(t) \cup ({<<op, Arg(t)>>} \cap Special)
           /\ \A u \in All : Step("release") \in Marks(u)' <=> Step("release") \in Marks(u)
                                                                /\ ~(u = t /\ op = "release")
<1>1. Types /\ Discipline /\ Semantics
  BY DEF IInv, Semantics
<1> DEFINE Destructs == IF IsHeld /\ ~IsHeld' THEN {<<"stop", "destroy">>} ELSE {}
<1>2. /\ Discipline' /\ todo' \in [All -> Seq(STEPS)]
      /\ Marks(t)' = Kept(t) \cup Destructs
      /\ \A u \in All : u # t => Marks(u)' = Marks(u)
  BY <1>1, DroppingStep
<1>3. UNCHANGED <<owner, cw_alive, is_running, worker, proc, corrupt>>
  BY DEF Dropping
<1>4. /\ Marks(t) = Kept(t) \cup ({<<op, Arg(t)>>} \cap Special)
      /\ Step("join") \notin Kept(t) /\ Step("start") \notin Kept(t)
      /\ Step("gone") \notin Kept(t) /\ <<"stop", "destroy">> \notin Kept(t)
      /\ op = "release" => Step("release") \notin Kept(t)
      /\ op \in {"clear", "drop", "release"} => Arg(t) = "none"
  BY <1>1, MarksAt DEF Ops
<1>5. /\ <<op, Arg(t)>> \notin {Step("join"), Step("start"), Step("gone"), <<"stop", "destroy">>}
      /\ op # "release" => <<op, Arg(t)>> # Step("release")
      /\ op = "drop" => <<op, Arg(t)>> = Step("drop")
  BY <1>4 DEF Step
<1> HIDE DEF Destructs
<1>6. /\ <<"stop", "destroy">> \in Destructs => IsHeld /\ ~IsHeld'
      /\ \A x \in Special : x # <<"stop", "destroy">> => x \notin Destructs
  BY DEF Destructs
<1>7. Types'
  BY <1>1, <1>2, <1>3 DEF Types, proc
<1>8. \A u \in All, x \in {Step("join"), Step("start"), Step("gone")} : x \in Marks(u)' <=> x \in Marks(u)
  BY <1>2, <1>4, <1>5, <1>6, Distinct
<1>9. \A u \in All, x \in {<<"config", "cloud">>, Step("drop")} : x \in Marks(u)' => x \in Marks(u)
  BY <1>2, <1>4, <1>6, Distinct
<1>10. \A u \in All : Step("release") \in Marks(u)' <=> Step("release") \in Marks(u)
                                                        /\ ~(u = t /\ op = "release")
  BY <1>2, <1>4, <1>5, <1>6, Distinct
<1>11. \A u \in All : Destroys(u)' => Destroys(u) \/ (u = t /\ IsHeld /\ ~IsHeld')
  BY <1>2, <1>4, <1>6, HasMark, Distinct
<1>12. References'
  <2>1. (IsHeld => cw_alive)'
    BY <1>1, <1>3 DEF Semantics, References
  <2>2. \A u \in All : (Destroys(u) => ~IsHeld)'
    BY <1>1, <1>11, InTermsOfMarks
  <2>3. \A u, v \in All : Destroys(u)' /\ Destroys(v)' => u = v
    BY <1>1, <1>11, InTermsOfMarks DEF Semantics, References
  <2>4. /\ \A u \in All, x \in {<<"config", "cloud">>, Step("drop")} : Has(u, x)' <=> x \in Marks(u)'
    BY HasMark, Distinct
  <2>5. op = "drop" => Step("drop") \in Marks(t)
    BY <1>4, <1>5, Distinct
  <2>6. \A u \in All : Has(u, <<"config", "cloud">>)' => app_holds'
    BY <1>1, <1>9, <2>4, <2>5, InTermsOfMarks
  <2>7. \A u, v \in All : Has(u, <<"config", "cloud">>)' => ~Has(v, Step("drop"))'
    BY <1>1, <1>9, <2>4, InTermsOfMarks
  <2> QED
    BY <2>1, <2>2, <2>3, <2>6, <2>7 DEF References
<1>13. Joining'
  <2>1. is_running => worker \in {"loop", "lost"}
    BY <1>1 DEF Semantics, Joining
  <2>2. \A u \in All : Step("start") \in Marks(u) \/ Step("join") \in Marks(u) => u # t
    BY <1>4, <1>5
  <2>3. ASSUME NEW u \in All, Step("start") \in Marks(u)' \/ Step("join") \in Marks(u)'
        PROVE  (Has(u, Step("start")) => Registered)' /\
               (Has(u, Step("join")) => (Registered /\ owner["sinks"] = u) \/ Has(u, Step("gone")))'
    <3>1. Step("start") \in Marks(u) \/ Step("join") \in Marks(u)
      BY <1>8, <2>3
    <3>2. u # t
      BY <2>2, <3>1
    <3>3. \A x \in {Step("join"), Step("start"), Step("gone")} : Has(u, x)' <=> x \in Marks(u)
      BY <1>8, HasMark, Distinct
    <3>4. Registered /\ owner["sinks"] = u => Registered'
      BY <3>2
    <3> QED
      BY <1>1, <1>3, <3>3, <3>4, InTermsOfMarks
  <2>4. \A u \in All, x \in {Step("join"), Step("start"), Step("gone")} :
          (Has(u, x)' <=> x \in Marks(u)') /\ (Has(u, x) <=> x \in Marks(u))
    BY <1>8, HasMark, Distinct
  <2>5. \A u \in All : (Has(u, Step("start")) => ~is_running /\ Registered /\ owner["sinks"] = u)'
    BY <1>1, <1>3, <1>8, <2>3, <2>4, InTermsOfMarks
  <2>6. \A u \in All : (Has(u, Step("gone")) => ~is_running)'
    BY <1>1, <1>3, <1>8, <2>4, InTermsOfMarks
  <2>7. \A u \in All : (Has(u, Step("join")) =>
          ~is_running /\ ((Registered /\ owner["sinks"] = u) \/ Has(u, Step("gone"))))'
    BY <1>1, <1>3, <1>8, <2>3, <2>4, InTermsOfMarks
  <2>8. (~is_running /\ worker \in {"loop", "flush", "done"} => \E u \in All : Has(u, Step("join")))'
    <3>1. ~is_running /\ worker \in {"loop", "flush", "done"} => \E u \in All : Has(u, Step("join"))
      BY <1>1 DEF Semantics, Joining
    <3>2. \A u \in All : Has(u, Step("join"))' <=> Has(u, Step("join"))
      BY <1>8, <2>4
    <3> QED
      BY <1>3, <3>1, <3>2
  <2>9. (is_running => worker \in {"loop", "lost"})'
    BY <1>3, <2>1
  <2> QED
    BY <2>5, <2>6, <2>7, <2>8, <2>9 DEF Joining
<1> QED
  BY <1>2, <1>4, <1>7, <1>10, <1>12, <1>13

LEMMA ClearPreserves == ASSUME IInv, NEW t \in All, clear(t) \/ config_(t) \/ drop(t) PROVE IInv' /\ (IsHeld' => IsHeld)
<1>1. Types /\ Discipline /\ Semantics /\ Dropping(t)
  BY DEF IInv, Semantics, clear, config_, drop
<1>2. PICK op \in {"clear", "config", "drop"} :
        /\ At(t, op)
        /\ exists' = exists /\ managers' = managers
        /\ op = "clear" => sinks' = <<>> /\ config' = config /\ app_holds' = app_holds
        /\ op = "config" => sinks' = sinks /\ config' = Arg(t) /\ app_holds' = app_holds
        /\ op = "drop" => sinks' = sinks /\ config' = config /\ app_holds' = FALSE
  BY DEF clear, config_, drop, mgr
<1>3. /\ Marks(t) = Kept(t) \cup ({<<op, Arg(t)>>} \cap Special)
      /\ op = "config" => Arg(t) \in {"plain", "cloud"}
  BY <1>1, <1>2, MarksAt
<1>4. op = "config" /\ Arg(t) = "cloud" => app_holds
  <2>1. op = "config" /\ Arg(t) = "cloud" => <<"config", "cloud">> \in Marks(t)
    BY <1>3, Distinct
  <2> QED
    BY <1>1, <2>1, InTermsOfMarks
<1>5. /\ op = "clear" => ~Registered'
      /\ op # "clear" => (Registered' <=> Registered)
  BY <1>2, ContainsFacts DEF Registered
<1>6. IsHeld' => IsHeld
  <2>1. CASE op = "clear"
    BY <1>2, <1>5, <2>1 DEF IsHeld, Held, Registered
  <2>2. CASE op = "config"
    BY <1>2, <1>4, <1>5, <2>2 DEF IsHeld, Held, Registered
  <2>3. CASE op = "drop"
    BY <1>2, <1>5, <2>3 DEF IsHeld, Held, Registered
  <2> QED
    BY <2>1, <2>2, <2>3
<1>7. Registered => Registered' \/ owner["sinks"] = t
  <2>1. op = "clear" => owner["sinks"] = t
    BY <1>1, <1>2, Owners
  <2> QED
    BY <1>5, <2>1
<1>8. /\ sinks' \in Seq({"file", "cw"}) /\ config' \in {"plain", "cloud"} /\ app_holds' \in BOOLEAN
      /\ managers' \in Nat
  <2>1. sinks \in Seq({"file", "cw"}) /\ <<>> \in Seq({"file", "cw"})
        /\ config \in {"plain", "cloud"} /\ app_holds \in BOOLEAN /\ managers \in Nat
    BY <1>1, EmptyFacts DEF Types
  <2>2. sinks' \in Seq({"file", "cw"})
    BY <1>2, <2>1
  <2>3. config' \in {"plain", "cloud"}
    BY <1>2, <1>3, <2>1
  <2>4. app_holds' \in BOOLEAN
    BY <1>2, <2>1
  <2> QED
    BY <1>2, <2>1, <2>2, <2>3, <2>4
<1>9. app_holds' = app_holds \/ op = "drop"
  BY <1>2
<1>10. /\ Types' /\ Discipline' /\ References' /\ Joining'
       /\ \A u \in All : Step("release") \in Marks(u)' <=> Step("release") \in Marks(u)
  <2>1. op \in {"clear", "config", "drop", "release"} /\ op # "release"
    OBVIOUS
  <2>2. /\ Types' /\ Discipline' /\ References' /\ Joining'
        /\ \A u \in All : Step("release") \in Marks(u)' <=> Step("release") \in Marks(u)
                                                             /\ ~(u = t /\ op = "release")
    BY <1>1, <1>2, <1>6, <1>7, <1>8, <1>9, <2>1, DroppingPreserves
  <2> QED
    BY <2>1, <2>2
<1>11. Singleton'
  <2>1. owner' = owner
    BY <1>1 DEF Dropping
  <2> QED
    BY <1>1, <1>2, <1>10, <2>1, SingletonKept DEF Semantics
<1> QED
  BY <1>6, <1>10, <1>11 DEF IInv

LEMMA ReleasePreserves == ASSUME IInv, NEW t \in All, release(t) PROVE IInv' /\ (IsHeld' => IsHeld)
<1>1. Types /\ Discipline /\ Semantics /\ Dropping(t)
  BY DEF IInv, Semantics, release
<1>2. /\ At(t, "release") /\ config' = "plain" /\ managers' = managers - 1
      /\ UNCHANGED <<exists, sinks, app_holds>>
  BY DEF release
<1>3. Marks(t) = Kept(t) \cup {Step("release")}
  <2>1. <<"release", Arg(t)>> = Step("release")
    BY <1>1, <1>2, MarksAt DEF Ops, Step
  <2> QED
    BY <1>1, <1>2, <2>1, MarksAt, Distinct
<1>4. ~exists /\ managers = 1 /\ owner["init"] = t
  BY <1>1, <1>3, InTermsOfMarks
<1>5. IsHeld' => IsHeld
  BY <1>2 DEF IsHeld, Held
<1>6. Registered => Registered' \/ owner["sinks"] = t
  BY <1>2 DEF Registered
<1>7. /\ sinks' \in Seq({"file", "cw"}) /\ config' \in {"plain", "cloud"} /\ app_holds' \in BOOLEAN
      /\ managers' \in Nat /\ managers' = 0
  BY <1>1, <1>2, <1>4 DEF Types
<1>8. /\ Types' /\ Discipline' /\ References' /\ Joining'
      /\ \A u \in All : Step("release") \in Marks(u)' <=> Step("release") \in Marks(u) /\ u # t
  <2> DEFINE op == "release"
  <2>1. op \in {"clear", "config", "drop", "release"} /\ At(t, op) /\ op = "release"
    BY <1>2
  <2> HIDE DEF op
  <2>2. exists' = exists /\ (app_holds' = app_holds \/ op = "drop")
    BY <1>2
  <2> QED
    BY <1>1, <1>5, <1>6, <1>7, <2>1, <2>2, DroppingPreserves
<1>9. \A u \in All : Step("release") \notin Marks(u)'
  BY <1>1, <1>4, <1>8, InTermsOfMarks
<1>10. \A u \in All : ~Has(u, Step("release"))'
  BY <1>9, HasMark, Distinct
<1>11. Singleton'
  BY <1>2, <1>4, <1>7, <1>10 DEF Singleton
<1> QED
  BY <1>5, <1>8, <1>11 DEF IInv

LEMMA InitEstablishes == ASSUME Init PROVE IInv
<1>1. todo = [t \in All |-> <<>>] /\ \A t \in All : todo[t] = <<>>
  BY DEF Init
<1>2. /\ Steps(<<>>) = {} /\ WellFormed(<<>>) /\ <<>> \in Seq(STEPS)
      /\ \A m : ~Holds(<<>>, m) /\ <<>> \in Seq({"file", "cw"})
  BY EmptyIsCalm, EmptyFacts DEF Calm
<1>3. \A u \in All : u \notin {"free", "orphan"}
  BY ThreadsAssumption DEF All
<1>4. Types
  <2>1. todo \in [All -> Seq(STEPS)]
    BY <1>1, <1>2
  <2>2. owner \in [Mutexes -> All \cup {"free", "orphan"}]
    BY DEF Init
  <2>3. forks \in 0 .. MaxForks /\ calls \in 0 .. MaxCalls
    BY BoundsAssumption DEF Init
  <2>4. sinks \in Seq({"file", "cw"}) /\ managers \in Nat /\ alive \in SUBSET All
    BY <1>2 DEF Init
  <2> QED
    BY <2>1, <2>2, <2>3, <2>4 DEF Init, Types
<1>5. Discipline
  BY <1>1, <1>2, <1>3 DEF Init, Discipline
<1>6. \A t, x : t \in All => ~Has(t, x)
  BY <1>1, <1>2 DEF Has
<1>7. \A t \in All : ~Destroys(t)
  BY <1>6 DEF Destroys
<1>8. Singleton
  BY <1>6 DEF Init, Singleton
<1>9. References
  BY <1>6, <1>7 DEF Init, References
<1>10. Joining
  BY <1>6 DEF Init, Joining
<1> QED
  BY <1>4, <1>5, <1>8, <1>9, <1>10 DEF IInv

LEMMA StutterPreserves == ASSUME IInv, UNCHANGED vars PROVE IInv'
<1>1. UNCHANGED <<todo, owner, exists, managers, sinks, config, app_holds, cw_alive, is_running,
                  worker, alive, forks, calls, corrupt>>
  BY DEF vars, mgr, cw, proc
<1>2. Types' /\ Discipline'
  BY <1>1 DEF IInv, Types, Discipline
<1>3. \A u, x : Has(u, x)' <=> Has(u, x)
  BY <1>1 DEF Has
<1>4. \A u : Destroys(u)' <=> Destroys(u)
  BY <1>1 DEF Has, Destroys
<1>5. (IsHeld' <=> IsHeld) /\ (Registered' <=> Registered)
  BY <1>1 DEF IsHeld, Registered
<1>6. Singleton'
  BY <1>1, <1>3 DEF IInv, Singleton
<1>7. References'
  BY <1>1, <1>3, <1>4, <1>5 DEF IInv, References
<1>8. Joining'
  BY <1>1, <1>3, <1>5 DEF IInv, Joining
<1> QED
  BY <1>2, <1>6, <1>7, <1>8 DEF IInv

(* Every step of a thread, or of the worker, preserves the invariant.        *)
THEOREM Invariance == Spec => []IInv
<1>1. Init => IInv
  BY InitEstablishes
<1>2. IInv /\ [Next]_vars => IInv'
  <2> SUFFICES ASSUME IInv, [Next]_vars PROVE IInv'
    OBVIOUS
  <2>1. ASSUME NEW t \in Threads, Begin(t) PROVE IInv'
    BY <2>1, BeginPreserves
  <2>2. ASSUME NEW t \in All, Go(t) PROVE IInv'
    <3>1. CASE Acquire(t) \/ Release(t)
      BY <3>1, MutexPreserves
    <3>2. CASE instance(t) \/ dump(t) \/ child_on_fork(t)
      BY <3>2, QuietPreserves
    <3>3. CASE create(t)
      BY <3>3, CreatePreserves
    <3>4. CASE stop_impl(t)
      BY <3>4, StopPreserves
    <3>5. CASE join(t)
      BY <3>5, JoinPreserves
    <3>6. CASE start(t)
      BY <3>6, StartPreserves
    <3>7. CASE gone(t)
      BY <3>7, GonePreserves
    <3>8. CASE clear(t) \/ config_(t) \/ drop(t)
      BY <3>8, ClearPreserves
    <3>9. CASE detach(t)
      BY <3>9, DetachPreserves
    <3>10. CASE release(t)
      BY <3>10, ReleasePreserves
    <3>11. CASE push(t)
      BY <3>11, PushPreserves
    <3> QED
      BY <2>2, <3>1, <3>2, <3>3, <3>4, <3>5, <3>6, <3>7, <3>8, <3>9, <3>10, <3>11 DEF Go
  <2>3. CASE Work
    BY <2>3, WorkPreserves
  <2>4. CASE Fork
    BY <2>4, ForkPreserves
  <2>5. CASE RacyAccess
    BY <2>5, RacyAccessPreserves
  <2>6. CASE UNCHANGED vars
    BY <2>6, StutterPreserves
  <2> QED
    BY <2>1, <2>2, <2>3, <2>4, <2>5, <2>6 DEF Next
<1> QED
  BY <1>1, <1>2, PTL DEF Spec

-----------------------------------------------------------------------------
(* What follows from it.                                                     *)

(* The threads, the mutexes and the objects have the values the code gives   *)
(* them; in particular reset_manager never destroys a null manager_, which   *)
(* would make the number of Managers negative.                               *)
THEOREM TypeCorrect == Spec => []TypeOK
<1>1. IInv => TypeOK
  <2> SUFFICES ASSUME IInv PROVE TypeOK
    OBVIOUS
  <2>1. \A t \in All : todo[t] \in Seq(STEPS)
    BY DEF IInv, Types
  <2> QED
    BY <2>1 DEF IInv, Types, TypeOK
<1> QED
  BY <1>1, Invariance, PTL

(* instance() looks at manager_ before it locks, reset_manager lets go of it *)
(* before its destructor has run: yet there are never two Managers.          *)
THEOREM OneManagerAtATime == Spec => []OneManager
<1>1. IInv => OneManager
  BY DEF IInv, Types, Singleton, OneManager
<1> QED
  BY <1>1, Invariance, PTL

(* A sink in sinks_ is alive, whatever the order in which configurations are *)
(* set, replaced and given up, sinks cleared and the manager reset.          *)
THEOREM SinksLive == Spec => []RegisteredSinksLive
<1>1. IInv => RegisteredSinksLive
  BY DEF IInv, References, IsHeld, Held, RegisteredSinksLive
<1> QED
  BY <1>1, Invariance, PTL

-----------------------------------------------------------------------------
(* LogManager implements SinkLifecycle: what each step does to the phase of  *)
(* the sink and to its registration.                                         *)

LEMMA PhaseKept ==
    ASSUME cw_alive' = cw_alive, is_running' = is_running, worker' = worker
    PROVE  Phase' = Phase
  BY DEF Phase

LEMMA Unmoved ==
    ASSUME UNCHANGED <<sinks, cw_alive, is_running, worker>>
    PROVE  UNCHANGED Life!vars
  BY PhaseKept DEF Life!vars

LEMMA PhaseOf ==
    ASSUME Types
    PROVE  /\ ~cw_alive => Phase = "destroyed"
           /\ cw_alive /\ is_running /\ worker # "lost" => Phase = "running"
           /\ cw_alive /\ is_running /\ worker = "lost" => Phase = "orphaned"
           /\ cw_alive /\ ~is_running /\ worker \in {"loop", "flush", "done"} => Phase = "stopping"
           /\ cw_alive /\ ~is_running /\ worker \notin {"loop", "flush", "done"} => Phase = "stopped"
  BY DEF Phase

LEMMA StopMoves == ASSUME IInv, NEW t \in All, stop_impl(t) PROVE Life!Next \/ UNCHANGED Life!vars
<1>1. Types /\ Types' /\ Joining
  BY StopPreserves DEF IInv
<1>2. sinks' = sinks /\ cw_alive' = cw_alive /\ worker' = worker /\ is_running' \in BOOLEAN
  BY <1>1 DEF stop_impl, mgr, Types
<1>3. Contains(sinks, "cw")' <=> Contains(sinks, "cw")
  BY <1>2
<1>4. CASE is_running' = is_running
  BY <1>2, <1>4, Unmoved
<1>5. CASE is_running /\ is_running' = FALSE
  <2>1. worker \in {"loop", "lost"}
    BY <1>1, <1>5 DEF Joining
  <2>2. CASE ~cw_alive
    <3>1. Phase = "destroyed" /\ Phase' = "destroyed"
      BY <1>1, <1>2, <2>2, PhaseOf DEF Phase
    <3> QED
      BY <1>2, <3>1 DEF Life!vars
  <2>3. CASE cw_alive /\ worker = "loop"
    <3>1. Phase = "running" /\ Phase' = "stopping"
      BY <1>2, <1>5, <2>3 DEF Phase
    <3> QED
      BY <1>2, <3>1 DEF Life!Next, Life!Stop
  <2>4. CASE cw_alive /\ worker = "lost"
    <3>1. Phase = "orphaned" /\ Phase' = "stopped"
      BY <1>2, <1>5, <2>4 DEF Phase
    <3> QED
      BY <1>2, <3>1 DEF Life!Next, Life!Abandon
  <2> QED
    BY <1>1, <2>1, <2>2, <2>3, <2>4 DEF Types
<1> QED
  BY <1>2, <1>4, <1>5 DEF stop_impl

LEMMA JoinMoves == ASSUME IInv, NEW t \in All, join(t) PROVE Life!Next \/ UNCHANGED Life!vars
<1>1. Types /\ Discipline /\ Semantics
  BY DEF IInv, Semantics
<1>2. /\ worker = "done" /\ worker' = "none" /\ At(t, "join")
      /\ sinks' = sinks /\ cw_alive' = cw_alive /\ is_running' = is_running
  BY DEF join, mgr, cw
<1>3. ~is_running
  <2>1. Arg(t) = "none" /\ <<"join", "none">> = Step("join")
    BY <1>1, <1>2, MarksAt DEF Ops, Step
  <2>2. Step("join") \in Marks(t)
    BY <1>1, <1>2, <2>1, MarksAt, Distinct
  <2> QED
    BY <1>1, <2>2, InTermsOfMarks
<1>4. CASE ~cw_alive
  <2>1. Phase = "destroyed" /\ Phase' = "destroyed"
    BY <1>2, <1>4 DEF Phase
  <2> QED
    BY <1>2, <2>1 DEF Life!vars
<1>5. CASE cw_alive
  <2>1. Phase = "stopping" /\ Phase' = "stopped"
    BY <1>2, <1>3, <1>5 DEF Phase
  <2> QED
    BY <1>2, <2>1 DEF Life!Next, Life!Joined
<1> QED
  BY <1>1, <1>4, <1>5 DEF Types

LEMMA StartMoves == ASSUME IInv, NEW t \in All, start(t) PROVE Life!Next \/ UNCHANGED Life!vars
<1>1. /\ worker' = "loop" /\ is_running' = TRUE /\ At(t, "start")
      /\ sinks' = sinks /\ cw_alive' = cw_alive
  BY DEF start, mgr
<1>2. ~is_running /\ Registered /\ worker \in {"none", "lost"}
  BY <1>1, AtStart
<1>3. cw_alive
  BY <1>2 DEF IInv, References, IsHeld, Held, Registered
<1>4. Phase = "stopped" /\ Phase' = "running"
  BY <1>1, <1>2, <1>3 DEF Phase
<1> QED
  BY <1>1, <1>2, <1>4 DEF Life!Next, Life!Start, Registered

LEMMA GoneMoves == ASSUME IInv, NEW t \in All, gone(t) PROVE Life!Next \/ UNCHANGED Life!vars
<1>1. /\ worker' = worker /\ is_running' = is_running /\ At(t, "gone")
      /\ sinks' = sinks /\ cw_alive' = FALSE
  BY DEF gone, mgr
<1>2. ~is_running /\ ~Registered /\ worker \in {"none", "lost"}
  BY <1>1, AtGone
<1>3. Phase' = "destroyed"
  BY <1>1 DEF Phase
<1>4. CASE ~cw_alive
  <2>1. Phase = "destroyed"
    BY <1>4 DEF Phase
  <2> QED
    BY <1>1, <1>3, <2>1 DEF Life!vars
<1>5. CASE cw_alive
  <2>1. Phase = "stopped"
    BY <1>2, <1>5 DEF Phase
  <2> QED
    BY <1>1, <1>2, <1>3, <2>1 DEF Life!Next, Life!Destroy, Registered
<1> QED
  BY <1>4, <1>5 DEF IInv, Types

LEMMA PushMoves == ASSUME IInv, NEW t \in All, push(t) PROVE Life!Next \/ UNCHANGED Life!vars
<1>1. UNCHANGED <<cw_alive, is_running, worker>>
  BY DEF push, cw
<1>2. Phase' = Phase
  BY <1>1, PhaseKept
<1>3. (Registered => Registered') /\ IInv'
  BY PushPreserves
<1>4. CASE Registered' <=> Registered
  BY <1>2, <1>4 DEF Life!vars, Registered, Contains
<1>5. CASE Registered'
  <2>1. cw_alive'
    BY <1>3, <1>5 DEF IInv, References, IsHeld, Held, Registered
  <2>2. Phase # "destroyed"
    BY <1>1, <2>1 DEF Phase
  <2>3. Contains(sinks, "cw")' = TRUE
    BY <1>5 DEF Registered, Contains
  <2> QED
    BY <1>2, <2>2, <2>3 DEF Life!Next, Life!Register
<1> QED
  BY <1>3, <1>4, <1>5

LEMMA DroppingMoves ==
    ASSUME IInv, NEW t \in All, clear(t) \/ config_(t) \/ drop(t) \/ release(t)
    PROVE  Life!Next \/ UNCHANGED Life!vars
<1>1. UNCHANGED <<cw_alive, is_running, worker>>
  BY DEF clear, config_, drop, release, Dropping
<1>2. Phase' = Phase
  BY <1>1, PhaseKept
<1>3. CASE sinks' = <<>>
  <2>1. Contains(sinks, "cw")' = FALSE
    BY <1>3 DEF Contains
  <2> QED
    BY <1>2, <2>1 DEF Life!Next, Life!Unregister
<1>4. CASE sinks' = sinks
  BY <1>1, <1>4, Unmoved
<1> QED
  BY <1>3, <1>4 DEF clear, config_, drop, release, mgr

LEMMA WorkMoves == ASSUME IInv, Work PROVE UNCHANGED Life!vars
<1>1. /\ sinks' = sinks /\ cw_alive' = cw_alive /\ is_running' = is_running
      /\ \/ worker = "loop" /\ worker' = (IF is_running THEN "loop" ELSE "flush")
         \/ worker = "flush" /\ worker' = "done"
  BY DEF Work, mgr, cw
<1>2. is_running => worker \in {"loop", "lost"}
  BY DEF IInv, Joining
<1>3. Phase' = Phase
  <2>1. CASE is_running
    BY <1>1, <1>2, <2>1 DEF Phase
  <2>2. CASE ~is_running
    BY <1>1, <2>2 DEF Phase
  <2> QED
    BY <2>1, <2>2
<1> QED
  BY <1>1, <1>3 DEF Life!vars

LEMMA ForkMoves == ASSUME IInv, Fork PROVE Life!Next \/ UNCHANGED Life!vars
<1>1. /\ worker' = (IF worker = "none" THEN "none" ELSE "lost") /\ forks < MaxForks
      /\ sinks' = sinks /\ cw_alive' = cw_alive /\ is_running' = is_running
  BY DEF Fork, mgr, cw
<1>2. Types /\ (is_running => worker \in {"loop", "lost"})
  BY DEF IInv, Joining
<1>3. MaxForks > 0
  BY <1>1, <1>2, BoundsAssumption DEF Types
<1>4. Phase' = CASE Phase = "running" -> "orphaned" [] Phase = "stopping" -> "stopped" [] OTHER -> Phase
  <2>1. CASE ~cw_alive
    BY <1>1, <2>1 DEF Phase
  <2>2. CASE cw_alive /\ is_running
    <3>1. CASE worker = "loop"
      BY <1>1, <2>2, <3>1 DEF Phase
    <3>2. CASE worker = "lost"
      BY <1>1, <2>2, <3>2 DEF Phase
    <3> QED
      BY <1>2, <2>2, <3>1, <3>2
  <2>3. CASE cw_alive /\ ~is_running
    BY <1>1, <2>3 DEF Phase
  <2> QED
    BY <1>2, <2>1, <2>2, <2>3 DEF Types
<1> QED
  BY <1>1, <1>3, <1>4 DEF Life!Next, Life!Fork

(* The CloudWatch sink leads the life that SinkLifecycle allows: joined      *)
(* before it is started again or destroyed, started only while registered,   *)
(* destroyed only when it no longer is.                                      *)
THEOREM SinkIsLedAsAllowed == Spec => ImplementsLifecycle
<1>1. Init => Life!Init
  <2> SUFFICES ASSUME Init PROVE Life!Init
    OBVIOUS
  <2>1. Phase = "running"
    BY DEF Init, Phase
  <2>2. Contains(sinks, "cw") = FALSE
    BY DEF Init, Contains
  <2> QED
    BY <2>1, <2>2 DEF Life!Init
<1>2. IInv /\ [Next]_vars => [Life!Next]_(Life!vars)
  <2> SUFFICES ASSUME IInv, [Next]_vars PROVE Life!Next \/ UNCHANGED Life!vars
    OBVIOUS
  <2>1. ASSUME NEW t \in Threads, Begin(t) PROVE UNCHANGED Life!vars
    <3>1. UNCHANGED <<sinks, cw_alive, is_running, worker>>
      BY <2>1 DEF Begin, log, stop, terminate, restart_sinks, configure, reset_manager, drop_config,
                  Call, mgr, cw
    <3> QED
      BY <3>1, Unmoved
  <2>2. ASSUME NEW t \in All, Go(t) PROVE Life!Next \/ UNCHANGED Life!vars
    <3>1. CASE Acquire(t) \/ Release(t) \/ instance(t) \/ create(t) \/ dump(t) \/ detach(t) \/ child_on_fork(t)
      <4>1. UNCHANGED <<sinks, cw_alive, is_running, worker>>
        BY <3>1 DEF Acquire, Release, instance, create, dump, detach, child_on_fork, mgr, cw
      <4> QED
        BY <4>1, Unmoved
    <3>2. CASE stop_impl(t)
      BY <3>2, StopMoves
    <3>3. CASE join(t)
      BY <3>3, JoinMoves
    <3>4. CASE start(t)
      BY <3>4, StartMoves
    <3>5. CASE gone(t)
      BY <3>5, GoneMoves
    <3>6. CASE clear(t) \/ config_(t) \/ drop(t) \/ release(t)
      BY <3>6, DroppingMoves
    <3>7. CASE push(t)
      BY <3>7, PushMoves
    <3> QED
      BY <2>2, <3>1, <3>2, <3>3, <3>4, <3>5, <3>6, <3>7 DEF Go
  <2>3. CASE Work
    BY <2>3, WorkMoves
  <2>4. CASE Fork
    BY <2>4, ForkMoves
  <2>5. CASE RacyAccess \/ UNCHANGED vars
    <3>1. UNCHANGED <<sinks, cw_alive, is_running, worker>>
      BY <2>5 DEF RacyAccess, vars, mgr, cw
    <3> QED
      BY <3>1, Unmoved
  <2> QED
    BY <2>1, <2>2, <2>3, <2>4, <2>5 DEF Next
<1> QED
  BY <1>1, <1>2, Invariance, PTL DEF Spec, ImplementsLifecycle, Life!Spec
=============================================================================
