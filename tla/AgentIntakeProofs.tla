---------------------------- MODULE AgentIntakeProofs ----------------------------
(***************************************************************************)
(* The runs of an Agent store together: the idempotency index against what *)
(* clients were told, the event stream against the log, and the tasks      *)
(* after any crash and recovery.  For any keys, any number of runs, events *)
(* and faults.                                                             *)
(***************************************************************************)
EXTENDS AgentIntake, FiniteSetTheorems, SequenceTheorems, WellFoundedInduction,
        TLAPS

(***************************************************************************)
(* The inductive invariant.                                                *)
(***************************************************************************)
Statuses == Active \cup Terminal
OpNames == CreateFiles \cup {"line", "cursor", "move", "expire", "start", "reply",
                             "done", "list", "recover", "serve", "open", "decide"}
Ops == [op : OpNames, run : 0..MaxRuns, to : Statuses \cup {""}, at : Nat]
Phases == {"closed", "read", "yield"}

TypeInv ==
    /\ TypeOK
    /\ todo \in Seq(Ops)
    /\ stream \in [run : 0..MaxRuns, at : Nat, upto : Nat, phase : Phases]
    /\ cursor \in [Runs -> Nat] /\ got \in [Runs -> Nat]

\* A write is dated at the present t, or at the expiry of its run.
Dated(d, i, t, b) == d = t \/ d = b[i] + Life
\* The operations inside a script, and those that may end it.
Inner(op, t, b) ==
    /\ op.op \in {"line", "cursor", "move", "expire"} /\ op.run \in Runs
    /\ op.op = "move" => op.to \in Statuses
    /\ op.op # "expire" => Dated(op.at, op.run, t, b)
EndsIn(name, who) ==
    \/ who \in {"task", "dying"} /\ name = "done"
    \/ who = "stream" /\ name \in {"open", "decide"}
    \/ who = "startup" /\ name \in {"list", "recover", "serve"}
Outer(op, who) ==
    EndsIn(op.op, who) /\ (op.op \notin {"list", "serve"} => op.run \in Runs)

\* Each event is followed by its cursor, "done" comes after a terminal
\* transition only.
Paired(s) ==
    \A n \in 1..Len(s) :
        /\ s[n].op = "line" => n < Len(s) /\ s[n + 1].op = "cursor"
        /\ n > 1 /\ s[n].op = "cursor" => s[n - 1].op = "line"
        /\ n > 1 /\ s[n].op = "done" => s[n - 1].op = "move" /\ s[n - 1].to \in Terminal
\* What a handler other than create queues at time t: operations on one run.
Script(s, who, t, b) ==
    /\ s \in Seq(Ops) /\ Paired(s)
    /\ \A n \in 1..Len(s) :
          /\ s[n].run = s[1].run
          /\ Inner(s[n], t, b) \/ (n = Len(s) /\ Outer(s[n], who))

\* create has come to its n-th operation.
CreateAt(i, n) ==
    /\ Len(todo) = 7 - n
    /\ \A m \in 1..Len(todo) : todo[m] = CreateOps(i)[n - 1 + m]
    /\ "request" \in files[i] <=> n > 1
    /\ "record" \in files[i] <=> n > 2
    /\ "index" \in files[i] <=> n > 3
    /\ "events" \in files[i] <=> n > 4
    /\ n = 6 => task[i] = "start"

ScriptInv ==
    /\ by # "create" => Script(todo, by, now, born)
    /\ by = "create" /\ todo # <<>> => \E i \in Runs, n \in 1..6 : CreateAt(i, n)
    /\ proc = "down" => todo = <<>>
    /\ proc = "starting" <=> todo # <<>> /\ by = "startup"
    /\ todo # <<>> /\ by = "startup" => EndsIn(todo[Len(todo)].op, by)
    /\ todo # <<>> =>
         /\ todo[1].op = "cursor" => ~late[todo[1].run]
         /\ todo[1].op = "done" => Ended(todo[1].run)

\* A key has at most one run, in the index or on the way to it.
Creating(i) == todo # <<>> /\ by = "create" /\ todo[1].run = i
Holds(i) == "index" \in files[i] \/ Creating(i)
KeyInv ==
    /\ \A i \in Runs : /\ "index" \in files[i] => "record" \in files[i]
                       /\ "events" \in files[i] => "index" \in files[i]
                       /\ Holds(i) => key[i] \in Keys
    /\ \A i, j \in Runs : Holds(i) /\ Holds(j) /\ key[i] = key[j] => i = j
    /\ \A t \in told : "index" \in files[t[2]] /\ key[t[2]] = t[1]

\* Runs the index lost: one for each fault at most.
Debris == {i \in Recorded : ~Holds(i)}
DebrisInv == Cardinality(Debris) <= faults

\* What the stream has sent is what its client has, and it knows the log but
\* for events whose cursor is, or is about to be, written.
Writing(i) == todo # <<>> /\ todo[1].op = "cursor" /\ todo[1].run = i
StreamInv ==
    /\ stream.phase = "closed" => stream = Closed
    /\ stream.phase # "closed" =>
         /\ stream.run \in Runs \ ended
         /\ stream.at = got[stream.run] /\ stream.at <= lines[stream.run]
    /\ stream.phase = "yield" =>
         /\ stream.at <= stream.upto /\ stream.upto <= lines[stream.run]
         /\ \/ lines[stream.run] \in {stream.upto, cursor[stream.run]}
            \/ Writing(stream.run)
    /\ todo # <<>> =>
         LET op == todo[Len(todo)] IN
         /\ op.op = "open" => stream.phase = "closed" /\ op.run \notin ended
         /\ op.op = "decide" => /\ stream.phase = "yield" /\ stream.run = op.run
                                /\ stream.at = stream.upto
    /\ StreamSendsAll

\* A recorded run is settled, or the running handler settles it.
Settled(i) == Ended(i) \/ Broken(i) \/ now > Expiry(i) \/ task[i] # "none"
Closing(i) ==
    /\ todo # <<>> /\ by = "api"
    /\ LET op == todo[Len(todo)]
       IN  op.op = "move" /\ op.run = i /\ op.to \in Terminal
TaskInv ==
    /\ proc = "up" => \A i \in Recorded : Settled(i) \/ Creating(i) \/ Closing(i)
    /\ proc = "starting" =>
         LET op == todo[Len(todo)] IN
         /\ op.op = "recover" => \A i \in Recorded : i < op.run => Settled(i)
         /\ op.op = "serve" => \A i \in Recorded : Settled(i)

IInv == TypeInv /\ ScriptInv /\ KeyInv /\ DebrisInv /\ StreamInv /\ TaskInv

-----------------------------------------------------------------------------
(* Scripts.                                                                *)

LEMMA RunsInOps == Runs \subseteq 0..MaxRuns /\ Runs \subseteq Nat
  BY RunsAssumption DEF Runs

LEMMA EmptyScript ==
  ASSUME NEW who, NEW t, NEW b PROVE Script(<<>>, who, t, b)
  BY DEF Script, Paired

LEMMA ScriptTail ==
  ASSUME NEW s, NEW who, NEW t \in Nat, NEW b \in [Runs -> Nat],
         Script(s, who, t, b), s # <<>>
  PROVE  /\ Script(Tail(s), who, t, b) /\ Len(s) \in Nat \ {0}
         /\ Len(Tail(s)) = Len(s) - 1
         /\ Tail(s) # <<>> => /\ Len(s) > 1 /\ Tail(s)[1] = s[2]
                              /\ s[2].run = s[1].run
                              /\ Tail(s)[Len(Tail(s))] = s[Len(s)]
<1>1. /\ s \in Seq(Ops) /\ Paired(s) /\ Len(s) \in Nat \ {0}
      /\ Tail(s) \in Seq(Ops) /\ Len(Tail(s)) = Len(s) - 1
      /\ \A n \in 1..Len(Tail(s)) : n + 1 \in 1..Len(s) /\ Tail(s)[n] = s[n + 1]
  BY DEF Script
<1>2. Paired(Tail(s))
  <2> SUFFICES ASSUME NEW n \in 1..Len(Tail(s))
               PROVE  /\ Tail(s)[n].op = "line" =>
                           n < Len(Tail(s)) /\ Tail(s)[n + 1].op = "cursor"
                      /\ n > 1 /\ Tail(s)[n].op = "cursor" => Tail(s)[n - 1].op = "line"
                      /\ n > 1 /\ Tail(s)[n].op = "done" =>
                           Tail(s)[n - 1].op = "move" /\ Tail(s)[n - 1].to \in Terminal
    BY DEF Paired
  <2>1. n + 1 \in 1..Len(s) /\ Tail(s)[n] = s[n + 1]
    BY <1>1
  <2>2. Tail(s)[n].op = "line" => n < Len(Tail(s)) /\ Tail(s)[n + 1].op = "cursor"
    <3> SUFFICES ASSUME s[n + 1].op = "line"
                 PROVE  n < Len(Tail(s)) /\ Tail(s)[n + 1].op = "cursor"
      BY <2>1
    <3>1. n + 1 < Len(s) /\ s[(n + 1) + 1].op = "cursor"
      BY <1>1, <2>1 DEF Paired
    <3>2. n + 1 \in 1..Len(Tail(s)) /\ n < Len(Tail(s))
      BY <1>1, <3>1
    <3> QED BY <1>1, <3>1, <3>2
  <2>3. ASSUME n > 1
        PROVE  /\ n - 1 \in 1..Len(Tail(s)) /\ Tail(s)[n - 1] = s[n]
               /\ (n + 1) - 1 = n /\ n + 1 > 1
    <3>1. n - 1 \in 1..Len(Tail(s)) /\ (n - 1) + 1 = n
      BY <1>1, <2>3
    <3> QED BY <1>1, <3>1
  <2>4. n > 1 => /\ s[n + 1].op = "cursor" => s[n].op = "line"
                 /\ s[n + 1].op = "done" => s[n].op = "move" /\ s[n].to \in Terminal
    BY <1>1, <2>1, <2>3 DEF Paired
  <2> QED BY <2>1, <2>2, <2>3, <2>4
<1>3. ASSUME NEW n \in 1..Len(Tail(s))
      PROVE  /\ Tail(s)[n].run = Tail(s)[1].run
             /\ \/ Inner(Tail(s)[n], t, b)
                \/ n = Len(Tail(s)) /\ Outer(Tail(s)[n], who)
  <2>0. 1 \in 1..Len(Tail(s)) /\ 1 + 1 = 2 /\ (n + 1 = Len(s) => n = Len(Tail(s)))
    <3>1. Len(Tail(s)) \in Nat /\ Len(s) \in Nat /\ Len(Tail(s)) = Len(s) - 1
      BY <1>1
    <3>2. \A k \in Nat : \A m \in 1..k : 1 \in 1..k /\ m \in Nat
      OBVIOUS
    <3>3. 1 \in 1..Len(Tail(s)) /\ n \in Nat
      BY <3>1, <3>2
    <3>4. \A k, m, l \in Nat : k = l - 1 /\ m + 1 = l => m = k
      OBVIOUS
    <3>5. n + 1 = Len(s) => n = Len(Tail(s))
      BY <3>1, <3>3, <3>4
    <3> QED BY <3>3, <3>5
  <2>1. /\ Tail(s)[n] = s[n + 1] /\ Tail(s)[1] = s[2]
        /\ n + 1 \in 1..Len(s) /\ 2 \in 1..Len(s)
    BY <1>1, <2>0
  <2>2. /\ s[n + 1].run = s[1].run /\ s[2].run = s[1].run
        /\ Inner(s[n + 1], t, b) \/ (n + 1 = Len(s) /\ Outer(s[n + 1], who))
    BY <2>1 DEF Script
  <2> QED BY <2>1, <2>2
<1>4. Tail(s) # <<>> => /\ Len(s) > 1 /\ Tail(s)[1] = s[2]
                        /\ s[2].run = s[1].run
                        /\ Tail(s)[Len(Tail(s))] = s[Len(s)]
  <2> SUFFICES ASSUME Tail(s) # <<>>
               PROVE  /\ Len(s) > 1 /\ Tail(s)[1] = s[2] /\ s[2].run = s[1].run
                      /\ Tail(s)[Len(Tail(s))] = s[Len(s)]
    OBVIOUS
  <2>1. Len(Tail(s)) > 0 /\ Len(s) > 1 /\ 1 + 1 = 2 /\ 2 \in 1..Len(s)
    BY <1>1
  <2>2. /\ 1 \in 1..Len(Tail(s)) /\ Len(Tail(s)) \in 1..Len(Tail(s))
        /\ Len(Tail(s)) + 1 = Len(s)
    BY <1>1, <2>1
  <2>3. Tail(s)[1] = s[2] /\ Tail(s)[Len(Tail(s))] = s[Len(s)]
    BY <1>1, <2>1, <2>2
  <2> QED BY <2>1, <2>3 DEF Script
<1> QED BY <1>1, <1>2, <1>3, <1>4 DEF Script

LEMMA ScriptJoin ==
  ASSUME NEW r, NEW s, NEW who, NEW t \in Nat, NEW b \in [Runs -> Nat],
         Script(r, "api", t, b), Script(s, who, t, b), r # <<>>,
         s # <<>> => /\ s[1].run = r[1].run /\ s[1].op # "cursor"
                     /\ s[1].op = "done" => r[Len(r)].op = "move"
                                            /\ r[Len(r)].to \in Terminal
  PROVE  /\ Script(r \o s, who, t, b) /\ r \o s # <<>> /\ (r \o s)[1] = r[1]
         /\ (r \o s)[Len(r \o s)] = IF s = <<>> THEN r[Len(r)] ELSE s[Len(s)]
<1> DEFINE u == r \o s
<1>1. /\ r \in Seq(Ops) /\ s \in Seq(Ops) /\ Paired(r) /\ Paired(s)
      /\ u \in Seq(Ops) /\ Len(r) \in Nat \ {0} /\ Len(s) \in Nat
  BY DEF Script
<1>2. /\ Len(u) = Len(r) + Len(s)
      /\ \A n \in 1..Len(r) : u[n] = r[n]
      /\ \A n \in 1..Len(s) : u[Len(r) + n] = s[n]
  BY <1>1
<1>3. u # <<>> /\ u[1] = r[1]
  BY <1>1, <1>2
<1>4. u[Len(u)] = IF s = <<>> THEN r[Len(r)] ELSE s[Len(s)]
  <2>1. CASE s = <<>>
    BY <1>1, <1>2, <2>1
  <2>2. CASE s # <<>>
    <3>1. Len(s) \in 1..Len(s)
      BY <1>1, <2>2
    <3> QED BY <1>1, <1>2, <2>2, <3>1
  <2> QED BY <2>1, <2>2
<1>5. ASSUME NEW n \in 1..Len(r)
      PROVE  u[n] = r[n] /\ r[n].run = r[1].run /\ Inner(r[n], t, b) /\ n \in 1..Len(u)
  BY <1>1, <1>2 DEF Script, Outer, EndsIn
<1>6. ASSUME NEW n \in 1..Len(u), n > Len(r)
      PROVE  LET m == n - Len(r) IN
             /\ m \in 1..Len(s) /\ u[n] = s[m] /\ s[m].run = s[1].run
             /\ Inner(s[m], t, b) \/ (n = Len(u) /\ Outer(s[m], who))
             /\ s # <<>>
  <2> DEFINE m == n - Len(r)
  <2>0. Len(r) \in Nat /\ Len(s) \in Nat /\ Len(u) = Len(r) + Len(s) /\ n \in Nat
    BY <1>1, <1>2
  <2>1. m \in 1..Len(s) /\ Len(r) + m = n /\ (m = Len(s) => n = Len(u)) /\ s # <<>>
    BY <2>0, <1>6
  <2>2. u[n] = s[m]
    BY <1>2, <2>1
  <2>3. /\ s[m].run = s[1].run
        /\ Inner(s[m], t, b) \/ (m = Len(s) /\ Outer(s[m], who))
    BY <2>1 DEF Script
  <2> QED BY <2>1, <2>2, <2>3
<1>7. Paired(u)
  <2> SUFFICES ASSUME NEW n \in 1..Len(u)
               PROVE  /\ u[n].op = "line" => n < Len(u) /\ u[n + 1].op = "cursor"
                      /\ n > 1 /\ u[n].op = "cursor" => u[n - 1].op = "line"
                      /\ n > 1 /\ u[n].op = "done" =>
                           u[n - 1].op = "move" /\ u[n - 1].to \in Terminal
    BY DEF Paired
  <2>1. CASE n <= Len(r)
    <3>1. n \in 1..Len(r) /\ u[n] = r[n] /\ Len(r) <= Len(u)
      BY <1>1, <1>2, <2>1
    <3>2. r[n].op = "line" => n < Len(r) /\ r[n + 1].op = "cursor" /\ n + 1 \in 1..Len(r)
      BY <1>1, <3>1 DEF Paired
    <3>3. n > 1 => n - 1 \in 1..Len(r) /\ u[n - 1] = r[n - 1]
      BY <1>1, <1>2, <3>1
    <3>4. n > 1 => /\ r[n].op = "cursor" => r[n - 1].op = "line"
                   /\ r[n].op = "done" => r[n - 1].op = "move"
                                          /\ r[n - 1].to \in Terminal
      BY <1>1, <3>1 DEF Paired
    <3>5. r[n].op = "line" => n < Len(u) /\ u[n + 1] = r[n + 1]
      BY <1>1, <1>2, <3>1, <3>2
    <3> QED BY <3>1, <3>2, <3>3, <3>4, <3>5
  <2>2. CASE n > Len(r)
    <3> DEFINE m == n - Len(r)
    <3>1. m \in 1..Len(s) /\ Len(r) + m = n /\ u[n] = s[m] /\ s # <<>>
      BY <1>1, <1>6, <2>2
    <3>2. s[m].op = "line" => n < Len(u) /\ u[n + 1] = s[m + 1] /\ s[m + 1].op = "cursor"
      <4> SUFFICES ASSUME s[m].op = "line"
                   PROVE  n < Len(u) /\ u[n + 1] = s[m + 1] /\ s[m + 1].op = "cursor"
        OBVIOUS
      <4>1. m < Len(s) /\ s[m + 1].op = "cursor"
        BY <1>1, <3>1 DEF Paired
      <4>2. m + 1 \in 1..Len(s) /\ Len(r) + (m + 1) = n + 1 /\ n < Len(u)
        BY <1>1, <1>2, <3>1, <4>1
      <4> QED BY <1>2, <4>1, <4>2
    <3>3. CASE m > 1
      <4>1. m - 1 \in 1..Len(s) /\ Len(r) + (m - 1) = n - 1
        <5>1. Len(r) \in Nat /\ Len(s) \in Nat /\ n \in Nat
          BY <1>1
        <5>2. m \in 1..Len(s) /\ m > 1 /\ Len(r) + m = n
          BY <3>1, <3>3
        <5> HIDE DEF m
        <5> QED BY <5>1, <5>2
      <4>2. u[n - 1] = s[m - 1]
        BY <1>2, <4>1
      <4>3. /\ s[m].op = "cursor" => s[m - 1].op = "line"
            /\ s[m].op = "done" => s[m - 1].op = "move" /\ s[m - 1].to \in Terminal
        BY <1>1, <3>1, <3>3 DEF Paired
      <4> QED BY <3>1, <3>2, <4>2, <4>3
    <3>4. CASE m = 1
      <4>1. n - 1 = Len(r) /\ Len(r) \in 1..Len(r)
        BY <1>1, <3>1, <3>4
      <4>2. u[n - 1] = r[Len(r)]
        BY <1>2, <4>1
      <4> QED BY <3>1, <3>2, <3>4, <4>2
    <3> QED BY <1>1, <3>1, <3>3, <3>4
  <2> QED BY <1>1, <2>1, <2>2
<1>8. ASSUME NEW n \in 1..Len(u)
      PROVE  /\ u[n].run = u[1].run
             /\ Inner(u[n], t, b) \/ (n = Len(u) /\ Outer(u[n], who))
  <2>1. CASE n <= Len(r)
    <3>1. n \in 1..Len(r)
      BY <1>1, <2>1
    <3> QED BY <1>3, <1>5, <3>1
  <2>2. CASE n > Len(r)
    BY <1>3, <1>6, <2>2
  <2> QED BY <1>1, <2>1, <2>2
<1> QED BY <1>1, <1>3, <1>4, <1>7, <1>8 DEF Script

LEMMA PutScript ==
  ASSUME NEW i \in Runs, NEW who, NEW t \in Nat, NEW b \in [Runs -> Nat], NEW d \in Nat,
         Dated(d, i, t, b)
  PROVE  /\ Script(Put(i, d), who, t, b) /\ Len(Put(i, d)) = 2
         /\ Put(i, d) # <<>> /\ Put(i, d)[1].op = "line" /\ Put(i, d)[1].run = i
         /\ Put(i, d)[2].op = "cursor" /\ Put(i, d)[2].run = i
<1>1. Put(i, d) \in Seq(Ops)
  BY RunsInOps DEF Put, Op, Ops, OpNames
<1>5. Put(i, d) # <<>>
  BY DEF Put
<1>2. /\ Len(Put(i, d)) = 2
      /\ Put(i, d)[1].op = "line" /\ Put(i, d)[1].run = i /\ Put(i, d)[1].at = d
      /\ Put(i, d)[2].op = "cursor" /\ Put(i, d)[2].run = i /\ Put(i, d)[2].at = d
  BY DEF Put, Op
<1> HIDE DEF Put
<1>3. Paired(Put(i, d))
  BY <1>2 DEF Paired
<1>4. \A n \in 1..2 : Put(i, d)[n].run = Put(i, d)[1].run /\ Inner(Put(i, d)[n], t, b)
  BY <1>2 DEF Inner
<1>6. \A n \in 1..Len(Put(i, d)) : n \in 1..2
  BY <1>2
<1>7. Script(Put(i, d), who, t, b)
  BY <1>1, <1>3, <1>4, <1>6 DEF Script
<1> QED BY <1>2, <1>5, <1>7

\* A script of one operation.
LEMMA SingleScript ==
  ASSUME NEW op \in Ops, NEW who, NEW t \in Nat, NEW b \in [Runs -> Nat],
         op.op # "line",
         Inner(op, t, b) \/ Outer(op, who)
  PROVE  Script(<<op>>, who, t, b)
  BY DEF Script, Paired

LEMMA MoveScript ==
  ASSUME NEW i \in Runs, NEW st \in Statuses, NEW who,
         NEW t \in Nat, NEW b \in [Runs -> Nat], NEW d \in Nat, Dated(d, i, t, b)
  PROVE  /\ Script(Move(i, st, d), who, t, b) /\ Move(i, st, d) # <<>>
         /\ Len(Move(i, st, d)) = 1 /\ Move(i, st, d)[1].op = "move"
         /\ Move(i, st, d)[1].run = i /\ Move(i, st, d)[1].to = st
<1>1. Op("move", i, st, d) \in Ops
  BY RunsInOps DEF Op, Ops, OpNames
<1>2. Inner(Op("move", i, st, d), t, b)
  BY DEF Op, Inner
<1>3. Script(<<Op("move", i, st, d)>>, who, t, b)
  BY <1>1, <1>2, SingleScript DEF Op
<1> QED BY <1>3 DEF Move, Op

LEMMA DoScript ==
  ASSUME NEW i \in 0..MaxRuns, NEW who, NEW t \in Nat, NEW b \in [Runs -> Nat],
         NEW name, name = "expire" \/ EndsIn(name, who),
         name \notin {"list", "serve"} => i \in Runs
  PROVE  /\ Script(<<Do(name, i)>>, who, t, b)
         /\ Do(name, i).op = name /\ Do(name, i).run = i
<1>1. Do(name, i) \in Ops
  BY DEF Do, Op, Ops, OpNames, EndsIn
<1>2. Inner(Do(name, i), t, b) \/ Outer(Do(name, i), who)
  BY DEF Do, Op, Inner, Outer
<1>3. Do(name, i).op # "line"
  BY DEF Do, Op, EndsIn
<1> QED BY <1>1, <1>2, <1>3, SingleScript DEF Do, Op

-----------------------------------------------------------------------------
(* The operation under way, and what is behind it.                         *)

Inside == {"line", "cursor", "move", "expire"}
Creation == CreateFiles \cup {"start", "reply"}

LEMMA SeqFacts ==
  ASSUME NEW s \in Seq(Ops)
  PROVE  /\ Len(s) \in Nat
         /\ s # <<>> => /\ Len(s) \in Nat \ {0} /\ 1 \in 1..Len(s)
                        /\ Len(s) \in 1..Len(s)
                        /\ Tail(s) \in Seq(Ops) /\ Len(Tail(s)) = Len(s) - 1
                        /\ Head(s) = s[1] /\ s[1] \in Ops
         /\ s # <<>> /\ Tail(s) # <<>> => 1 < Len(s) /\ 2 \in 1..Len(s)
         /\ s # <<>> /\ Tail(s) = <<>> => Len(s) = 1
         /\ Len(s) = 1 => Tail(s) = <<>>
<1>1. Len(s) \in Nat
  OBVIOUS
<1>2. ASSUME s # <<>>
      PROVE  /\ Len(s) \in Nat \ {0} /\ 1 \in 1..Len(s)
             /\ Len(s) \in 1..Len(s)
             /\ Tail(s) \in Seq(Ops) /\ Len(Tail(s)) = Len(s) - 1
             /\ Head(s) = s[1] /\ s[1] \in Ops
  BY <1>2
<1>3. ASSUME s # <<>>, Tail(s) # <<>> PROVE 1 < Len(s) /\ 2 \in 1..Len(s)
  BY <1>3
<1>4. ASSUME s # <<>>, Tail(s) = <<>> PROVE Len(s) = 1
  <2>0. \A t : t = <<>> => Len(t) = 0
    BY EmptySeq
  <2>1. Len(Tail(s)) = 0
    BY <1>4, <2>0
  <2> QED BY <1>2, <1>4, <2>1
<1>5. ASSUME Len(s) = 1 PROVE Tail(s) = <<>>
  <2>1. s # <<>>
    BY <1>5
  <2>2. Tail(s) \in Seq(Ops) /\ Len(Tail(s)) = 0
    BY <1>2, <1>5, <2>1
  <2> QED BY <2>2, EmptySeq
<1> QED BY <1>1, <1>2, <1>3, <1>4, <1>5

LEMMA CreateOpsAre ==
  ASSUME NEW i \in Runs
  PROVE  /\ CreateOps(i) \in Seq(Ops) /\ Len(CreateOps(i)) = 6
         /\ \A n \in 1..6 : CreateOps(i)[n] \in Ops /\ CreateOps(i)[n].run = i
                            /\ CreateOps(i)[n].op \in Creation
         /\ CreateOps(i)[1].op = "request" /\ CreateOps(i)[2].op = "record"
         /\ CreateOps(i)[3].op = "index" /\ CreateOps(i)[4].op = "events"
         /\ CreateOps(i)[5].op = "start" /\ CreateOps(i)[6].op = "reply"
<1>1. CreateOps(i) \in Seq(Ops)
  BY RunsInOps DEF CreateOps, Do, Op, Ops, OpNames, CreateFiles
<1>2. /\ Len(CreateOps(i)) = 6
      /\ CreateOps(i)[1].op = "request" /\ CreateOps(i)[2].op = "record"
      /\ CreateOps(i)[3].op = "index" /\ CreateOps(i)[4].op = "events"
      /\ CreateOps(i)[5].op = "start" /\ CreateOps(i)[6].op = "reply"
      /\ CreateOps(i)[1].run = i /\ CreateOps(i)[2].run = i
      /\ CreateOps(i)[3].run = i /\ CreateOps(i)[4].run = i
      /\ CreateOps(i)[5].run = i /\ CreateOps(i)[6].run = i
  BY DEF CreateOps, Do, Op
<1> HIDE DEF CreateOps
<1>6. Len(CreateOps(i)) = 6
  BY <1>2
<1>3. \A n \in 1..6 : CreateOps(i)[n] \in Ops
  BY <1>1, <1>6, ElementOfSeq
<1>4. \A n \in 1..6 : n = 1 \/ n = 2 \/ n = 3 \/ n = 4 \/ n = 5 \/ n = 6
  OBVIOUS
<1>5. \A n \in 1..6 : CreateOps(i)[n].run = i /\ CreateOps(i)[n].op \in Creation
  BY <1>2, <1>4 DEF Creation, CreateFiles
<1> QED BY <1>1, <1>2, <1>3, <1>5

LEMMA HeadIs ==
  ASSUME TypeInv, todo # <<>>
  PROVE  /\ Head(todo) = todo[1] /\ todo[1] \in Ops /\ Len(todo) \in Nat \ {0}
         /\ Tail(todo) \in Seq(Ops) /\ Len(Tail(todo)) = Len(todo) - 1
  BY DEF TypeInv

LEMMA CreateHead ==
  ASSUME TypeInv, ScriptInv, todo # <<>>, by = "create"
  PROVE  \E i \in Runs, n \in 1..6 :
           /\ CreateAt(i, n) /\ todo[1] = CreateOps(i)[n] /\ todo[1].run = i
           /\ todo[1].op \in Creation
<1>1. PICK i \in Runs, n \in 1..6 : CreateAt(i, n)
  BY DEF ScriptInv
<1>2. 1 \in 1..Len(todo) /\ n - 1 + 1 = n
  BY <1>1 DEF CreateAt
<1>3. todo[1] = CreateOps(i)[n]
  BY <1>1, <1>2 DEF CreateAt
<1> QED BY <1>1, <1>3, CreateOpsAre

LEMMA ScriptHead ==
  ASSUME TypeInv, ScriptInv, todo # <<>>, by # "create"
  PROVE  /\ Script(todo, by, now, born) /\ todo[1].op \notin Creation
         /\ now \in Nat /\ born \in [Runs -> Nat]
         /\ todo[1].op \in Inside => Inner(todo[1], now, born)
         /\ todo[1].op \notin Inside => /\ Outer(todo[1], by)
                                        /\ Len(todo) = 1 /\ Tail(todo) = <<>>
<1>1. /\ Script(todo, by, now, born) /\ now \in Nat /\ born \in [Runs -> Nat]
      /\ todo \in Seq(Ops)
  BY BoundAssumption DEF ScriptInv, TypeInv, TypeOK
<1>7. 1 \in 1..Len(todo)
  BY <1>1, SeqFacts
<1>2. \/ Inner(todo[1], now, born)
      \/ 1 = Len(todo) /\ Outer(todo[1], by)
  BY <1>1, <1>7 DEF Script
<1>3. Inner(todo[1], now, born) => todo[1].op \in Inside
  BY DEF Inner, Inside
<1>4. Outer(todo[1], by) => todo[1].op \notin Inside \cup Creation
  BY DEF Outer, EndsIn, Inside, Creation, CreateFiles
<1>5. Inside \cap Creation = {}
  BY DEF Inside, Creation, CreateFiles
<1>6. Len(todo) = 1 => Tail(todo) = <<>>
  BY <1>1, SeqFacts
<1> QED BY <1>1, <1>2, <1>3, <1>4, <1>5, <1>6

\* A write or a check of an expiry: the rest of the script is one.
LEMMA InsideHead ==
  ASSUME TypeInv, ScriptInv, todo # <<>>, todo[1].op \in Inside
  PROVE  /\ by # "create" /\ Inner(todo[1], now, born) /\ todo[1].run \in Runs
         /\ now \in Nat /\ born \in [Runs -> Nat]
         /\ Script(Tail(todo), by, now, born)
         /\ by = "startup" => Tail(todo) # <<>>
         /\ todo[1].op = "line" => Tail(todo) # <<>> /\ Tail(todo)[1].op = "cursor"
         /\ Tail(todo) # <<>> =>
              /\ Tail(todo)[1].run = todo[1].run
              /\ Tail(todo)[Len(Tail(todo))] = todo[Len(todo)]
              /\ Tail(todo)[1].op = "cursor" => todo[1].op = "line"
              /\ Tail(todo)[1].op = "done" =>
                   todo[1].op = "move" /\ todo[1].to \in Terminal
<1>1. by # "create"
  <2>1. Inside \cap Creation = {}
    BY DEF Inside, Creation, CreateFiles
  <2> QED BY <2>1, CreateHead
<1>2. /\ Script(todo, by, now, born) /\ Inner(todo[1], now, born)
      /\ now \in Nat /\ born \in [Runs -> Nat]
  BY <1>1, ScriptHead
<1>3. /\ Script(Tail(todo), by, now, born) /\ Len(todo) \in Nat \ {0}
      /\ Len(Tail(todo)) = Len(todo) - 1
      /\ Tail(todo) # <<>> => /\ Len(todo) > 1 /\ Tail(todo)[1] = todo[2]
                              /\ todo[2].run = todo[1].run
                              /\ Tail(todo)[Len(Tail(todo))] = todo[Len(todo)]
  BY <1>2, ScriptTail
<1>4. by = "startup" => Tail(todo) # <<>>
  <2> SUFFICES ASSUME by = "startup", Tail(todo) = <<>> PROVE FALSE
    OBVIOUS
  <2>1. Len(todo) = 1
    BY SeqFacts DEF TypeInv
  <2>2. EndsIn(todo[Len(todo)].op, by)
    BY DEF ScriptInv
  <2> QED BY <2>1, <2>2 DEF EndsIn, Inside
<1>5. Paired(todo) /\ 1 \in 1..Len(todo)
  BY <1>2, SeqFacts DEF Script
<1>6. todo[1].op = "line" => Tail(todo) # <<>> /\ Tail(todo)[1].op = "cursor"
  <2> SUFFICES ASSUME todo[1].op = "line"
               PROVE  Tail(todo) # <<>> /\ Tail(todo)[1].op = "cursor"
    OBVIOUS
  <2>1. 1 < Len(todo) /\ todo[2].op = "cursor"
    BY <1>5 DEF Paired
  <2>2. Tail(todo) # <<>>
    BY <2>1, SeqFacts DEF TypeInv
  <2> QED BY <1>3, <2>1, <2>2
<1>7. Tail(todo) # <<>> =>
        /\ Tail(todo)[1].op = "cursor" => todo[1].op = "line"
        /\ Tail(todo)[1].op = "done" => todo[1].op = "move" /\ todo[1].to \in Terminal
  <2> SUFFICES ASSUME Tail(todo) # <<>>
               PROVE  /\ todo[2].op = "cursor" => todo[1].op = "line"
                      /\ todo[2].op = "done" =>
                           todo[1].op = "move" /\ todo[1].to \in Terminal
    BY <1>3
  <2>1. 2 \in 1..Len(todo) /\ 2 > 1 /\ 2 - 1 = 1
    BY SeqFacts DEF TypeInv
  <2> QED BY <1>5, <2>1 DEF Paired
<1> QED BY <1>1, <1>2, <1>3, <1>4, <1>6, <1>7 DEF Inner

-----------------------------------------------------------------------------
(* Types.                                                                  *)

LEMMA TypeInit == Init => TypeInv
<1> SUFFICES ASSUME Init PROVE TypeInv
  OBVIOUS
<1>1. now \in 0..MaxTime /\ faults \in 0..MaxFaults /\ todo \in Seq(Ops)
  BY BoundAssumption DEF Init
<1>2. stream \in [run : 0..MaxRuns, at : Nat, upto : Nat, phase : Phases]
  BY RunsAssumption DEF Init, Closed, Phases
<1>3. \A i \in Runs : cursor[i] \in 0..lines[i] /\ got[i] \in 0..lines[i]
  BY DEF Init
<1> QED BY <1>1, <1>2, <1>3 DEF Init, TypeInv, TypeOK, Closed, Active

\* The files, the index and the answers.
LEMMA FileTypes ==
  ASSUME TypeInv, ScriptInv, KeyInv, Next
  PROVE  /\ files' \in [Runs -> SUBSET CreateFiles]
         /\ key' \in [Runs -> Keys \cup {NoKey}] /\ born' \in [Runs -> Nat]
         /\ told' \subseteq Keys \X Runs
<1> USE DEF fileVars, clientVars
<1>0. /\ files \in [Runs -> SUBSET CreateFiles]
      /\ key \in [Runs -> Keys \cup {NoKey}] /\ born \in [Runs -> Nat]
      /\ told \subseteq Keys \X Runs /\ now \in Nat
  BY BoundAssumption DEF TypeInv, TypeOK
<1>1. CASE Step
  <2> DEFINE op == Head(todo)
  <2>1. CASE WriteFile(op)
    <3>1. /\ files' = [files EXCEPT ![op.run] = @ \cup {op.op}]
          /\ op.op \in CreateFiles /\ UNCHANGED <<key, born, told>>
      BY <2>1 DEF WriteFile, Idle
    <3>2. files' \in [Runs -> SUBSET CreateFiles]
      BY <1>0, <3>1
    <3> QED BY <1>0, <3>1, <3>2
  <2>2. CASE Reply(op)
    <3>1. /\ told' = told \cup {<<key[op.run], op.run>>} /\ UNCHANGED fileVars
          /\ op.op = "reply" /\ todo # <<>>
      BY <1>1, <2>2 DEF Reply, Answer, Step
    <3>2. op = todo[1] /\ by = "create"
      BY <3>1, HeadIs, ScriptHead DEF Creation
    <3>3. op.run \in Runs /\ Creating(op.run)
      BY <3>1, <3>2, CreateHead DEF Creating
    <3>4. key[op.run] \in Keys
      BY <3>3 DEF KeyInv, Holds
    <3> QED BY <1>0, <3>1, <3>3, <3>4
  <2>3. CASE ~WriteFile(op) /\ ~Reply(op)
    <3>1. UNCHANGED <<files, key, born, told>>
      BY <1>1, <2>3
      DEF Step, WriteLine, WriteCursor, WriteStatus, Expire, StartTask, EndTask,
          ListRecords, Serve, OpenStream, DecideStream, Fail, GiveUp, Idle
    <3> QED BY <1>0, <3>1
  <2> QED BY <2>1, <2>2, <2>3
<1>2. ASSUME NEW k \in Keys, PostKnown(k) \/ PostNew(k)
      PROVE  /\ files' \in [Runs -> SUBSET CreateFiles]
             /\ key' \in [Runs -> Keys \cup {NoKey}] /\ born' \in [Runs -> Nat]
             /\ told' \subseteq Keys \X Runs
  <2>1. CASE PostKnown(k)
    <3>1. PICK i \in Runs : key[i] = k /\ told' = told \cup {<<key[i], i>>}
      BY <2>1 DEF PostKnown, Indexed, Answer
    <3>2. UNCHANGED fileVars
      BY <2>1 DEF PostKnown
    <3> QED BY <1>0, <3>1, <3>2
  <2>2. CASE PostNew(k)
    <3>1. PICK i \in Runs : /\ key' = [key EXCEPT ![i] = k]
                            /\ born' = [born EXCEPT ![i] = now]
      BY <2>2 DEF PostNew
    <3>2. UNCHANGED <<files, told>>
      BY <2>2 DEF PostNew
    <3> QED BY <1>0, <3>1, <3>2
  <2> QED BY <1>2, <2>1, <2>2
<1>3. CASE \/ CreateFails \/ Stream \/ Disconnect \/ Startup \/ Crash \/ Tick
           \/ \E i \in Runs :
                Task(i) \/ TaskEscapes(i) \/ Refresh(i) \/ Cancel(i) \/ Follow(i)
  <2>1. UNCHANGED <<files, key, born, told>>
    BY <1>3
    DEF CreateFails, Stream, StreamRead, StreamYield, StreamCheck, Disconnect,
        Startup, Crash, Tick, Task, TaskStart, TaskWorks, TaskEnds, TaskEscapes,
        Refresh, Cancel,
        Follow, Handle, Fail
  <2> QED BY <1>0, <2>1
<1> QED BY <1>1, <1>2, <1>3 DEF Next

\* The records and the log.
LEMMA RecordTypes ==
  ASSUME TypeInv, ScriptInv, Next
  PROVE  /\ status' \in [Runs -> Statuses] /\ late' \in [Runs -> BOOLEAN]
         /\ lines' \in [Runs -> Nat]
         /\ tail' \in [Runs -> {"clean", "open", "corrupt"}]
         /\ cursor' \in [Runs -> Nat]
         /\ \A i \in Runs : cursor'[i] \in 0..lines'[i] /\ lines'[i] >= lines[i]
<1> USE DEF recordVars, logVars
<1>0. /\ status \in [Runs -> Statuses] /\ late \in [Runs -> BOOLEAN]
      /\ lines \in [Runs -> Nat] /\ tail \in [Runs -> {"clean", "open", "corrupt"}]
      /\ cursor \in [Runs -> Nat] /\ \A i \in Runs : cursor[i] \in 0..lines[i]
  BY DEF TypeInv, TypeOK, Statuses
<1>a. ASSUME UNCHANGED <<recordVars, logVars>>
      PROVE  /\ status' \in [Runs -> Statuses] /\ late' \in [Runs -> BOOLEAN]
             /\ lines' \in [Runs -> Nat]
             /\ tail' \in [Runs -> {"clean", "open", "corrupt"}]
             /\ cursor' \in [Runs -> Nat]
             /\ \A i \in Runs : cursor'[i] \in 0..lines'[i] /\ lines'[i] >= lines[i]
  BY <1>0, <1>a
<1>b. ASSUME NEW j \in Runs, UNCHANGED recordVars,
             lines' = [lines EXCEPT ![j] = @ + 1],
             \E v \in {"clean", "open", "corrupt"} : tail' = [tail EXCEPT ![j] = v]
      PROVE  /\ status' \in [Runs -> Statuses] /\ late' \in [Runs -> BOOLEAN]
             /\ lines' \in [Runs -> Nat]
             /\ tail' \in [Runs -> {"clean", "open", "corrupt"}]
             /\ cursor' \in [Runs -> Nat]
             /\ \A i \in Runs : cursor'[i] \in 0..lines'[i] /\ lines'[i] >= lines[i]
  <2>1. /\ lines' \in [Runs -> Nat]
        /\ tail' \in [Runs -> {"clean", "open", "corrupt"}]
    BY <1>0, <1>b
  <2>2. ASSUME NEW i \in Runs PROVE cursor'[i] \in 0..lines'[i] /\ lines'[i] >= lines[i]
    <3>1. lines[i] \in Nat /\ cursor[i] \in 0..lines[i] /\ cursor' = cursor
      BY <1>0, <1>b
    <3>2. lines'[i] = lines[i] \/ lines'[i] = lines[i] + 1
      BY <1>0, <1>b
    <3> QED BY <3>1, <3>2
  <2> QED BY <1>0, <1>b, <2>1, <2>2
<1>1. CASE Step
  <2> DEFINE op == Head(todo)
  <2>0. todo # <<>> /\ op = todo[1]
    BY <1>1, HeadIs DEF Step
  <2>1. CASE WriteLine(op)
    <3>1. op.run \in Runs /\ tail[op.run] \in {"clean", "open", "corrupt"}
      BY <1>0, <2>0, <2>1, InsideHead DEF WriteLine, Inside
    <3>2. /\ UNCHANGED recordVars /\ lines' = [lines EXCEPT ![op.run] = @ + 1]
          /\ tail' = [tail EXCEPT ![op.run] = IF @ = "open" THEN "corrupt" ELSE @]
      BY <2>1 DEF WriteLine
    <3>3. \E v \in {"clean", "open", "corrupt"} : tail' = [tail EXCEPT ![op.run] = v]
      BY <1>0, <3>1, <3>2
    <3> QED BY <1>b, <3>1, <3>2, <3>3
  <2>2. CASE WriteCursor(op)
    <3>1. op.run \in Runs
      BY <2>0, <2>2, InsideHead DEF WriteCursor, Inside
    <3>2. /\ cursor' = [cursor EXCEPT ![op.run] = lines[op.run]]
          /\ late' = [late EXCEPT ![op.run] = op.at > Expiry(op.run)]
          /\ UNCHANGED <<status, lines, tail>>
      BY <2>2 DEF WriteCursor
    <3>3. (op.at > Expiry(op.run)) \in BOOLEAN
      OBVIOUS
    <3>4. late' \in [Runs -> BOOLEAN]
      <4> DEFINE v == op.at > Expiry(op.run)
      <4>1. v \in BOOLEAN /\ late' = [late EXCEPT ![op.run] = v]
        BY <3>2, <3>3
      <4> HIDE DEF v
      <4> QED BY <1>0, <4>1
    <3>5. cursor' \in [Runs -> Nat] /\ \A i \in Runs : cursor'[i] \in 0..lines'[i]
      BY <1>0, <3>1, <3>2
    <3> QED BY <1>0, <3>2, <3>4, <3>5
  <2>3. CASE WriteStatus(op)
    <3>1. op.run \in Runs /\ op.to \in Statuses
      BY <2>0, <2>3, InsideHead DEF WriteStatus, Inside, Inner
    <3>2. /\ status' = [status EXCEPT ![op.run] = op.to]
          /\ UNCHANGED <<cursor, late, lines, tail>>
      BY <2>3 DEF WriteStatus
    <3> QED BY <1>0, <3>1, <3>2
  <2>4. CASE ~WriteLine(op) /\ ~WriteCursor(op) /\ ~WriteStatus(op)
    <3>1. UNCHANGED <<recordVars, logVars>>
      BY <1>1, <2>4
      DEF Step, WriteFile, Reply, Expire, StartTask, EndTask,
          ListRecords, Serve, OpenStream, DecideStream, Fail, GiveUp
    <3> QED BY <3>1, <1>a
  <2> QED BY <2>1, <2>2, <2>3, <2>4
<1>2. CASE Crash
  <2>1. UNCHANGED recordVars /\ (TornLine \/ UNCHANGED logVars)
    BY <1>2 DEF Crash
  <2>2. CASE TornLine
    <3> DEFINE i == Head(todo).run
    <3>1. todo # <<>> /\ Head(todo).op = "line" /\ Head(todo) = todo[1]
      BY <2>2, HeadIs DEF TornLine
    <3>2. i \in Runs
      BY <3>1, InsideHead DEF Inside
    <3>3. \/ tail' = [tail EXCEPT ![i] = "corrupt"] /\ UNCHANGED lines
          \/ tail' = [tail EXCEPT ![i] = "open"] /\ lines' = [lines EXCEPT ![i] = @ + 1]
      BY <2>2 DEF TornLine
    <3>4. CASE tail' = [tail EXCEPT ![i] = "corrupt"] /\ UNCHANGED lines
      <4>1. tail' \in [Runs -> {"clean", "open", "corrupt"}]
        BY <1>0, <3>4
      <4>2. UNCHANGED <<status, cursor, late, lines>>
        BY <2>1, <3>4
      <4> QED BY <1>0, <4>1, <4>2
    <3>5. CASE /\ tail' = [tail EXCEPT ![i] = "open"]
               /\ lines' = [lines EXCEPT ![i] = @ + 1]
      BY <1>b, <2>1, <3>2, <3>5
    <3> QED BY <3>3, <3>4, <3>5
  <2> QED BY <1>a, <2>1, <2>2
<1>3. CASE \/ CreateFails \/ Stream \/ Disconnect \/ Startup \/ Tick
           \/ \E k \in Keys : PostKnown(k) \/ PostNew(k)
           \/ \E i \in Runs :
                Task(i) \/ TaskEscapes(i) \/ Refresh(i) \/ Cancel(i) \/ Follow(i)
  <2>1. UNCHANGED <<recordVars, logVars>>
    BY <1>3
    DEF CreateFails, Stream, StreamRead, StreamYield, StreamCheck, Disconnect,
        Startup, Tick, PostKnown, PostNew, Task, TaskStart, TaskWorks, TaskEnds,
        TaskEscapes, Refresh, Cancel, Follow, Handle, Fail
  <2> QED BY <2>1, <1>a
<1> QED BY <1>1, <1>2, <1>3 DEF Next

-----------------------------------------------------------------------------
(* What the handlers queue.                                                *)

LEMMA Present ==
  ASSUME TypeInv, NEW i \in Runs
  PROVE  /\ now \in Nat /\ born \in [Runs -> Nat] /\ Expiry(i) \in Nat
         /\ Dated(now, i, now, born) /\ Dated(Expiry(i), i, now, born)
<1>1. now \in Nat /\ born \in [Runs -> Nat] /\ Life \in Nat /\ born[i] \in Nat
  BY BoundAssumption, LifeAssumption DEF TypeInv, TypeOK
<1> QED BY <1>1 DEF Expiry, Dated

\* An event, a terminal transition at the same time, and the end of the script.
Ending(i, st, d) == Put(i, d) \o Move(i, st, d)
Finishing(i, st, d) == Ending(i, st, d) \o <<Do("done", i)>>
LEMMA EndingScript ==
  ASSUME NEW i \in Runs, NEW st \in Terminal, NEW who,
         NEW t \in Nat, NEW b \in [Runs -> Nat], NEW d \in Nat, Dated(d, i, t, b)
  PROVE  LET s == Ending(i, st, d) IN
         /\ Script(s, "api", t, b) /\ Script(s, who, t, b)
         /\ s # <<>> /\ s[1].op = "line" /\ s[1].run = i
         /\ s[Len(s)].op = "move" /\ s[Len(s)].to = st /\ s[Len(s)].run = i
<1> DEFINE p == Put(i, d)
           m == Move(i, st, d)
<1>1. /\ Script(p, "api", t, b) /\ p # <<>> /\ p[1].op = "line" /\ p[1].run = i
  BY PutScript
<1>2. /\ Script(m, "api", t, b) /\ Script(m, who, t, b)
      /\ m # <<>> /\ Len(m) = 1
      /\ m[1].op = "move" /\ m[1].run = i /\ m[1].to = st
  BY MoveScript DEF Statuses
<1> HIDE DEF p, m
<1>3. m # <<>> => /\ m[1].run = p[1].run /\ m[1].op # "cursor"
                  /\ m[1].op = "done" => p[Len(p)].op = "move"
                                         /\ p[Len(p)].to \in Terminal
  BY <1>1, <1>2
<1>4. /\ Script(p \o m, "api", t, b) /\ p \o m # <<>> /\ (p \o m)[1] = p[1]
      /\ (p \o m)[Len(p \o m)] = IF m = <<>> THEN p[Len(p)] ELSE m[Len(m)]
  BY ONLY <1>1, <1>2, <1>3, ScriptJoin
<1>5. Script(p \o m, who, t, b)
  BY <1>1, <1>2, <1>3, ScriptJoin
<1> QED BY <1>1, <1>2, <1>4, <1>5 DEF p, m, Ending

LEMMA ExpireScript ==
  ASSUME TypeInv, NEW i \in Runs, NEW who
  PROVE  /\ Script(ExpireOps(i), "api", now, born) /\ Script(ExpireOps(i), who, now, born)
         /\ ExpireOps(i) # <<>> /\ ExpireOps(i)[1].op = "line" /\ ExpireOps(i)[1].run = i
         /\ ExpireOps(i)[Len(ExpireOps(i))].op = "move"
         /\ ExpireOps(i)[Len(ExpireOps(i))].to = "expired"
         /\ ExpireOps(i)[Len(ExpireOps(i))].run = i
<1>1. "expired" \in Terminal
  BY DEF Terminal
<1>2. /\ now \in Nat /\ born \in [Runs -> Nat] /\ Expiry(i) \in Nat
      /\ Dated(Expiry(i), i, now, born)
  BY Present
<1>3. LET s == Ending(i, "expired", Expiry(i)) IN
      /\ Script(s, "api", now, born) /\ Script(s, who, now, born)
      /\ s # <<>> /\ s[1].op = "line" /\ s[1].run = i
      /\ s[Len(s)].op = "move" /\ s[Len(s)].to = "expired" /\ s[Len(s)].run = i
  BY <1>1, <1>2, EndingScript
<1> QED BY <1>3 DEF ExpireOps, Ending

LEMMA DoneScript ==
  ASSUME NEW i \in Runs, NEW st \in Terminal, NEW who, EndsIn("done", who),
         NEW t \in Nat, NEW b \in [Runs -> Nat], NEW d \in Nat, Dated(d, i, t, b)
  PROVE  LET s == Finishing(i, st, d) IN
         /\ Script(s, who, t, b) /\ s # <<>> /\ s[1].op = "line" /\ s[1].run = i
<1> DEFINE r == Ending(i, st, d)
           u == <<Do("done", i)>>
<1>1. /\ Script(r, "api", t, b) /\ r # <<>> /\ r[1].op = "line" /\ r[1].run = i
      /\ r[Len(r)].op = "move" /\ r[Len(r)].to = st
  BY EndingScript
<1>2. /\ Script(u, who, t, b) /\ Do("done", i).op = "done" /\ Do("done", i).run = i
  BY RunsInOps, DoScript
<1>3. u # <<>> /\ u[1] = Do("done", i)
  OBVIOUS
<1> HIDE DEF r, u
<1>4. u # <<>> => /\ u[1].run = r[1].run /\ u[1].op # "cursor"
                  /\ u[1].op = "done" => r[Len(r)].op = "move"
                                         /\ r[Len(r)].to \in Terminal
  BY <1>1, <1>2, <1>3
<1>5. /\ Script(r \o u, who, t, b) /\ r \o u # <<>> /\ (r \o u)[1] = r[1]
  BY <1>1, <1>2, <1>4, ScriptJoin
<1> QED BY <1>1, <1>5 DEF r, u, Finishing

\* The check of an expiry, and the operation it is for.
LEMMA CheckedScript ==
  ASSUME NEW i \in Runs, NEW who, NEW t \in Nat, NEW b \in [Runs -> Nat],
         NEW name, EndsIn(name, who), name # "done"
  PROVE  LET s == <<Do("expire", i), Do(name, i)>> IN
         /\ Script(s, who, t, b) /\ s # <<>>
         /\ s[1].op = "expire" /\ s[Len(s)].op = name /\ s[Len(s)].run = i
<1> DEFINE s == <<Do("expire", i), Do(name, i)>>
           r == <<Do("expire", i)>>
           u == <<Do(name, i)>>
<1>2. /\ Script(r, "api", t, b) /\ Do("expire", i).op = "expire" /\ Do("expire", i).run = i
  BY RunsInOps, DoScript
<1>3. /\ Script(u, who, t, b) /\ Do(name, i).op = name /\ Do(name, i).run = i
  BY RunsInOps, DoScript
<1>4. name # "line" /\ name # "cursor"
  BY DEF EndsIn
<1>5. s \in Seq(Ops) /\ Len(s) = 2 /\ s[1] = Do("expire", i) /\ s[2] = Do(name, i) /\ s # <<>>
  BY <1>2, <1>3 DEF Script
<1> HIDE DEF s
<1>6. Script(s, who, t, b)
  <2>1. Paired(s)
    BY <1>2, <1>3, <1>4, <1>5 DEF Paired
  <2>2. Inner(s[1], t, b) /\ (Inner(s[2], t, b) \/ Outer(s[2], who))
    BY <1>2, <1>3, <1>5 DEF Inner, Outer
  <2>3. \A n \in 1..Len(s) : n = 1 \/ (n = 2 /\ n = Len(s))
    BY <1>5
  <2>4. s[1].run = s[1].run /\ s[2].run = s[1].run
    BY <1>2, <1>3, <1>5
  <2> QED BY <1>5, <2>1, <2>2, <2>3, <2>4 DEF Script
<1> QED BY <1>2, <1>3, <1>5, <1>6 DEF s

\* Every set of runs that is not empty has a first one.
LEMMA FirstExists ==
  ASSUME NEW S \in SUBSET Runs, S # {}
  PROVE  First(S) \in S /\ \A j \in S : First(S) <= j
<1> DEFINE below(n) == {t \in S : t < n}
           T == {below(n) : n \in S}
<1>1. S \subseteq Nat /\ \A t \in S : t <= MaxRuns
  BY RunsAssumption DEF Runs
<1>2. IsFiniteSet(S)
  BY <1>1, RunsAssumption, FS_BoundedSetOfNaturals
<1>3. T \subseteq FiniteSubsetsOf(S) /\ T # {}
  <2>1. \A n \in S : below(n) \in SUBSET S /\ IsFiniteSet(below(n))
    BY <1>2, FS_Subset
  <2> QED BY <2>1 DEF FiniteSubsetsOf
<1>4. PICK U \in T : \A V \in T : ~(<<V, U>> \in StrictSubsetOrdering(S))
  BY <1>3, FS_StrictSubsetOrderingWellFounded, WFMin
<1>5. PICK n \in S : U = below(n)
  OBVIOUS
<1>6. ASSUME NEW t \in S PROVE n <= t
  <2> SUFFICES ASSUME t < n PROVE FALSE
    BY <1>1
  <2>1. below(t) \in T /\ below(t) \subseteq below(n) /\ below(t) # below(n)
    <3>1. t \in below(n) /\ t \notin below(t)
      BY <1>1
    <3>2. ASSUME NEW x \in below(t) PROVE x \in below(n)
      <4>1. x \in S /\ x \in Nat /\ t \in Nat /\ n \in Nat /\ x < t
        BY <1>1
      <4>2. x < n
        BY <4>1
      <4> QED BY <4>1, <4>2
    <3> QED BY <3>1, <3>2
  <2>2. <<below(t), below(n)>> \in StrictSubsetOrdering(S)
    BY <2>1 DEF StrictSubsetOrdering
  <2> QED BY <1>4, <1>5, <2>1, <2>2
<1>7. \E s \in S : \A t \in S : s <= t
  BY <1>6
<1> QED BY <1>7 DEF First

\* recover goes on with the next record, or the gateway serves.
LEMMA RecoverScript ==
  ASSUME TypeInv, NEW i \in 0..MaxRuns
  PROVE  LET s == RecoverAfter(i) IN
         /\ Script(s, "startup", now, born) /\ s # <<>>
         /\ s[1].op \in {"expire", "serve"} /\ EndsIn(s[Len(s)].op, "startup")
         /\ \/ /\ s[Len(s)].op = "recover" /\ s[Len(s)].run \in Recorded
               /\ \A j \in Recorded : j < s[Len(s)].run => j <= i
            \/ s[Len(s)].op = "serve" /\ \A j \in Recorded : j <= i
<1> DEFINE rest == {j \in Recorded : i < j}
<1>1. Recorded \subseteq Runs /\ Runs \subseteq Nat /\ i \in Nat
  BY RunsInOps, RunsAssumption DEF Recorded
<1>2. now \in Nat /\ born \in [Runs -> Nat]
  BY BoundAssumption DEF TypeInv, TypeOK
<1>3. CASE rest = {}
  <2>1. RecoverAfter(i) = <<Do("serve", 0)>> /\ \A j \in Recorded : j <= i
    BY <1>1, <1>3 DEF RecoverAfter
  <2>2. EndsIn("serve", "startup") /\ 0 \in 0..MaxRuns
    BY RunsAssumption DEF EndsIn
  <2>3. Script(<<Do("serve", 0)>>, "startup", now, born) /\ Do("serve", 0).op = "serve"
    BY <1>2, <2>2, DoScript
  <2> QED BY <2>1, <2>2, <2>3
<1>4. CASE rest # {}
  <2> DEFINE f == First(rest)
             s == <<Do("expire", f), Do("recover", f)>>
  <2>1. f \in rest /\ \A j \in rest : f <= j
    BY <1>1, <1>4, FirstExists
  <2>2. f \in Runs /\ f \in Recorded /\ \A j \in Recorded : j < f => j <= i
    <3>1. f \in Runs /\ f \in Recorded
      BY <1>1, <2>1
    <3> HIDE DEF f
    <3>2. ASSUME NEW j \in Recorded, j < f PROVE j <= i
      BY <1>1, <2>1, <3>1, <3>2
    <3> QED BY <3>1, <3>2
  <2>3. RecoverAfter(i) = s
    BY <1>4 DEF RecoverAfter
  <2> HIDE DEF f
  <2>4. EndsIn("recover", "startup")
    BY DEF EndsIn
  <2>5. /\ Script(s, "startup", now, born) /\ s # <<>>
        /\ s[1].op = "expire" /\ s[Len(s)].op = "recover" /\ s[Len(s)].run = f
    BY <1>2, <2>2, <2>4, CheckedScript
  <2> QED BY <2>2, <2>3, <2>4, <2>5
<1> QED BY <1>3, <1>4

-----------------------------------------------------------------------------
(* The script of the running handler.                                      *)

ScriptNext == ScriptInv' /\ todo' \in Seq(Ops)

\* Nothing is left to do.
LEMMA Dropped ==
  ASSUME todo' = <<>>, proc' \in {"up", "down"} PROVE ScriptNext
<1>1. Script(todo', by', now', born')
  BY EmptyScript
<1>2. todo' \in Seq(Ops)
  OBVIOUS
<1> QED BY <1>1, <1>2 DEF ScriptInv, ScriptNext

\* A handler other than create, or the start of the process, begins.
LEMMA Queued ==
  ASSUME Script(todo', by', now', born'), proc' = "up",
         by' # "create", by' # "startup",
         todo' # <<>> => todo'[1].op # "cursor" /\ todo'[1].op # "done"
  PROVE  ScriptNext
<1>1. todo' \in Seq(Ops)
  BY DEF Script
<1> QED BY <1>1 DEF ScriptInv, ScriptNext

\* A handler does a write, or finds nothing to do for an expiry.
LEMMA Passed ==
  ASSUME TypeInv, ScriptInv, todo # <<>>, todo[1].op \in Inside, todo' = Tail(todo),
         UNCHANGED <<by, now, born, proc>>,
         todo[1].op = "line" => ~late'[todo[1].run],
         todo[1].op = "move" /\ todo[1].to \in Terminal => status'[todo[1].run] \in Terminal
  PROVE  ScriptNext
<1>1. /\ by # "create" /\ todo[1].run \in Runs
      /\ Script(Tail(todo), by, now, born)
      /\ by = "startup" => Tail(todo) # <<>>
      /\ Tail(todo) # <<>> =>
           /\ Tail(todo)[1].run = todo[1].run
           /\ Tail(todo)[Len(Tail(todo))] = todo[Len(todo)]
           /\ Tail(todo)[1].op = "cursor" => todo[1].op = "line"
           /\ Tail(todo)[1].op = "done" =>
                todo[1].op = "move" /\ todo[1].to \in Terminal
  BY InsideHead
<1>2. todo' \in Seq(Ops)
  BY <1>1 DEF Script
<1>3. Script(todo', by', now', born')
  BY <1>1
<1>4. /\ proc' = "down" => todo' = <<>>
      /\ proc' = "starting" <=> todo' # <<>> /\ by' = "startup"
  BY <1>1 DEF ScriptInv
<1>5. todo' # <<>> /\ by' = "startup" => EndsIn(todo'[Len(todo')].op, by')
  BY <1>1 DEF ScriptInv
<1>6. ASSUME todo' # <<>>
      PROVE  /\ todo'[1].op = "cursor" => ~late'[todo'[1].run]
             /\ todo'[1].op = "done" => status'[todo'[1].run] \in Terminal
  <2>1. todo'[1].run = todo[1].run
    BY <1>1, <1>6
  <2>2. /\ todo'[1].op = "cursor" => todo[1].op = "line"
        /\ todo'[1].op = "done" => todo[1].op = "move" /\ todo[1].to \in Terminal
    BY <1>1, <1>6
  <2> QED BY <2>1, <2>2 DEF Ended
<1> QED BY <1>1, <1>2, <1>3, <1>4, <1>5, <1>6 DEF ScriptInv, ScriptNext, Ended

LEMMA InsideSteps ==
  ASSUME TypeInv, ScriptInv, todo # <<>>,
         WriteLine(todo[1]) \/ WriteCursor(todo[1]) \/ WriteStatus(todo[1])
  PROVE  ScriptNext
<1> DEFINE op == todo[1]
<1>1. CASE WriteLine(op)
  <2>1. /\ op.op = "line" /\ todo' = Tail(todo) /\ ~late[op.run]
        /\ UNCHANGED <<by, now, born, proc, late>>
    BY <1>1 DEF WriteLine, CanAppend, Loadable, Idle, fileVars, recordVars
  <2> QED BY <2>1, Passed DEF Inside
<1>2. CASE WriteCursor(op)
  <2>1. /\ op.op = "cursor" /\ todo' = Tail(todo) /\ UNCHANGED <<by, now, born, proc>>
    BY <1>2 DEF WriteCursor, Idle, fileVars
  <2> QED BY <2>1, Passed DEF Inside
<1>3. CASE WriteStatus(op)
  <2>1. /\ op.op = "move" /\ todo' = Tail(todo) /\ UNCHANGED <<by, now, born, proc>>
        /\ status' = [status EXCEPT ![op.run] = op.to]
    BY <1>3 DEF WriteStatus, Idle, fileVars
  <2>2. op.run \in Runs /\ status \in [Runs -> Active \cup Terminal]
    BY <2>1, InsideHead DEF Inside, TypeInv, TypeOK
  <2>3. status'[op.run] = op.to
    BY <2>1, <2>2
  <2> QED BY <2>1, <2>3, Passed DEF Inside, Ended
<1> QED BY <1>1, <1>2, <1>3

LEMMA ExpireSteps ==
  ASSUME TypeInv, ScriptInv, todo # <<>>, Expire(todo[1]) PROVE ScriptNext
<1> DEFINE op == todo[1]
<1>1. /\ op.op = "expire" /\ UNCHANGED <<by, now, born, proc, late, status>>
      /\ \/ todo' = ExpireOps(op.run) \o Tail(todo)
         \/ todo' = <<>> \o Tail(todo)
  BY DEF Expire, Idle, fileVars, recordVars
<1>2. /\ by # "create" /\ op.run \in Runs /\ Script(Tail(todo), by, now, born)
      /\ by = "startup" => Tail(todo) # <<>>
      /\ Tail(todo) # <<>> =>
           /\ Tail(todo)[1].run = op.run
           /\ Tail(todo)[Len(Tail(todo))] = todo[Len(todo)]
           /\ Tail(todo)[1].op = "cursor" => op.op = "line"
           /\ Tail(todo)[1].op = "done" => op.op = "move" /\ op.to \in Terminal
  BY <1>1, InsideHead DEF Inside
<1>3. CASE todo' = <<>> \o Tail(todo)
  <2>1. todo' = Tail(todo)
    BY <1>2, <1>3, ConcatEmptySeq DEF Script
  <2> QED BY <1>1, <2>1, Passed DEF Inside
<1>4. CASE todo' = ExpireOps(op.run) \o Tail(todo)
  <2> DEFINE r == ExpireOps(op.run)
             s == Tail(todo)
  <2>1. /\ Script(r, "api", now, born) /\ r # <<>> /\ r[1].op = "line" /\ r[1].run = op.run
        /\ now \in Nat /\ born \in [Runs -> Nat]
    BY <1>2, ExpireScript, Present
  <2>2. s # <<>> => /\ s[1].run = r[1].run /\ s[1].op # "cursor"
                    /\ s[1].op = "done" => r[Len(r)].op = "move"
                                           /\ r[Len(r)].to \in Terminal
    BY <1>1, <1>2, <2>1
  <2> HIDE DEF r, s
  <2>3. Script(s, by, now, born)
    BY <1>2 DEF s
  <2>4. /\ Script(r \o s, by, now, born) /\ r \o s # <<>> /\ (r \o s)[1] = r[1]
        /\ (r \o s)[Len(r \o s)] = IF s = <<>> THEN r[Len(r)] ELSE s[Len(s)]
    BY <2>1, <2>2, <2>3, ScriptJoin
  <2>5. todo' = r \o s
    BY <1>4 DEF r, s
  <2>6. /\ Script(todo', by', now', born') /\ todo' # <<>> /\ todo'[1].op = "line"
        /\ todo'[Len(todo')] = IF s = <<>> THEN r[Len(r)] ELSE s[Len(s)]
    BY <1>1, <2>1, <2>4, <2>5
  <2>7. by' = "startup" => EndsIn(todo'[Len(todo')].op, by')
    <3> SUFFICES ASSUME by = "startup" PROVE EndsIn(todo'[Len(todo')].op, by)
      BY <1>1
    <3>1. EndsIn(todo[Len(todo)].op, by) /\ s # <<>> /\ s[Len(s)] = todo[Len(todo)]
      BY <1>2 DEF ScriptInv, s
    <3> QED BY <2>6, <3>1
  <2>8. proc # "down" /\ (proc = "starting" <=> by = "startup")
    BY DEF ScriptInv
  <2>9. todo' \in Seq(Ops)
    BY <2>6 DEF Script
  <2> QED BY <1>1, <1>2, <2>6, <2>7, <2>8, <2>9 DEF ScriptInv, ScriptNext, Ended
<1> QED BY <1>1, <1>3, <1>4

\* create goes on.
LEMMA CreateGoesOn ==
  ASSUME TypeInv, ScriptInv, todo # <<>>, todo' = Tail(todo), UNCHANGED <<by, now, born, proc>>,
         NEW i \in Runs, NEW n \in 1..6, CreateAt(i, n), by = "create",
         n = 6 \/ /\ n < 6
                  /\ "request" \in files'[i] <=> n + 1 > 1
                  /\ "record" \in files'[i] <=> n + 1 > 2
                  /\ "index" \in files'[i] <=> n + 1 > 3
                  /\ "events" \in files'[i] <=> n + 1 > 4
                  /\ n + 1 = 6 => task'[i] = "start"
  PROVE  /\ ScriptNext /\ (n = 6 <=> todo' = <<>>)
         /\ n < 6 => n + 1 \in 1..6 /\ CreateAt(i, n + 1)'
<1>1. /\ todo \in Seq(Ops) /\ Tail(todo) \in Seq(Ops) /\ Len(Tail(todo)) = Len(todo) - 1
      /\ Len(todo) = 7 - n
  BY HeadIs DEF CreateAt, TypeInv
<1>2. proc = "up"
  <2>1. proc # "down" /\ proc # "starting" /\ proc \in {"down", "starting", "up"}
    BY DEF ScriptInv, TypeInv, TypeOK
  <2> QED BY <2>1
<1>3. n = 6 <=> todo' = <<>>
  <2>1. n = 6 <=> Len(todo) = 1
    BY <1>1
  <2> QED BY <1>1, <2>1, SeqFacts
<1>4. CASE n = 6
  BY <1>2, <1>3, <1>4, Dropped
<1>5. CASE n < 6
  <2>1. n + 1 \in 1..6 /\ Len(todo') = 7 - (n + 1)
    BY <1>1, <1>5
  <2>2. ASSUME NEW m \in 1..Len(todo') PROVE todo'[m] = CreateOps(i)[(n + 1) - 1 + m]
    <3>1. m \in 1..Len(Tail(todo)) /\ m + 1 \in 1..Len(todo) /\ n - 1 + (m + 1) = (n + 1) - 1 + m
      BY <1>1, <2>2
    <3>2. Tail(todo)[m] = todo[m + 1]
      BY <1>1, <3>1
    <3>3. todo[m + 1] = CreateOps(i)[n - 1 + (m + 1)]
      BY <3>1 DEF CreateAt
    <3> QED BY <3>1, <3>2, <3>3
  <2>3. CreateAt(i, n + 1)'
    BY <1>5, <2>1, <2>2 DEF CreateAt
  <2>4. ASSUME todo' # <<>>
        PROVE  todo'[1].op # "cursor" /\ todo'[1].op # "done"
    <3>1. 1 \in 1..Len(todo') /\ (n + 1) - 1 + 1 = n + 1
      BY <1>1, <2>4, SeqFacts
    <3>2. todo'[1] = CreateOps(i)[n + 1]
      BY <2>2, <3>1
    <3> QED BY <2>1, <3>2, CreateOpsAre DEF Creation, CreateFiles
  <2>5. ScriptInv'
    BY <1>2, <2>1, <2>3, <2>4 DEF ScriptInv
  <2> QED BY <1>1, <1>3, <1>5, <2>1, <2>3, <2>5 DEF ScriptNext
<1> QED BY <1>4, <1>5

\* The operations of create.
LEMMA CreateSteps ==
  ASSUME TypeInv, ScriptInv, todo # <<>>, proc # "down", by = "create",
         NEW i \in Runs, NEW n \in 1..6, CreateAt(i, n), todo[1] = CreateOps(i)[n],
         WriteFile(todo[1]) \/ StartTask(todo[1]) \/ Reply(todo[1])
  PROVE  /\ ScriptNext /\ (n = 6 <=> todo' = <<>>)
         /\ n < 6 => n + 1 \in 1..6 /\ CreateAt(i, n + 1)'
<1> DEFINE op == todo[1]
<1>0. /\ op.run = i /\ n \in {1, 2, 3, 4, 5, 6}
      /\ n = 1 <=> op.op = "request"
      /\ n = 2 <=> op.op = "record"
      /\ n = 3 <=> op.op = "index"
      /\ n = 4 <=> op.op = "events"
      /\ n = 5 <=> op.op = "start"
      /\ n = 6 <=> op.op = "reply"
  <2>1. n \in {1, 2, 3, 4, 5, 6}
    OBVIOUS
  <2> QED BY <2>1, CreateOpsAre
<1>1. CASE WriteFile(op)
  <2>1. /\ op.op \in CreateFiles /\ todo' = Tail(todo)
        /\ UNCHANGED <<by, now, born, proc, task>>
        /\ files' = [files EXCEPT ![op.run] = @ \cup {op.op}]
    BY <1>1 DEF WriteFile, Idle
  <2>2. files'[i] = files[i] \cup {op.op}
    BY <1>0, <2>1 DEF TypeInv, TypeOK
  <2>3. n < 5
    BY <1>0, <2>1 DEF CreateFiles
  <2>4. /\ "request" \in files[i] <=> n > 1
        /\ "record" \in files[i] <=> n > 2
        /\ "index" \in files[i] <=> n > 3
        /\ "events" \in files[i] <=> n > 4
    BY DEF CreateAt
  <2>5. /\ "request" \in files'[i] <=> n + 1 > 1
        /\ "record" \in files'[i] <=> n + 1 > 2
        /\ "index" \in files'[i] <=> n + 1 > 3
        /\ "events" \in files'[i] <=> n + 1 > 4
    <3>1. CASE n = 1
      BY <1>0, <2>2, <2>4, <3>1
    <3>2. CASE n = 2
      BY <1>0, <2>2, <2>4, <3>2
    <3>3. CASE n = 3
      BY <1>0, <2>2, <2>4, <3>3
    <3>4. CASE n = 4
      BY <1>0, <2>2, <2>4, <3>4
    <3> QED BY <1>0, <2>3, <3>1, <3>2, <3>3, <3>4
  <2>6. n < 6 /\ n + 1 # 6
    BY <2>3
  <2> QED BY <2>1, <2>5, <2>6, CreateGoesOn
<1>2. CASE StartTask(op)
  <2>1. /\ op.op \in {"start", "recover"}
        /\ UNCHANGED <<by, now, born, proc, files>>
        /\ op.op = "start" => /\ todo' = Tail(todo)
                              /\ task' = [task EXCEPT ![op.run] = "start"]
        /\ op.op = "start" \/ op.op = "recover"
    BY <1>2 DEF StartTask, fileVars
  <2>2. op.op \in Creation
    BY CreateOpsAre
  <2>3. op.op = "start" /\ n = 5
    BY <1>0, <2>1, <2>2 DEF Creation, CreateFiles
  <2>4. task'[i] = "start"
    BY <1>0, <2>1, <2>3 DEF TypeInv, TypeOK
  <2>5. /\ "request" \in files'[i] <=> n + 1 > 1
        /\ "record" \in files'[i] <=> n + 1 > 2
        /\ "index" \in files'[i] <=> n + 1 > 3
        /\ "events" \in files'[i] <=> n + 1 > 4
    BY <2>1, <2>3 DEF CreateAt
  <2> QED BY <2>1, <2>3, <2>4, <2>5, CreateGoesOn
<1>3. CASE Reply(op)
  <2>1. /\ op.op = "reply" /\ todo' = Tail(todo) /\ UNCHANGED <<by, now, born, proc>>
    BY <1>3 DEF Reply, fileVars
  <2> QED BY <1>0, <2>1, CreateGoesOn
<1> QED BY <1>1, <1>2, <1>3

\* The last operation of another script.
LEMMA OuterSteps ==
  ASSUME TypeInv, ScriptInv, todo # <<>>, proc # "down", by # "create",
         \/ StartTask(todo[1]) \/ EndTask(todo[1]) \/ ListRecords(todo[1])
         \/ Serve(todo[1]) \/ OpenStream(todo[1]) \/ DecideStream(todo[1])
  PROVE  ScriptNext
<1> DEFINE op == todo[1]
<1>1. /\ op.op \in {"start", "recover", "done", "list", "serve", "open", "decide"}
      /\ op.op \notin Inside
  BY DEF StartTask, EndTask, ListRecords, Serve, OpenStream, DecideStream, Inside
<1>2. /\ Outer(op, by) /\ Tail(todo) = <<>> /\ op.op # "start"
      /\ now \in Nat /\ born \in [Runs -> Nat]
  BY <1>1, ScriptHead DEF Creation
<1>3. proc \in {"down", "starting", "up"} /\ (proc = "starting" <=> by = "startup")
  BY DEF ScriptInv, TypeInv, TypeOK
<1>4. CASE EndTask(op) \/ OpenStream(op) \/ DecideStream(op)
  <2>1. op.op \in {"done", "open", "decide"} /\ todo' = <<>> /\ proc' = proc
    BY <1>2, <1>4 DEF EndTask, OpenStream, DecideStream
  <2>2. by # "startup"
    BY <1>2, <2>1 DEF Outer, EndsIn
  <2> QED BY <1>3, <2>1, <2>2, Dropped
<1>5. CASE Serve(op)
  BY <1>2, <1>5, Dropped DEF Serve
<1>6. ASSUME NEW i \in 0..MaxRuns, todo' = RecoverAfter(i), op.op \in {"list", "recover"},
             UNCHANGED <<by, now, born, proc>>
      PROVE  ScriptNext
  <2>1. by = "startup" /\ proc = "starting"
    BY <1>2, <1>3, <1>6 DEF Outer, EndsIn
  <2>2. /\ Script(RecoverAfter(i), "startup", now, born) /\ RecoverAfter(i) # <<>>
        /\ RecoverAfter(i)[1].op \in {"expire", "serve"}
        /\ EndsIn(RecoverAfter(i)[Len(RecoverAfter(i))].op, "startup")
    BY RecoverScript
  <2>3. todo' \in Seq(Ops)
    BY <1>6, <2>2 DEF Script
  <2> QED BY <1>6, <2>1, <2>2, <2>3 DEF ScriptInv, ScriptNext
<1>7. CASE ListRecords(op)
  <2>1. /\ op.op = "list" /\ todo' = RecoverAfter(0) /\ UNCHANGED <<by, now, born, proc>>
    BY <1>7 DEF ListRecords, Idle, fileVars
  <2>2. 0 \in 0..MaxRuns
    BY RunsAssumption
  <2> QED BY <1>6, <2>1, <2>2
<1>8. CASE StartTask(op)
  <2>1. /\ op.op = "recover" /\ todo' = RecoverAfter(op.run)
        /\ UNCHANGED <<by, now, born, proc>>
    BY <1>2, <1>8 DEF StartTask, fileVars
  <2>2. op.run \in 0..MaxRuns
    BY <1>2, <2>1, RunsInOps DEF Outer
  <2> QED BY <1>6, <2>1, <2>2
<1> QED BY <1>4, <1>5, <1>7, <1>8

\* An error.
LEMMA FailSteps ==
  ASSUME TypeInv, NEW i \in Runs, proc = "up", Fail(i) PROVE ScriptNext
<1>1. CASE todo' = <<>>
  BY <1>1, Dropped DEF Fail
<1>2. CASE todo' = FailOps(i) /\ by' = "dying"
  <2>1. /\ "failed" \in Terminal /\ EndsIn("done", "dying")
        /\ now \in Nat /\ born \in [Runs -> Nat] /\ Dated(now, i, now, born)
    BY Present DEF Terminal, EndsIn
  <2>2. FailOps(i) = Finishing(i, "failed", now)
    <3>1. /\ Put(i, now) \in Seq(Ops) /\ Move(i, "failed", now) \in Seq(Ops)
          /\ <<Do("done", i)>> \in Seq(Ops)
      <4>1. "failed" \in Statuses
        BY <2>1 DEF Statuses
      <4> QED BY <2>1, <4>1, RunsInOps, PutScript, MoveScript, DoScript DEF Script
    <3> QED BY <3>1 DEF FailOps, Finishing, Ending
  <2>3. /\ Script(Finishing(i, "failed", now), "dying", now, born)
        /\ Finishing(i, "failed", now) # <<>>
        /\ Finishing(i, "failed", now)[1].op = "line"
    BY <2>1, DoneScript
  <2>4. now' = now /\ born' = born /\ proc' = proc
    BY DEF Fail, fileVars
  <2> QED BY <1>2, <2>2, <2>3, <2>4, Queued
<1> QED BY <1>1, <1>2 DEF Fail

\* What a handler queues for a run that is recorded or not: no cursor and no
\* end comes first.
LEMMA HandlerScripts ==
  ASSUME TypeInv, NEW i \in Runs
  PROVE  /\ \A s \in {Put(i, now), Move(i, "running", now) \o Put(i, now),
                      Put(i, now) \o Move(i, "succeeded", now) \o <<Do("done", i)>>} :
              /\ Script(s, "task", now, born)
              /\ s # <<>> /\ s[1].op # "cursor" /\ s[1].op # "done"
         /\ \A s \in {<<Do("expire", i)>>, Move(i, "cancelled", now)} :
              /\ Script(s, "api", now, born) /\ s \in Seq(Ops)
              /\ s # <<>> /\ s[1].op # "cursor" /\ s[1].op # "done"
         /\ \A s \in {<<Do("expire", i), Do("open", i)>>, CheckOps(i)} :
              /\ Script(s, "stream", now, born)
              /\ s # <<>> /\ s[1].op # "cursor" /\ s[1].op # "done"
<1>0. /\ now \in Nat /\ born \in [Runs -> Nat] /\ Dated(now, i, now, born)
      /\ i \in 0..MaxRuns /\ "running" \in Statuses /\ "cancelled" \in Statuses
      /\ "succeeded" \in Terminal /\ "succeeded" \in Statuses
  BY Present, RunsInOps DEF Statuses, Active, Terminal
<1>1. /\ Script(Put(i, now), "task", now, born) /\ Put(i, now) # <<>>
      /\ Put(i, now)[1].op = "line" /\ Put(i, now)[1].run = i
  BY <1>0, PutScript
<1>2. LET s == Move(i, "running", now) \o Put(i, now) IN
      /\ Script(s, "task", now, born) /\ s # <<>>
      /\ s[1].op # "cursor" /\ s[1].op # "done"
  <2> DEFINE r == Move(i, "running", now)
             s == Put(i, now)
  <2>1. /\ Script(r, "api", now, born) /\ r # <<>> /\ r[1].op = "move" /\ r[1].run = i
    BY <1>0, MoveScript
  <2> HIDE DEF r
  <2>2. Script(s, "task", now, born)
    BY <1>1
  <2>3. s # <<>> => /\ s[1].run = r[1].run /\ s[1].op # "cursor"
                    /\ s[1].op = "done" => r[Len(r)].op = "move"
                                           /\ r[Len(r)].to \in Terminal
    BY <1>1, <2>1
  <2> HIDE DEF s
  <2>4. Script(r \o s, "task", now, born) /\ r \o s # <<>> /\ (r \o s)[1] = r[1]
    BY <1>0, <2>1, <2>2, <2>3, ScriptJoin
  <2> QED BY <2>1, <2>4 DEF r, s
<1>3. LET s == Put(i, now) \o Move(i, "succeeded", now) \o <<Do("done", i)>> IN
      /\ Script(s, "task", now, born) /\ s # <<>>
      /\ s[1].op # "cursor" /\ s[1].op # "done"
  <2>1. EndsIn("done", "task")
    BY DEF EndsIn
  <2>2. /\ Script(Finishing(i, "succeeded", now), "task", now, born)
        /\ Finishing(i, "succeeded", now) # <<>>
        /\ Finishing(i, "succeeded", now)[1].op = "line"
    BY <1>0, <2>1, DoneScript
  <2> QED BY <2>2 DEF Finishing, Ending
<1>4. LET s == <<Do("expire", i)>> IN
      /\ Script(s, "api", now, born) /\ s \in Seq(Ops)
      /\ s # <<>> /\ s[1].op # "cursor" /\ s[1].op # "done"
  <2>1. Script(<<Do("expire", i)>>, "api", now, born) /\ Do("expire", i).op = "expire"
    BY <1>0, DoScript
  <2> QED BY <2>1 DEF Script
<1>5. LET s == Move(i, "cancelled", now) IN
      /\ Script(s, "api", now, born) /\ s \in Seq(Ops)
      /\ s # <<>> /\ s[1].op # "cursor" /\ s[1].op # "done"
  <2>1. /\ Script(Move(i, "cancelled", now), "api", now, born)
        /\ Move(i, "cancelled", now) # <<>> /\ Move(i, "cancelled", now)[1].op = "move"
    BY <1>0, MoveScript
  <2> QED BY <2>1 DEF Script
<1>6. /\ EndsIn("open", "stream") /\ EndsIn("decide", "stream")
  BY DEF EndsIn
<1>7. LET s == <<Do("expire", i), Do("open", i)>> IN
      /\ Script(s, "stream", now, born) /\ s # <<>> /\ s[1].op = "expire"
  BY <1>0, <1>6, CheckedScript
<1>8. LET s == <<Do("expire", i), Do("decide", i)>> IN
      /\ Script(s, "stream", now, born) /\ s # <<>> /\ s[1].op = "expire"
  BY <1>0, <1>6, CheckedScript
<1> HIDE DEF Put, Move, Do
<1>9. \A s \in {<<Do("expire", i), Do("open", i)>>, CheckOps(i)} :
        /\ Script(s, "stream", now, born)
        /\ s # <<>> /\ s[1].op # "cursor" /\ s[1].op # "done"
  BY <1>7, <1>8 DEF CheckOps
<1>10. \A s \in {<<Do("expire", i)>>, Move(i, "cancelled", now)} :
         /\ Script(s, "api", now, born) /\ s \in Seq(Ops)
         /\ s # <<>> /\ s[1].op # "cursor" /\ s[1].op # "done"
  BY <1>4, <1>5
<1>11. \A s \in {Put(i, now), Move(i, "running", now) \o Put(i, now),
                 Put(i, now) \o Move(i, "succeeded", now) \o <<Do("done", i)>>} :
         /\ Script(s, "task", now, born)
         /\ s # <<>> /\ s[1].op # "cursor" /\ s[1].op # "done"
  BY <1>1, <1>2, <1>3
<1> QED BY <1>9, <1>10, <1>11

LEMMA StepScript == ASSUME TypeInv, ScriptInv, Step PROVE ScriptNext
<1> DEFINE op == todo[1]
<1>0. /\ proc # "down" /\ todo # <<>> /\ Head(todo) = op
      /\ proc \in {"down", "starting", "up"}
      /\ proc = "starting" <=> by = "startup"
  BY HeadIs DEF Step, ScriptInv, TypeInv, TypeOK
<1>1. CASE WriteFile(op) \/ StartTask(op) \/ Reply(op)
  <2>1. CASE by = "create"
    <3>1. PICK i \in Runs, n \in 1..6 : CreateAt(i, n) /\ op = CreateOps(i)[n]
      BY <1>0, <2>1, CreateHead
    <3> QED BY <1>0, <1>1, <2>1, <3>1, CreateSteps
  <2>2. CASE by # "create"
    <3>1. op.op \notin Creation
      BY <1>0, <2>2, ScriptHead
    <3>2. StartTask(op)
      BY <1>1, <3>1 DEF WriteFile, Reply, Creation
    <3> QED BY <1>0, <2>2, <3>2, OuterSteps
  <2> QED BY <2>1, <2>2
<1>2. CASE WriteLine(op) \/ WriteCursor(op) \/ WriteStatus(op)
  BY <1>0, <1>2, InsideSteps
<1>3. CASE Expire(op)
  BY <1>0, <1>3, ExpireSteps
<1>4. CASE \/ EndTask(op) \/ ListRecords(op) \/ Serve(op) \/ OpenStream(op)
           \/ DecideStream(op)
  <2>1. op.op \notin Creation
    BY <1>4 DEF EndTask, ListRecords, Serve, OpenStream, DecideStream, Creation,
                CreateFiles
  <2>2. by # "create"
    BY <1>0, <2>1, CreateHead
  <2> QED BY <1>0, <1>4, <2>2, OuterSteps
<1>5. CASE Raises(op) /\ by = "task" /\ Fail(op.run)
  <2>1. op.op \in {"line", "move", "expire", "list"}
    BY <1>5 DEF Raises
  <2>2. op.op # "list"
    <3>1. "list" \notin Inside
      BY DEF Inside
    <3> QED BY <1>0, <1>5, <3>1, ScriptHead DEF Outer, EndsIn
  <2>3. op.run \in Runs
    BY <1>0, <2>1, <2>2, InsideHead DEF Inside
  <2>4. proc = "up"
    BY <1>0, <1>5
  <2> QED BY <1>5, <2>3, <2>4, FailSteps
<1>6. CASE GiveUp(op)
  <2>1. todo' = <<>> /\ proc' = IF by = "startup" THEN "down" ELSE proc
    BY <1>6 DEF GiveUp
  <2> QED BY <1>0, <2>1, Dropped
<1> QED BY <1>0, <1>1, <1>2, <1>3, <1>4, <1>5, <1>6 DEF Step

LEMMA NextScript == ASSUME TypeInv, ScriptInv, StreamInv, Next PROVE ScriptNext
<1> USE DEF fileVars, recordVars
<1>0. Quiet => todo = <<>> /\ proc = "up"
  BY DEF Quiet
<1>1. CASE Step
  BY <1>1, StepScript
<1>2. CASE CreateFails
  <2>1. todo # <<>> /\ todo' = <<>> /\ proc' = proc /\ Head(todo).op \in CreateFiles
    BY <1>2 DEF CreateFails
  <2>2. by = "create"
    BY <2>1, HeadIs, ScriptHead DEF Creation
  <2>3. proc \in {"up", "down"}
    BY <2>2 DEF ScriptInv, TypeInv, TypeOK
  <2> QED BY <2>1, <2>3, Dropped
<1>3. ASSUME Quiet, todo' = <<>>, proc' = proc PROVE ScriptNext
  BY <1>0, <1>3, Dropped
<1>4. ASSUME NEW i \in Runs, Quiet, proc' = proc, now' = now, born' = born,
             \/ by' = "task" /\ todo' \in {Put(i, now),
                    Move(i, "running", now) \o Put(i, now),
                    Put(i, now) \o Move(i, "succeeded", now) \o <<Do("done", i)>>}
             \/ by' = "api" /\ todo' \in {<<Do("expire", i)>>, Move(i, "cancelled", now)}
             \/ by' = "stream" /\ todo' \in {<<Do("expire", i), Do("open", i)>>, CheckOps(i)}
      PROVE  ScriptNext
  <2>1. /\ Script(todo', by', now', born')
        /\ todo'[1].op # "cursor" /\ todo'[1].op # "done"
    BY <1>4, HandlerScripts
  <2> QED BY <1>0, <1>4, <2>1, Queued
<1>5. CASE Stream \/ Disconnect
  <2>1. CASE StreamRead
    <3>1. /\ Quiet /\ proc' = proc /\ now' = now /\ born' = born
          /\ stream.phase = "read"
          /\ \/ todo' = todo
             \/ todo' = CheckOps(stream.run) /\ by' = "stream"
      BY <2>1 DEF StreamRead
    <3>2. stream.run \in Runs
      BY <3>1 DEF StreamInv
    <3> QED BY <1>0, <1>3, <1>4, <3>1, <3>2
  <2>2. CASE StreamCheck
    <3>1. /\ Quiet /\ proc' = proc /\ now' = now /\ born' = born
          /\ stream.phase = "yield"
          /\ todo' = CheckOps(stream.run) /\ by' = "stream"
      BY <2>2 DEF StreamCheck, Handle
    <3>2. stream.run \in Runs
      BY <3>1 DEF StreamInv
    <3> QED BY <1>4, <3>1, <3>2
  <2>3. CASE StreamYield \/ Disconnect
    <3>1. Quiet /\ proc' = proc /\ todo' = todo
      BY <2>3 DEF StreamYield, Disconnect
    <3> QED BY <1>0, <1>3, <3>1
  <2> QED BY <1>5, <2>1, <2>2, <2>3 DEF Stream
<1>6. CASE Startup
  <2>1. /\ proc' = "starting" /\ by' = "startup" /\ todo' = <<Do("list", 0)>>
        /\ now' = now /\ born' = born
    BY <1>6 DEF Startup
  <2>2. EndsIn("list", "startup") /\ 0 \in 0..MaxRuns
    BY RunsAssumption DEF EndsIn
  <2>3. now \in Nat /\ born \in [Runs -> Nat]
    BY BoundAssumption DEF TypeInv, TypeOK
  <2>4. /\ Script(<<Do("list", 0)>>, "startup", now, born)
        /\ Do("list", 0).op = "list"
    BY <2>2, <2>3, DoScript
  <2>5. /\ todo' # <<>> /\ todo'[1] = Do("list", 0) /\ todo'[Len(todo')] = Do("list", 0)
        /\ todo' \in Seq(Ops)
    BY <2>1, <2>4 DEF Script
  <2>6. Script(todo', by', now', born')
    BY <2>1, <2>4
  <2> QED BY <2>1, <2>2, <2>4, <2>5, <2>6 DEF ScriptInv, ScriptNext
<1>7. CASE Crash
  BY <1>7, Dropped DEF Crash
<1>8. CASE Tick
  <2>1. todo = <<>> /\ todo' = <<>> /\ proc' = proc
    BY <1>8 DEF Tick
  <2>2. proc \in {"up", "down"}
    BY <2>1 DEF ScriptInv, TypeInv, TypeOK
  <2> QED BY <2>1, <2>2, Dropped
<1>9. ASSUME NEW k \in Keys, PostKnown(k) \/ PostNew(k) PROVE ScriptNext
  <2>1. CASE PostKnown(k)
    BY <1>0, <1>3, <2>1 DEF PostKnown
  <2>2. CASE PostNew(k)
    <3>1. PICK i \in Runs : files[i] = {} /\ todo' = CreateOps(i)
      BY <2>2 DEF PostNew
    <3>2. by' = "create" /\ proc' = "up" /\ files' = files
      BY <1>0, <2>2 DEF PostNew
    <3>3. /\ CreateOps(i) \in Seq(Ops) /\ Len(CreateOps(i)) = 6
          /\ \A n \in 1..6 : CreateOps(i)[n].op \in Creation
      BY CreateOpsAre
    <3>4. CreateAt(i, 1)'
      <4>1. Len(todo') = 7 - 1 /\ \A m \in 1..Len(todo') : 1 - 1 + m = m
        BY <3>1, <3>3
      <4>2. \A m \in 1..Len(todo') : todo'[m] = CreateOps(i)[1 - 1 + m]
        BY <3>1, <4>1
      <4>3. files'[i] = {}
        BY <3>1, <3>2
      <4> QED BY <4>1, <4>2, <4>3 DEF CreateAt
    <3>5. todo'[1].op \in Creation /\ todo' \in Seq(Ops)
      BY <3>1, <3>3
    <3>6. todo'[1].op # "cursor" /\ todo'[1].op # "done"
      BY <3>5 DEF Creation, CreateFiles
    <3>7. 1 \in 1..6
      OBVIOUS
    <3>8. ScriptInv'
      BY <3>2, <3>4, <3>6, <3>7 DEF ScriptInv
    <3> QED BY <3>5, <3>8 DEF ScriptNext
  <2> QED BY <1>9, <2>1, <2>2
<1>10. ASSUME NEW i \in Runs,
             Task(i) \/ TaskEscapes(i) \/ Refresh(i) \/ Cancel(i) \/ Follow(i)
       PROVE  ScriptNext
  <2>1. CASE Fail(i)
    <3>1. Quiet
      BY <1>10 DEF Task, TaskStart, TaskWorks, TaskEnds, TaskEscapes, Refresh,
          Cancel, Follow
    <3> QED BY <1>0, <2>1, <3>1, FailSteps
  <2>2. CASE TaskStart(i) /\ ~Fail(i)
    <3>1. /\ Quiet /\ proc' = proc /\ now' = now /\ born' = born /\ by' = "task"
          /\ todo' \in {Move(i, "running", now) \o Put(i, now), <<>>}
      BY <2>2 DEF TaskStart
    <3> QED BY <1>3, <1>4, <3>1
  <2>3. CASE TaskWorks(i)
    <3>1. /\ Quiet /\ proc' = proc /\ now' = now /\ born' = born /\ by' = "task"
          /\ todo' = Put(i, now)
      BY <2>3 DEF TaskWorks, Handle
    <3> QED BY <1>4, <3>1
  <2>4. CASE TaskEnds(i) /\ ~Fail(i)
    <3>1. /\ Quiet /\ proc' = proc /\ now' = now /\ born' = born /\ by' = "task"
          /\ todo' = Put(i, now) \o Move(i, "succeeded", now) \o <<Do("done", i)>>
      BY <2>4 DEF TaskEnds, Handle
    <3> QED BY <1>4, <3>1
  <2>5. CASE Refresh(i) \/ Cancel(i)
    <3>1. /\ Quiet /\ proc' = proc /\ now' = now /\ born' = born /\ by' = "api"
          /\ todo' \in {<<Do("expire", i)>>, Move(i, "cancelled", now)}
      BY <2>5 DEF Refresh, Cancel, Handle
    <3> QED BY <1>4, <3>1
  <2>6. CASE Follow(i)
    <3>1. /\ Quiet /\ proc' = proc /\ now' = now /\ born' = born /\ by' = "stream"
          /\ todo' = <<Do("expire", i), Do("open", i)>>
      BY <2>6 DEF Follow, Handle
    <3> QED BY <1>4, <3>1
  <2>7. CASE TaskEscapes(i)
    <3>1. todo' = <<>> /\ proc' = "up"
      BY <2>7 DEF TaskEscapes, Quiet
    <3> QED BY <3>1, Dropped
  <2> QED BY <1>10, <2>1, <2>2, <2>3, <2>4, <2>5, <2>6, <2>7 DEF Task
<1> QED BY <1>1, <1>2, <1>5, <1>6, <1>7, <1>8, <1>9, <1>10 DEF Next

\* The process and its tasks.
LEMMA ProcessTypes ==
  ASSUME TypeInv, Next
  PROVE  /\ now' \in 0..MaxTime /\ now' >= now /\ proc' \in {"down", "starting", "up"}
         /\ task' \in [Runs -> {"none", "start", "work", "escaped"}]
         /\ by' \in {"api", "create", "stream", "startup", "task", "dying"}
         /\ faults' \in 0..MaxFaults /\ faults' >= faults
<1>0. /\ now \in 0..MaxTime /\ proc \in {"down", "starting", "up"}
      /\ task \in [Runs -> {"none", "start", "work", "escaped"}]
      /\ by \in {"api", "create", "stream", "startup", "task", "dying"}
      /\ faults \in 0..MaxFaults
  BY DEF TypeInv, TypeOK
<1>a. ASSUME NEW i, NEW v \in {"none", "start", "work"}, task' = [task EXCEPT ![i] = v]
      PROVE  task' \in [Runs -> {"none", "start", "work", "escaped"}]
  BY <1>0, <1>a
<1>b. ASSUME NEW i, Fail(i)
      PROVE  /\ by' \in {"dying", "task"}
             /\ task' \in [Runs -> {"none", "start", "work", "escaped"}]
             /\ UNCHANGED <<now, proc, faults>>
  <2>1. task' = task \/ task' = [task EXCEPT ![i] = "none"]
    BY <1>b DEF Fail
  <2> QED BY <1>0, <1>a, <1>b, <2>1 DEF Fail
<1>1. CASE Step
  <2> DEFINE op == Head(todo)
  <2>1. CASE Fail(op.run)
    BY <1>0, <1>b, <2>1
  <2>2. CASE GiveUp(op)
    <3>1. \/ task' = task \/ task' = [task EXCEPT ![op.run] = "none"]
          \/ task' = [i \in Runs |-> "none"]
      BY <2>2 DEF GiveUp
    <3>2. task' \in [Runs -> {"none", "start", "work", "escaped"}]
      BY <1>0, <1>a, <3>1
    <3>3. proc' \in {"down", proc} /\ UNCHANGED <<now, by, faults>>
      BY <2>2 DEF GiveUp
    <3> QED BY <1>0, <3>2, <3>3
  <2>3. CASE StartTask(op) \/ EndTask(op)
    <3>1. \/ task' = task \/ task' = [task EXCEPT ![op.run] = "start"]
          \/ task' = [task EXCEPT ![op.run] = "none"]
      BY <2>3 DEF StartTask, EndTask
    <3>2. UNCHANGED <<now, proc, by, faults>>
      BY <2>3 DEF StartTask, EndTask
    <3> QED BY <1>0, <1>a, <3>1, <3>2
  <2>4. CASE ~Fail(op.run) /\ ~GiveUp(op) /\ ~StartTask(op) /\ ~EndTask(op)
    <3>1. proc' \in {proc, "up"} /\ UNCHANGED <<now, task, by, faults>>
      BY <1>1, <2>4
      DEF Step, WriteFile, WriteLine, WriteCursor, WriteStatus, Expire, Reply,
          ListRecords, Serve, OpenStream, DecideStream, Idle
    <3> QED BY <1>0, <3>1
  <2> QED BY <2>1, <2>2, <2>3, <2>4
<1>2. CASE CreateFails \/ Crash
  <2>1. /\ faults' = faults + 1 /\ faults < MaxFaults /\ UNCHANGED <<now, by>>
        /\ proc' \in {proc, "down"}
        /\ task' = task \/ task' = [i \in Runs |-> "none"]
    BY <1>2 DEF CreateFails, Crash
  <2>2. faults' \in 0..MaxFaults /\ faults' >= faults
    BY <1>0, <2>1, BoundAssumption
  <2> QED BY <1>0, <2>1, <2>2
<1>3. CASE Stream \/ Disconnect \/ Startup \/ \E k \in Keys : PostKnown(k) \/ PostNew(k)
  <2>1. /\ UNCHANGED <<now, task, faults>> /\ proc' \in {proc, "starting"}
        /\ by' \in {by, "stream", "startup", "create"}
    BY <1>3
    DEF Stream, StreamRead, StreamYield, StreamCheck, Disconnect, Startup, PostKnown,
        PostNew, Handle
  <2> QED BY <1>0, <2>1
<1>4. CASE Tick
  <2>1. now' \in 0..MaxTime /\ now' >= now
    BY <1>0, <1>4, BoundAssumption DEF Tick
  <2> QED BY <1>0, <1>4, <2>1 DEF Tick
<1>5. ASSUME NEW i \in Runs,
             Task(i) \/ TaskEscapes(i) \/ Refresh(i) \/ Cancel(i) \/ Follow(i)
      PROVE  /\ by' \in {"api", "create", "stream", "startup", "task", "dying"}
             /\ task' \in [Runs -> {"none", "start", "work", "escaped"}]
             /\ UNCHANGED <<now, proc, faults>>
  <2>1. CASE Fail(i)
    BY <1>b, <2>1
  <2>2. CASE ~Fail(i)
    <3>1. /\ \/ task' = task \/ task' = [task EXCEPT ![i] = "work"]
             \/ task' = [task EXCEPT ![i] = "none"]
             \/ task' = [task EXCEPT ![i] = "escaped"]
          /\ UNCHANGED <<now, proc, faults>>
          /\ by' \in {by, "api", "stream", "task"}
      BY <1>5, <2>2
      DEF Task, TaskStart, TaskWorks, TaskEnds, TaskEscapes, Refresh, Cancel,
          Follow, Handle
    <3> QED BY <1>0, <1>a, <3>1
  <2> QED BY <2>1, <2>2
<1> QED BY <1>0, <1>1, <1>2, <1>3, <1>4, <1>5 DEF Next

\* The stream and its client.
LEMMA ClientTypes ==
  ASSUME TypeInv, ScriptInv, StreamInv, Next
  PROVE  /\ stream' \in [run : 0..MaxRuns, at : Nat, upto : Nat, phase : Phases]
         /\ got' \in [Runs -> Nat] /\ ended' \subseteq Runs
         /\ \A i \in Runs : got'[i] \in 0..lines'[i]
<1> DEFINE Streams == [run : 0..MaxRuns, at : Nat, upto : Nat, phase : Phases]
<1>0. /\ stream \in Streams /\ got \in [Runs -> Nat] /\ ended \subseteq Runs
      /\ \A i \in Runs : got[i] \in 0..lines[i]
      /\ lines \in [Runs -> Nat] /\ lines' \in [Runs -> Nat]
      /\ \A i \in Runs : lines'[i] >= lines[i]
  BY RecordTypes DEF TypeInv, TypeOK
<1>a. Closed \in Streams
  BY RunsAssumption DEF Closed, Phases
<1>b. ASSUME got' = got PROVE \A i \in Runs : got'[i] \in 0..lines'[i]
  BY <1>0, <1>b
<1> SUFFICES stream' \in Streams /\ got' \in [Runs -> Nat] /\ ended' \subseteq Runs
             /\ \A i \in Runs : got'[i] \in 0..lines'[i]
  OBVIOUS
<1> HIDE DEF Streams
<1>1. CASE Step
  <2> DEFINE op == Head(todo)
  <2>1. CASE OpenStream(op) \/ DecideStream(op)
    <3>1. todo # <<>> /\ op = todo[1] /\ op.op \in {"open", "decide"}
      BY <1>1, <2>1, HeadIs DEF Step, OpenStream, DecideStream
    <3>2. by # "create"
      BY <3>1, CreateHead DEF Creation, CreateFiles
    <3>3. op.op \notin Inside
      BY <3>1 DEF Inside
    <3>4. op.run \in Runs
      BY <3>1, <3>2, <3>3, ScriptHead DEF Outer
    <3>5. got[op.run] \in Nat /\ op.run \in 0..MaxRuns
      BY <1>0, <3>4, RunsInOps
    <3>6. /\ stream' \in {Closed, [stream EXCEPT !.phase = "read"],
                          [run |-> op.run, at |-> got[op.run], upto |-> got[op.run],
                           phase |-> "read"]}
          /\ ended' \in {ended, ended \cup {op.run}} /\ got' = got
      BY <2>1 DEF OpenStream, DecideStream
    <3>7. /\ [stream EXCEPT !.phase = "read"] \in Streams
          /\ [run |-> op.run, at |-> got[op.run], upto |-> got[op.run],
              phase |-> "read"] \in Streams
      BY <1>0, <3>5 DEF Phases, Streams
    <3> QED BY <1>0, <1>a, <1>b, <3>4, <3>6, <3>7
  <2>2. CASE ~OpenStream(op) /\ ~DecideStream(op)
    <3>1. stream' \in {stream, Closed} /\ UNCHANGED <<got, ended>>
      BY <1>1, <2>2
      DEF Step, WriteFile, WriteLine, WriteCursor, WriteStatus, Expire, StartTask,
          EndTask, Reply, ListRecords, Serve, Fail, GiveUp, Idle, clientVars
    <3> QED BY <1>0, <1>a, <1>b, <3>1
  <2> QED BY <2>1, <2>2
<1>2. CASE StreamRead
  <2>1. stream.run \in Runs
    BY <1>2 DEF StreamRead, StreamInv
  <2>2. /\ \/ stream' = Closed
           \/ stream' = [stream EXCEPT !.upto = lines[stream.run], !.phase = "yield"]
        /\ UNCHANGED <<got, ended>>
    BY <1>2 DEF StreamRead
  <2>3. [stream EXCEPT !.upto = lines[stream.run], !.phase = "yield"] \in Streams
    BY <1>0, <2>1 DEF Phases, Streams
  <2> QED BY <1>0, <1>a, <1>b, <2>2, <2>3
<1>3. CASE StreamYield
  <2>1. /\ stream.phase = "yield" /\ stream.at < stream.upto
        /\ stream' = [stream EXCEPT !.at = @ + 1]
        /\ got' = [got EXCEPT ![stream.run] = stream.at + 1]
        /\ UNCHANGED <<ended, lines>>
    BY <1>3 DEF StreamYield, More, logVars
  <2>2. stream.run \in Runs /\ stream.upto <= lines[stream.run]
    BY <2>1 DEF StreamInv
  <2>3. stream.at \in Nat /\ stream.upto \in Nat /\ lines[stream.run] \in Nat
    BY <1>0, <2>2 DEF Streams
  <2>4. stream.at + 1 \in 0..lines[stream.run]
    BY <2>1, <2>2, <2>3
  <2>5. got' \in [Runs -> Nat] /\ \A i \in Runs : got'[i] \in 0..lines[i]
    BY <1>0, <2>1, <2>2, <2>4
  <2>6. stream' \in Streams
    BY <1>0, <2>1, <2>3 DEF Streams
  <2> QED BY <1>0, <2>1, <2>5, <2>6
<1>4. CASE ~Step /\ ~StreamRead /\ ~StreamYield
  <2>1. stream' \in {stream, Closed} /\ UNCHANGED <<got, ended>>
    BY <1>4
    DEF Next, CreateFails, Stream, StreamCheck, Disconnect, Startup, Crash, Tick,
        PostKnown, PostNew, Task, TaskStart, TaskWorks, TaskEnds, TaskEscapes,
        Refresh, Cancel,
        Follow, Handle, Fail, clientVars
  <2> QED BY <1>0, <1>a, <1>b, <2>1
<1> QED BY <1>1, <1>2, <1>3, <1>4

LEMMA TypeNext ==
  ASSUME TypeInv, ScriptInv, KeyInv, StreamInv, Next PROVE TypeInv'
<1>1. /\ todo' \in Seq(Ops)
  BY NextScript DEF ScriptNext
<1>2. stream' \in [run : 0..MaxRuns, at : Nat, upto : Nat, phase : Phases]
  BY ClientTypes
<1>3. /\ stream'.phase \in {"closed", "read", "yield"} /\ stream'.run \in {0} \cup Runs
  BY <1>2, RunsAssumption DEF Phases, Runs
<1>4. TypeOK'
  BY <1>3, FileTypes, RecordTypes, ProcessTypes, ClientTypes DEF TypeOK, Statuses
<1> QED BY <1>1, <1>2, <1>4, ClientTypes, RecordTypes DEF TypeInv

-----------------------------------------------------------------------------
(* Keys.                                                                   *)

LEMMA FewDebris == IsFiniteSet(Debris) /\ Debris \subseteq Runs
<1>1. Debris \subseteq Runs
  BY DEF Debris, Recorded
<1>2. 1 \in Int /\ MaxRuns \in Int
  BY RunsAssumption
<1>3. IsFiniteSet(Runs)
  BY <1>2, FS_Interval DEF Runs
<1> QED BY <1>1, <1>3, FS_Subset

\* Only create creates, and only one run.
LEMMA CreatesOne ==
  ASSUME TypeInv, ScriptInv
  PROVE  /\ todo = <<>> \/ by # "create" => \A j \in Runs : ~Creating(j)
         /\ todo # <<>> /\ by = "create" => \E i \in Runs : \A j \in Runs : Creating(j) <=> j = i
         /\ \A i \in Runs, n \in 1..6 :
              todo # <<>> /\ by = "create" /\ CreateAt(i, n)
                => \A j \in Runs : Creating(j) <=> j = i
<1>1. ASSUME NEW i \in Runs, NEW n \in 1..6, todo # <<>>, CreateAt(i, n)
      PROVE  todo[1].run = i
  <2>1. Len(todo) \in Nat \ {0} /\ Len(todo) = 7 - n
    BY <1>1, HeadIs DEF CreateAt
  <2>2. todo[1] = CreateOps(i)[n - 1 + 1] /\ n - 1 + 1 = n
    BY <1>1, <2>1 DEF CreateAt
  <2> QED BY <2>2, CreateOpsAre
<1>2. todo # <<>> /\ by = "create" => \E i \in Runs, n \in 1..6 : CreateAt(i, n)
  BY DEF ScriptInv
<1> QED BY <1>1, <1>2 DEF Creating

\* The same runs hold their keys, and no file is taken away.
LEMMA HoldersKept ==
  ASSUME TypeInv, KeyInv, DebrisInv, key' = key, told' = told,
         faults' \in Nat, faults' >= faults,
         \A j \in Runs :
           /\ Holds(j)' <=> Holds(j)
           /\ \/ files'[j] = files[j]
              \/ /\ Holds(j) /\ files[j] \subseteq files'[j]
                 /\ "index" \in files'[j] => "record" \in files'[j]
                 /\ "events" \in files'[j] => "index" \in files'[j]
  PROVE  KeyInv' /\ DebrisInv'
<1>1. \A j \in Runs : /\ "index" \in files'[j] => "record" \in files'[j]
                      /\ "events" \in files'[j] => "index" \in files'[j]
                      /\ Holds(j)' => key'[j] \in Keys
  BY DEF KeyInv
<1>2. \A i, j \in Runs : Holds(i)' /\ Holds(j)' /\ key'[i] = key'[j] => i = j
  BY DEF KeyInv
<1>3. \A t \in told' : "index" \in files'[t[2]] /\ key'[t[2]] = t[1]
  <2>1. \A t \in told : t[2] \in Runs
    BY DEF TypeInv, TypeOK
  <2> QED BY <2>1 DEF KeyInv
<1>4. Debris' \subseteq Debris
  BY DEF Debris, Recorded
<1>5. Cardinality(Debris') <= Cardinality(Debris) /\ Cardinality(Debris) \in Nat
      /\ Cardinality(Debris') \in Nat
  BY <1>4, FewDebris, FS_Subset, FS_CardinalityType
<1>6. faults \in Nat
  BY BoundAssumption DEF TypeInv, TypeOK
<1>7. DebrisInv'
  BY <1>5, <1>6 DEF DebrisInv
<1> QED BY <1>1, <1>2, <1>3, <1>7 DEF KeyInv

\* What does not write the files of a run, nor begin or end create.
LEMMA KeysStay ==
  ASSUME TypeInv, KeyInv, DebrisInv, UNCHANGED <<files, key, told>>,
         faults' \in Nat, faults' >= faults,
         \A j \in Runs : Creating(j)' <=> Creating(j)
  PROVE  KeyInv' /\ DebrisInv'
  BY HoldersKept DEF Holds

\* A client is told of a run the index knows.
LEMMA KeysTold ==
  ASSUME TypeInv, KeyInv, DebrisInv, UNCHANGED <<files, key, faults>>,
         NEW i \in Runs, "index" \in files[i], told' = told \cup {<<key[i], i>>},
         \A j \in Runs : j # i => ~Creating(j) /\ ~Creating(j)'
  PROVE  KeyInv' /\ DebrisInv'
<1>1. \A j \in Runs : Holds(j)' <=> Holds(j)
  BY DEF Holds
<1>2. \A t \in told' : "index" \in files'[t[2]] /\ key'[t[2]] = t[1]
  BY DEF KeyInv
<1>3. KeyInv'
  BY <1>1, <1>2 DEF KeyInv
<1>4. Debris' = Debris
  BY <1>1 DEF Debris, Recorded
<1> QED BY <1>3, <1>4 DEF DebrisInv

\* A fault in create: its run may be recorded and not in the index.
LEMMA KeysFault ==
  ASSUME TypeInv, ScriptInv, KeyInv, DebrisInv, UNCHANGED <<files, key, told>>,
         faults' = faults + 1, todo' = <<>>
  PROVE  KeyInv' /\ DebrisInv'
<1>1. \A j \in Runs : ~Creating(j)'
  BY DEF Creating
<1>2. \A j \in Runs : Holds(j)' => Holds(j)
  BY <1>1 DEF Holds
<1>3. KeyInv'
  BY <1>2 DEF KeyInv
<1>4. PICK i \in Runs : \A j \in Runs : Creating(j) => j = i
  <2>1. 1 \in Runs
    BY RunsAssumption DEF Runs
  <2> QED BY <2>1, CreatesOne
<1>5. Debris' \subseteq Debris \cup {i}
  BY <1>4 DEF Debris, Recorded, Holds
<1>6. /\ IsFiniteSet(Debris \cup {i}) /\ Cardinality(Debris) \in Nat
      /\ Cardinality(Debris \cup {i}) <= Cardinality(Debris) + 1
  <2>1. IsFiniteSet(Debris) /\ Cardinality(Debris) \in Nat
    BY FewDebris, FS_CardinalityType
  <2>2. /\ IsFiniteSet(Debris \cup {i})
        /\ \/ Cardinality(Debris \cup {i}) = Cardinality(Debris)
           \/ Cardinality(Debris \cup {i}) = Cardinality(Debris) + 1
    BY <2>1, FS_AddElement
  <2> QED BY <2>1, <2>2
<1>7. /\ Cardinality(Debris') <= Cardinality(Debris \cup {i})
      /\ Cardinality(Debris') \in Nat /\ Cardinality(Debris \cup {i}) \in Nat
  BY <1>5, <1>6, FS_Subset, FS_CardinalityType
<1>8. faults \in Nat
  BY BoundAssumption DEF TypeInv, TypeOK
<1> QED BY <1>3, <1>6, <1>7, <1>8 DEF DebrisInv

\* The steps of create.
LEMMA KeysCreate ==
  ASSUME TypeInv, ScriptInv, KeyInv, DebrisInv, todo # <<>>, proc # "down", by = "create",
         WriteFile(todo[1]) \/ StartTask(todo[1]) \/ Reply(todo[1])
  PROVE  KeyInv' /\ DebrisInv'
<1> DEFINE op == todo[1]
<1>1. PICK i \in Runs, n \in 1..6 :
        CreateAt(i, n) /\ op = CreateOps(i)[n] /\ op.run = i
  BY CreateHead
<1>2. /\ ScriptNext /\ (n = 6 <=> todo' = <<>>)
      /\ n < 6 => n + 1 \in 1..6 /\ CreateAt(i, n + 1)'
  BY <1>1, CreateSteps
<1>3. \A j \in Runs : Creating(j) <=> j = i
  BY <1>1, CreatesOne
<1>4. by' = by /\ faults' = faults /\ key' = key
  BY DEF WriteFile, StartTask, Reply, Idle, fileVars
<1>5. n < 6 => \A j \in Runs : Creating(j)' <=> j = i
  <2> SUFFICES ASSUME n < 6 PROVE todo'[1].run = i /\ todo' # <<>>
    BY <1>4 DEF Creating
  <2>1. Len(todo') = 7 - (n + 1) /\ todo' # <<>> /\ n + 1 \in 1..6 /\ todo' \in Seq(Ops)
    BY <1>2 DEF CreateAt, ScriptNext
  <2>2. 1 \in 1..Len(todo') /\ n + 1 - 1 + 1 = n + 1
    BY <2>1
  <2>3. todo'[1] = CreateOps(i)[n + 1 - 1 + 1]
    BY <1>2, <2>1, <2>2 DEF CreateAt
  <2> QED BY <2>1, <2>2, <2>3, CreateOpsAre
<1>6. faults \in Nat /\ faults' >= faults
  BY <1>4, BoundAssumption DEF TypeInv, TypeOK
<1>7. /\ n = 1 <=> op.op = "request"
      /\ n = 2 <=> op.op = "record"
      /\ n = 3 <=> op.op = "index"
      /\ n = 4 <=> op.op = "events"
      /\ n = 5 <=> op.op = "start"
      /\ n = 6 <=> op.op = "reply"
  BY <1>1, CreateOpsAre
<1>8. CASE WriteFile(op)
  <2>1. n < 6
    BY <1>7, <1>8 DEF WriteFile, CreateFiles
  <2>2. /\ files' = [files EXCEPT ![i] = @ \cup {op.op}] /\ told' = told
        /\ files \in [Runs -> SUBSET CreateFiles]
    BY <1>1, <1>8 DEF WriteFile, Idle, clientVars, TypeInv, TypeOK
  <2>3. /\ "index" \in files'[i] => "record" \in files'[i]
        /\ "events" \in files'[i] => "index" \in files'[i]
    BY <1>2, <2>1 DEF CreateAt
  <2>4. \A j \in Runs : j # i => files'[j] = files[j]
    BY <2>2
  <2>5. files[i] \subseteq files'[i]
    BY <2>2
  <2>6. \A j \in Runs : Holds(j)' <=> Holds(j)
    BY <1>3, <1>5, <2>1, <2>4 DEF Holds
  <2>7. Holds(i)
    BY <1>3 DEF Holds
  <2>8. \A j \in Runs :
           /\ Holds(j)' <=> Holds(j)
           /\ \/ files'[j] = files[j]
              \/ /\ Holds(j) /\ files[j] \subseteq files'[j]
                 /\ "index" \in files'[j] => "record" \in files'[j]
                 /\ "events" \in files'[j] => "index" \in files'[j]
    BY <2>3, <2>4, <2>5, <2>6, <2>7
  <2> QED BY <1>4, <1>6, <2>2, <2>8, HoldersKept
<1>9. CASE StartTask(op)
  <2>1. n < 6 /\ UNCHANGED <<files, told>>
    BY <1>1, <1>7, <1>9, CreateHead DEF StartTask, Creation, CreateFiles, fileVars, clientVars
  <2> QED BY <1>3, <1>4, <1>5, <1>6, <2>1, KeysStay
<1>10. CASE Reply(op)
  <2>1. n = 6
    BY <1>7, <1>10 DEF Reply
  <2>2. UNCHANGED files /\ told' = told \cup {<<key[i], i>>} /\ todo' = <<>>
    BY <1>1, <1>2, <1>10, <2>1 DEF Reply, Answer, fileVars
  <2>3. "index" \in files[i]
    BY <1>1, <2>1 DEF CreateAt
  <2>4. \A j \in Runs : j # i => ~Creating(j) /\ ~Creating(j)'
    BY <1>3, <2>2 DEF Creating
  <2> QED BY <1>4, <2>2, <2>3, <2>4, KeysTold
<1> QED BY <1>8, <1>9, <1>10

\* A new run takes a key no run holds.
LEMMA KeysNew ==
  ASSUME TypeInv, ScriptInv, KeyInv, DebrisInv, NEW k \in Keys, PostNew(k)
  PROVE  KeyInv' /\ DebrisInv'
<1>1. PICK i \in Runs : /\ files[i] = {} /\ key' = [key EXCEPT ![i] = k]
                        /\ todo' = CreateOps(i)
  BY DEF PostNew
<1>2. /\ todo = <<>> /\ Indexed(k) = {} /\ by' = "create"
      /\ UNCHANGED <<files, told, faults>>
  BY DEF PostNew, Quiet, clientVars
<1>3. \A j \in Runs : ~Creating(j)
  BY <1>2, CreatesOne
<1>4. \A j \in Runs : Creating(j)' <=> j = i
  <2>1. todo'[1].run = i /\ todo' # <<>>
    BY <1>1, CreateOpsAre
  <2> QED BY <1>2, <2>1 DEF Creating
<1>5. key'[i] = k /\ \A j \in Runs : j # i => key'[j] = key[j]
  BY <1>1 DEF TypeInv, TypeOK
<1>6. \A j \in Runs : Holds(j)' <=> Holds(j) \/ j = i
  BY <1>2, <1>3, <1>4 DEF Holds
<1>7. \A j \in Runs : Holds(j) => j # i /\ key[j] # k
  BY <1>1, <1>2, <1>3 DEF Holds, Indexed
<1>8. \A j \in Runs : /\ "index" \in files'[j] => "record" \in files'[j]
                      /\ "events" \in files'[j] => "index" \in files'[j]
                      /\ Holds(j)' => key'[j] \in Keys
  BY <1>2, <1>5, <1>6, <1>7 DEF KeyInv
<1>9. ASSUME NEW j \in Runs, NEW m \in Runs, Holds(j)', Holds(m)', key'[j] = key'[m]
      PROVE  j = m
  BY <1>5, <1>6, <1>7, <1>9 DEF KeyInv
<1>10. \A t \in told' : "index" \in files'[t[2]] /\ key'[t[2]] = t[1]
  <2>1. \A t \in told : t[2] \in Runs
    BY DEF TypeInv, TypeOK
  <2> QED BY <1>1, <1>2, <1>5, <2>1 DEF KeyInv
<1>11. Debris' = Debris
  BY <1>1, <1>2, <1>6 DEF Debris, Recorded
<1>12. DebrisInv'
  BY <1>2, <1>11 DEF DebrisInv
<1> QED BY <1>8, <1>9, <1>10, <1>12 DEF KeyInv

LEMMA KeysNext ==
  ASSUME TypeInv, ScriptInv, KeyInv, DebrisInv, Next PROVE KeyInv' /\ DebrisInv'
<1> USE DEF fileVars, clientVars
<1>0. faults' \in Nat /\ faults' >= faults
  <2>1. faults' \in 0..MaxFaults /\ faults' >= faults
    BY ProcessTypes
  <2> QED BY <2>1, BoundAssumption
<1>a. ASSUME UNCHANGED <<files, key, told>>, todo = <<>> \/ by # "create",
             todo' = <<>> \/ by' # "create"
      PROVE  KeyInv' /\ DebrisInv'
  <2>1. \A j \in Runs : ~Creating(j) /\ ~Creating(j)'
    BY <1>a DEF Creating
  <2> QED BY <1>0, <1>a, <2>1, KeysStay
<1>1. CASE Step
  <2> DEFINE op == todo[1]
  <2>0. proc # "down" /\ todo # <<>> /\ Head(todo) = op
    BY <1>1, HeadIs DEF Step
  <2>1. CASE by = "create"
    <3>1. op.op \in Creation
      BY <2>0, <2>1, CreateHead
    <3>2. WriteFile(op) \/ StartTask(op) \/ Reply(op)
      BY <1>1, <2>0, <3>1
      DEF Step, Creation, CreateFiles, WriteLine, WriteCursor, WriteStatus, Expire,
          EndTask, ListRecords, Serve, OpenStream, DecideStream, Raises
    <3> QED BY <2>0, <2>1, <3>2, KeysCreate
  <2>2. CASE by # "create"
    <3>1. op.op \notin Creation
      BY <2>0, <2>2, ScriptHead
    <3>2. ~WriteFile(op) /\ ~Reply(op)
      BY <3>1 DEF WriteFile, Reply, Creation
    <3>3. UNCHANGED <<files, key, told>> /\ by' \in {by, "dying", "task"}
      BY <1>1, <2>0, <3>2
      DEF Step, WriteLine, WriteCursor, WriteStatus, Expire, StartTask, EndTask,
          ListRecords, Serve, OpenStream, DecideStream, Fail, GiveUp, Idle
    <3> QED BY <1>a, <2>2, <3>3
  <2> QED BY <2>1, <2>2
<1>2. CASE CreateFails \/ Crash
  BY <1>2, KeysFault DEF CreateFails, Crash
<1>3. ASSUME NEW k \in Keys, PostKnown(k) PROVE KeyInv' /\ DebrisInv'
  <2>1. PICK i \in Runs : "index" \in files[i] /\ told' = told \cup {<<key[i], i>>}
    BY <1>3 DEF PostKnown, Indexed, Answer
  <2>2. UNCHANGED <<files, key, faults, todo>> /\ todo = <<>>
    BY <1>3 DEF PostKnown, Quiet
  <2>3. \A j \in Runs : ~Creating(j) /\ ~Creating(j)'
    BY <2>2 DEF Creating
  <2> QED BY <2>1, <2>2, <2>3, KeysTold
<1>4. ASSUME NEW k \in Keys, PostNew(k) PROVE KeyInv' /\ DebrisInv'
  BY <1>4, KeysNew
<1>5. CASE Stream \/ Disconnect \/ Startup \/ Tick
  <2>1. /\ UNCHANGED <<files, key, told>> /\ (Startup \/ todo = <<>>)
        /\ todo' = todo \/ by' \in {"stream", "startup"}
    BY <1>5
    DEF Stream, StreamRead, StreamYield, StreamCheck, Disconnect, Startup, Tick,
        Handle, Quiet
  <2>2. todo = <<>>
    BY <2>1 DEF Startup, ScriptInv
  <2> QED BY <1>a, <2>1, <2>2
<1>6. ASSUME NEW i \in Runs,
             Task(i) \/ TaskEscapes(i) \/ Refresh(i) \/ Cancel(i) \/ Follow(i)
      PROVE  KeyInv' /\ DebrisInv'
  <2>1. /\ UNCHANGED <<files, key, told>> /\ todo = <<>>
        /\ todo' = todo \/ by' \in {"api", "stream", "task", "dying"}
    BY <1>6
    DEF Task, TaskStart, TaskWorks, TaskEnds, TaskEscapes, Refresh, Cancel, Follow,
        Handle, Fail,
        Quiet
  <2> QED BY <1>a, <2>1
<1> QED BY <1>1, <1>2, <1>3, <1>4, <1>5, <1>6 DEF Next

LEMMA KeysInit == Init => KeyInv /\ DebrisInv
<1> SUFFICES ASSUME Init PROVE KeyInv /\ DebrisInv
  OBVIOUS
<1>1. \A i \in Runs : ~Holds(i) /\ files[i] = {}
  BY DEF Init, Holds, Creating
<1>2. told = {} /\ Debris = {} /\ faults = 0
  BY <1>1 DEF Init, Debris, Recorded
<1> QED BY <1>1, <1>2, FS_EmptySet DEF KeyInv, DebrisInv

LEMMA KeysAnswer == TypeInv /\ KeyInv => KeyNamesOneRun
<1> SUFFICES ASSUME TypeInv, KeyInv, NEW s \in told, NEW t \in told, s[1] = t[1]
             PROVE  s = t
  BY DEF KeyNamesOneRun
<1>1. s \in Keys \X Runs /\ t \in Keys \X Runs
  BY DEF TypeInv, TypeOK
<1>2. Holds(s[2]) /\ Holds(t[2]) /\ key[s[2]] = key[t[2]]
  BY DEF KeyInv, Holds
<1>3. s[2] = t[2]
  BY <1>1, <1>2 DEF KeyInv
<1> QED BY <1>1, <1>3

LEMMA KeysBound == TypeInv /\ KeyInv /\ DebrisInv => RunsPerKey
<1> SUFFICES ASSUME TypeInv, KeyInv, DebrisInv, NEW k \in Keys
             PROVE  Cardinality({i \in Recorded : key[i] = k}) <= 1 + faults
  BY DEF RunsPerKey
<1> DEFINE S == {i \in Recorded : key[i] = k}
<1>0. faults \in Nat /\ IsFiniteSet(Debris) /\ Cardinality(Debris) \in Nat
  BY BoundAssumption, FewDebris, FS_CardinalityType DEF TypeInv, TypeOK
<1>1. PICK h \in Runs : \A j \in Runs : Holds(j) /\ key[j] = k => j = h
  <2>1. 1 \in Runs
    BY RunsAssumption DEF Runs
  <2> QED BY <2>1 DEF KeyInv
<1>2. S \subseteq Debris \cup {h}
  BY <1>1 DEF Debris, Recorded
<1>3. /\ IsFiniteSet(Debris \cup {h})
      /\ \/ Cardinality(Debris \cup {h}) = Cardinality(Debris)
         \/ Cardinality(Debris \cup {h}) = Cardinality(Debris) + 1
  BY <1>0, FS_AddElement
<1>4. /\ Cardinality(S) <= Cardinality(Debris \cup {h})
      /\ Cardinality(S) \in Nat /\ Cardinality(Debris \cup {h}) \in Nat
  BY <1>2, <1>3, FS_Subset, FS_CardinalityType
<1>5. Cardinality(Debris) <= faults
  BY DEF DebrisInv
<1> QED BY <1>0, <1>3, <1>4, <1>5

-----------------------------------------------------------------------------
(* The stream.                                                             *)

\* Only the stream's handlers end in an operation on the stream.
LEMMA LastOp ==
  ASSUME NEW s, NEW who, NEW t, NEW b, Script(s, who, t, b), s # <<>>, who # "stream"
  PROVE  s[Len(s)].op \notin {"open", "decide"}
<1>1. Len(s) \in 1..Len(s)
  BY SeqFacts DEF Script
<1>2. Inner(s[Len(s)], t, b) \/ Outer(s[Len(s)], who)
  BY <1>1 DEF Script
<1>3. CASE Inner(s[Len(s)], t, b)
  BY <1>3 DEF Inner
<1>4. CASE Outer(s[Len(s)], who)
  <2>1. EndsIn(s[Len(s)].op, who)
    BY <1>4 DEF Outer
  <2>2. who = "stream" \/ s[Len(s)].op \in {"done", "list", "recover", "serve"}
    BY <2>1 DEF EndsIn
  <2> QED BY <2>2
<1> QED BY <1>2, <1>3, <1>4

LEMMA LastNext ==
  ASSUME ScriptNext, todo' # <<>>, by' # "stream"
  PROVE  todo'[Len(todo')].op \notin {"open", "decide"}
<1>1. CASE by' # "create"
  BY <1>1, LastOp DEF ScriptNext, ScriptInv
<1>2. CASE by' = "create"
  <2>1. PICK i \in Runs, n \in 1..6 : CreateAt(i, n)'
    BY <1>2 DEF ScriptNext, ScriptInv
  <2>2. Len(todo') = 7 - n /\ Len(todo') \in 1..Len(todo')
    BY <2>1, SeqFacts DEF CreateAt, ScriptNext
  <2>3. todo'[Len(todo')] = CreateOps(i)[n - 1 + Len(todo')] /\ n - 1 + Len(todo') = 6
    BY <2>1, <2>2 DEF CreateAt
  <2> QED BY <2>3, CreateOpsAre
<1> QED BY <1>1, <1>2

\* The stream, its client and the log stay as they are.
LEMMA StreamStays ==
  ASSUME TypeInv, StreamInv, ScriptNext, UNCHANGED <<stream, got, ended, lines, cursor>>,
         \A i \in Runs : status[i] \in Terminal => status'[i] \in Terminal,
         todo # <<>> => todo[1].op # "cursor",
         by' = "stream" /\ todo' # <<>> =>
           \/ todo'[Len(todo')].op \notin {"open", "decide"}
           \/ todo # <<>> /\ todo'[Len(todo')] = todo[Len(todo)]
  PROVE  StreamInv'
<1>1. ~Writing(stream.run)
  BY DEF Writing
<1>2. StreamSendsAll'
  BY DEF StreamInv, StreamSendsAll, Ended, TypeInv, TypeOK
<1>3. todo' # <<>> =>
        \/ todo'[Len(todo')].op \notin {"open", "decide"}
        \/ todo # <<>> /\ todo'[Len(todo')] = todo[Len(todo)]
  BY LastNext
<1>4. stream'.phase = "closed" => stream' = Closed
  BY DEF StreamInv
<1>5. stream'.phase # "closed" =>
         /\ stream'.run \in Runs \ ended'
         /\ stream'.at = got'[stream'.run] /\ stream'.at <= lines'[stream'.run]
  BY DEF StreamInv
<1>6. stream'.phase = "yield" =>
         /\ stream'.at <= stream'.upto /\ stream'.upto <= lines'[stream'.run]
         /\ lines'[stream'.run] \in {stream'.upto, cursor'[stream'.run]}
  BY <1>1 DEF StreamInv
<1>7. todo' # <<>> =>
         LET op == todo'[Len(todo')] IN
         /\ op.op = "open" => stream'.phase = "closed" /\ op.run \notin ended'
         /\ op.op = "decide" => /\ stream'.phase = "yield" /\ stream'.run = op.run
                                /\ stream'.at = stream'.upto
  BY <1>3 DEF StreamInv
<1> QED BY <1>2, <1>4, <1>5, <1>6, <1>7 DEF StreamInv

\* The client is gone, or its request is over.
LEMMA StreamShut ==
  ASSUME TypeInv, StreamInv, stream' = Closed, todo' = <<>>,
         UNCHANGED <<got, ended, status>>,
         \A i \in Runs : Ended(i) => lines'[i] = lines[i]
  PROVE  StreamInv'
<1>1. StreamSendsAll'
  BY DEF StreamInv, StreamSendsAll, Ended, TypeInv, TypeOK
<1> QED BY <1>1 DEF StreamInv, Closed

\* Writes of a handler.
LEMMA StreamWrites ==
  ASSUME TypeInv, ScriptInv, StreamInv, ScriptNext, todo # <<>>,
         WriteLine(todo[1]) \/ WriteCursor(todo[1]) \/ WriteStatus(todo[1])
  PROVE  StreamInv'
<1> DEFINE op == todo[1]
<1>1. /\ op.op \in Inside /\ todo' = Tail(todo)
      /\ UNCHANGED <<by, stream, got, ended>>
  BY DEF WriteLine, WriteCursor, WriteStatus, Inside, Idle, clientVars
<1>2. /\ op.run \in Runs
      /\ op.op = "line" => Tail(todo) # <<>> /\ Tail(todo)[1].op = "cursor"
      /\ Tail(todo) # <<>> =>
           /\ Tail(todo)[1].run = op.run
           /\ Tail(todo)[Len(Tail(todo))] = todo[Len(todo)]
  BY <1>1, InsideHead
<1>3. /\ lines \in [Runs -> Nat] /\ cursor \in [Runs -> Nat]
      /\ status \in [Runs -> Statuses] /\ ended \subseteq Runs
  BY DEF TypeInv, TypeOK, Statuses
<1>4. CASE WriteStatus(op)
  <2>1. /\ UNCHANGED <<lines, cursor>> /\ status[op.run] \notin Terminal
        /\ status' = [status EXCEPT ![op.run] = op.to] /\ op.op = "move"
    BY <1>4 DEF WriteStatus, CanMove, Ended, logVars
  <2>2. \A i \in Runs : status[i] \in Terminal => status'[i] \in Terminal
    BY <1>3, <2>1
  <2> QED BY <1>1, <1>2, <2>1, <2>2, StreamStays
<1>5. \A j \in ended : ~Writing(j) \/ op.op = "cursor"
  BY DEF Writing
<1>6. todo' # <<>> =>
         LET p == todo'[Len(todo')] IN
         /\ p.op = "open" => stream'.phase = "closed" /\ p.run \notin ended'
         /\ p.op = "decide" => /\ stream'.phase = "yield" /\ stream'.run = p.run
                                /\ stream'.at = stream'.upto
  BY <1>1, <1>2 DEF StreamInv
<1>7. CASE WriteLine(op)
  <2>1. /\ UNCHANGED <<cursor, status>> /\ status[op.run] \notin Terminal
        /\ lines' = [lines EXCEPT ![op.run] = @ + 1] /\ op.op = "line"
    BY <1>7 DEF WriteLine, CanAppend, Ended, recordVars
  <2>2. op.run \notin ended
    BY <2>1 DEF StreamInv, StreamSendsAll, Ended
  <2>3. StreamSendsAll'
    <3>1. \A i \in ended : lines'[i] = lines[i]
      BY <1>3, <2>1, <2>2
    <3> QED BY <1>1, <2>1, <3>1 DEF StreamInv, StreamSendsAll, Ended
  <2>4. todo' # <<>> /\ todo'[1].op = "cursor" /\ todo'[1].run = op.run
    BY <1>1, <1>2, <2>1
  <2>5. \A i \in Runs : lines'[i] >= lines[i] /\ (i = op.run \/ lines'[i] = lines[i])
    BY <1>3, <2>1
  <2>6. stream'.phase = "closed" => stream' = Closed
    BY <1>1 DEF StreamInv
  <2>7. stream'.phase # "closed" =>
           /\ stream'.run \in Runs \ ended'
           /\ stream'.at = got'[stream'.run] /\ stream'.at <= lines'[stream'.run]
    <3> SUFFICES ASSUME stream.phase # "closed" PROVE stream.at <= lines'[stream.run]
      BY <1>1 DEF StreamInv
    <3>1. /\ stream.run \in Runs /\ stream.at <= lines[stream.run]
          /\ stream.at \in Nat /\ lines[stream.run] \in Nat
      BY <1>3 DEF StreamInv, TypeInv
    <3>2. lines'[stream.run] = lines[stream.run] \/ lines'[stream.run] = lines[stream.run] + 1
      BY <1>3, <2>1, <3>1
    <3> QED BY <3>1, <3>2
  <2>8. stream'.phase = "yield" =>
           /\ stream'.at <= stream'.upto /\ stream'.upto <= lines'[stream'.run]
           /\ \/ lines'[stream'.run] \in {stream'.upto, cursor'[stream'.run]}
              \/ Writing(stream.run)'
    <3> SUFFICES ASSUME stream.phase = "yield"
                 PROVE  /\ stream.upto <= lines'[stream.run]
                        /\ \/ lines'[stream.run] \in {stream.upto, cursor[stream.run]}
                           \/ Writing(stream.run)'
      BY <1>1, <2>1 DEF StreamInv, Writing
    <3>1. /\ stream.run \in Runs /\ stream.upto <= lines[stream.run]
          /\ stream.upto \in Nat /\ lines[stream.run] \in Nat
          /\ \/ lines[stream.run] \in {stream.upto, cursor[stream.run]}
             \/ Writing(stream.run)
      BY <1>3 DEF StreamInv, TypeInv
    <3>2. lines'[stream.run] = lines[stream.run] \/ lines'[stream.run] = lines[stream.run] + 1
      BY <1>3, <2>1, <3>1
    <3>3. stream.run # op.run => lines'[stream.run] = lines[stream.run]
      BY <2>5, <3>1
    <3>4. ~Writing(stream.run)
      BY <2>1 DEF Writing
    <3>5. stream.upto <= lines'[stream.run]
      BY <3>1, <3>2
    <3>6. stream.run = op.run => Writing(stream.run)'
      BY <1>1, <2>4 DEF Writing
    <3> QED BY <3>1, <3>3, <3>4, <3>5, <3>6
  <2> QED BY <1>6, <2>3, <2>6, <2>7, <2>8 DEF StreamInv
<1>8. CASE WriteCursor(op)
  <2>1. /\ UNCHANGED <<lines, status>> /\ op.op = "cursor"
        /\ cursor' = [cursor EXCEPT ![op.run] = lines[op.run]]
    BY <1>8 DEF WriteCursor, logVars
  <2>2. StreamSendsAll'
    BY <1>1, <2>1 DEF StreamInv, StreamSendsAll, Ended
  <2>3. cursor'[op.run] = lines[op.run] /\ \A i \in Runs : i # op.run => cursor'[i] = cursor[i]
    BY <1>2, <1>3, <2>1
  <2>4. stream'.phase = "closed" => stream' = Closed
    BY <1>1 DEF StreamInv
  <2>5. stream'.phase # "closed" =>
           /\ stream'.run \in Runs \ ended'
           /\ stream'.at = got'[stream'.run] /\ stream'.at <= lines'[stream'.run]
    BY <1>1, <2>1 DEF StreamInv
  <2>6. stream'.phase = "yield" =>
           /\ stream'.at <= stream'.upto /\ stream'.upto <= lines'[stream'.run]
           /\ lines'[stream'.run] \in {stream'.upto, cursor'[stream'.run]}
    <3> SUFFICES ASSUME stream.phase = "yield"
                 PROVE  lines[stream.run] \in {stream.upto, cursor'[stream.run]}
      BY <1>1, <2>1 DEF StreamInv
    <3>1. /\ stream.run \in Runs
          /\ \/ lines[stream.run] \in {stream.upto, cursor[stream.run]}
             \/ Writing(stream.run)
      BY DEF StreamInv
    <3>2. Writing(stream.run) => stream.run = op.run
      BY DEF Writing
    <3> QED BY <2>3, <3>1, <3>2
  <2> QED BY <1>6, <2>2, <2>4, <2>5, <2>6 DEF StreamInv
<1> QED BY <1>4, <1>7, <1>8

\* The stream begins, goes on or is over.
LEMMA StreamDecides ==
  ASSUME TypeInv, ScriptInv, StreamInv, todo # <<>>,
         OpenStream(todo[1]) \/ DecideStream(todo[1])
  PROVE  StreamInv'
<1> DEFINE op == todo[1]
<1>1. op.op \in {"open", "decide"} /\ UNCHANGED <<got, lines, cursor, status>>
  BY DEF OpenStream, DecideStream, recordVars, logVars
<1>2. by # "create" /\ op.op \notin Inside
  BY <1>1, CreateHead DEF Creation, CreateFiles, Inside
<1>3. /\ op.run \in Runs /\ Len(todo) = 1 /\ todo' = <<>>
  BY <1>1, <1>2, ScriptHead DEF Outer, OpenStream, DecideStream
<1>4. op = todo[Len(todo)]
  BY <1>3
<1>5. lines \in [Runs -> Nat] /\ got \in [Runs -> Nat] /\ cursor \in [Runs -> Nat]
      /\ \A i \in Runs : got[i] \in 0..lines[i] /\ cursor[i] \in 0..lines[i]
  BY DEF TypeInv, TypeOK
<1>6. CASE OpenStream(op)
  <2>1. /\ stream' = [run |-> op.run, at |-> got[op.run], upto |-> got[op.run],
                      phase |-> "read"]
        /\ op.op = "open" /\ UNCHANGED ended
    BY <1>6 DEF OpenStream
  <2>2. op.run \notin ended
    BY <1>4, <2>1 DEF StreamInv
  <2>3. /\ stream'.run = op.run /\ stream'.at = got[op.run] /\ stream'.phase = "read"
    BY <2>1
  <2>4. StreamSendsAll'
    BY <1>1, <2>1 DEF StreamInv, StreamSendsAll, Ended
  <2>5. got[op.run] <= lines[op.run]
    BY <1>3, <1>5
  <2> QED BY <1>1, <1>3, <2>1, <2>2, <2>3, <2>4, <2>5 DEF StreamInv
<1>7. CASE DecideStream(op)
  <2>1. /\ stream.phase = "yield" /\ stream.run = op.run /\ stream.at = stream.upto
        /\ op.op = "decide"
    BY <1>4, <1>7 DEF StreamInv, DecideStream
  <2>2. /\ stream.at = got[op.run] /\ op.run \notin ended
        /\ lines[op.run] \in {stream.upto, cursor[op.run]}
        /\ stream.upto <= lines[op.run]
    BY <2>1 DEF StreamInv, Writing
  <2>3. CASE StreamOver(op.run)
    <3>1. stream' = Closed /\ ended' = ended \cup {op.run}
      BY <1>7, <2>3 DEF DecideStream
    <3>2. Ended(op.run) /\ stream.at >= cursor[op.run]
      BY <2>3 DEF StreamOver
    <3>3. got[op.run] = lines[op.run]
      <4>1. got[op.run] \in Nat /\ lines[op.run] \in Nat /\ cursor[op.run] \in Nat
            /\ got[op.run] <= lines[op.run]
        BY <1>3, <1>5
      <4> QED BY <2>1, <2>2, <3>2, <4>1
    <3>4. StreamSendsAll'
      BY <1>1, <3>1, <3>2, <3>3 DEF StreamInv, StreamSendsAll, Ended
    <3> QED BY <1>3, <3>1, <3>4 DEF StreamInv, Closed
  <2>4. CASE ~StreamOver(op.run)
    <3>1. stream' = [stream EXCEPT !.phase = "read"] /\ ended' = ended
      BY <1>7, <2>4 DEF DecideStream
    <3>2. /\ stream'.run = stream.run /\ stream'.at = stream.at /\ stream'.phase = "read"
      BY <3>1 DEF TypeInv
    <3>3. StreamSendsAll'
      BY <1>1, <3>1 DEF StreamInv, StreamSendsAll, Ended
    <3>4. got[op.run] <= lines[op.run]
      BY <1>3, <1>5
    <3> QED BY <1>1, <1>3, <2>1, <2>2, <3>1, <3>2, <3>3, <3>4 DEF StreamInv
  <2> QED BY <2>3, <2>4
<1> QED BY <1>6, <1>7

\* The stream reads, and sends what it has read.
LEMMA StreamGoesOn ==
  ASSUME TypeInv, ScriptInv, StreamInv, StreamRead \/ StreamYield \/ StreamCheck
  PROVE  StreamInv'
<1>1. todo = <<>> /\ UNCHANGED <<lines, cursor, status, ended>>
  BY DEF StreamRead, StreamYield, StreamCheck, Handle, Quiet, recordVars, logVars, clientVars
<1>2. /\ lines \in [Runs -> Nat] /\ got \in [Runs -> Nat] /\ cursor \in [Runs -> Nat]
      /\ \A i \in Runs : got[i] \in 0..lines[i] /\ cursor[i] \in 0..lines[i]
      /\ stream.at \in Nat /\ stream.upto \in Nat
      /\ stream \in [run : 0..MaxRuns, at : Nat, upto : Nat, phase : Phases]
  BY DEF TypeInv, TypeOK
<1>3. stream.phase # "closed" /\ stream.run \in Runs \ ended
  BY DEF StreamRead, StreamYield, StreamCheck, StreamInv
<1>4. /\ stream.at = got[stream.run] /\ stream.at <= lines[stream.run]
      /\ lines[stream.run] \in Nat
  BY <1>2, <1>3 DEF StreamInv
<1>5. stream.phase = "yield" =>
         /\ stream.at <= stream.upto /\ stream.upto <= lines[stream.run]
         /\ lines[stream.run] \in {stream.upto, cursor[stream.run]}
  BY <1>1 DEF StreamInv, Writing
<1>6. \A s : s = CheckOps(stream.run) =>
        s # <<>> /\ s[Len(s)].op = "decide" /\ s[Len(s)].run = stream.run
  <2>1. EndsIn("decide", "stream") /\ now \in Nat /\ born \in [Runs -> Nat]
    BY BoundAssumption DEF EndsIn, TypeInv, TypeOK
  <2> HIDE DEF Do
  <2> QED BY <1>3, <2>1, CheckedScript DEF CheckOps
<1>7. got' = got => StreamSendsAll'
  BY <1>1 DEF StreamInv, StreamSendsAll, Ended
<1>8. CASE StreamRead
  <2>1. CASE ~Readable(stream.run)
    <3>1. stream' = Closed /\ todo' = <<>> /\ got' = got
      BY <1>1, <1>8, <2>1 DEF StreamRead
    <3> QED BY <1>1, <3>1, StreamShut
  <2>2. CASE Readable(stream.run)
    <3>1. /\ stream' = [stream EXCEPT !.upto = lines[stream.run], !.phase = "yield"]
          /\ got' = got
          /\ \/ todo' = <<>>
             \/ todo' = CheckOps(stream.run) /\ ~(lines[stream.run] > stream.at)
      BY <1>1, <1>8, <2>2 DEF StreamRead
    <3>2. /\ stream'.run = stream.run /\ stream'.at = stream.at
          /\ stream'.upto = lines[stream.run] /\ stream'.phase = "yield"
      BY <1>2, <3>1
    <3>3. todo' # <<>> => stream'.at = stream'.upto
      <4>1. stream.at \in Nat /\ stream.at <= lines[stream.run] /\ lines[stream.run] \in Nat
        BY <1>2, <1>4
      <4>2. todo' # <<>> => ~(lines[stream.run] > stream.at)
        BY <3>1
      <4>3. todo' # <<>> => lines[stream.run] = stream.at
        BY <4>1, <4>2
      <4> QED BY <3>2, <4>3
    <3>4. todo' # <<>> => todo'[Len(todo')].op = "decide" /\ todo'[Len(todo')].run = stream.run
      BY <1>6, <3>1
    <3>5. todo' # <<>> =>
            LET op == todo'[Len(todo')] IN
            /\ op.op = "open" => stream'.phase = "closed" /\ op.run \notin ended'
            /\ op.op = "decide" => /\ stream'.phase = "yield" /\ stream'.run = op.run
                                   /\ stream'.at = stream'.upto
      BY <3>2, <3>3, <3>4
    <3>6. stream'.at <= stream'.upto /\ stream'.upto <= lines'[stream'.run]
          /\ lines'[stream'.run] \in {stream'.upto, cursor'[stream'.run]}
      BY <1>1, <1>4, <3>2
    <3> QED BY <1>1, <1>3, <1>4, <1>7, <3>1, <3>2, <3>5, <3>6 DEF StreamInv
  <2> QED BY <2>1, <2>2
<1>9. CASE StreamYield
  <2>1. /\ stream.phase = "yield" /\ stream.at < stream.upto /\ todo' = <<>>
        /\ stream' = [stream EXCEPT !.at = @ + 1]
        /\ got' = [got EXCEPT ![stream.run] = stream.at + 1]
    BY <1>1, <1>9 DEF StreamYield, More
  <2>2. /\ stream'.run = stream.run /\ stream'.at = stream.at + 1
        /\ stream'.upto = stream.upto /\ stream'.phase = "yield"
    BY <1>2, <2>1
  <2>3. got'[stream.run] = stream.at + 1 /\ \A i \in ended : got'[i] = got[i]
    BY <1>2, <1>3, <2>1 DEF TypeInv, TypeOK
  <2>4. stream.at + 1 <= stream.upto /\ stream.at + 1 <= lines[stream.run]
    BY <1>2, <1>4, <1>5, <2>1
  <2>5. StreamSendsAll'
    BY <1>1, <2>3 DEF StreamInv, StreamSendsAll, Ended
  <2> QED BY <1>1, <1>3, <1>5, <2>1, <2>2, <2>3, <2>4, <2>5 DEF StreamInv
<1>10. CASE StreamCheck
  <2>1. /\ stream.phase = "yield" /\ ~(stream.at < stream.upto)
        /\ todo' = CheckOps(stream.run) /\ stream' = stream /\ got' = got
    BY <1>10 DEF StreamCheck, More, Handle, clientVars
  <2>2. stream.at = stream.upto
    BY <1>2, <1>5, <2>1
  <2>3. todo'[Len(todo')].op = "decide" /\ todo'[Len(todo')].run = stream.run
    BY <1>6, <2>1
  <2>4. todo' # <<>> =>
            LET op == todo'[Len(todo')] IN
            /\ op.op = "open" => stream'.phase = "closed" /\ op.run \notin ended'
            /\ op.op = "decide" => /\ stream'.phase = "yield" /\ stream'.run = op.run
                                   /\ stream'.at = stream'.upto
    BY <2>1, <2>2, <2>3
  <2> QED BY <1>1, <1>3, <1>4, <1>5, <1>7, <2>1, <2>4 DEF StreamInv
<1> QED BY <1>8, <1>9, <1>10

\* An expiry, in whichever handler, leaves the last operation.
LEMMA ExpireLast ==
  ASSUME TypeInv, ScriptInv, todo # <<>>, Expire(todo[1])
  PROVE  /\ Tail(todo) # <<>> => todo' # <<>> /\ todo'[Len(todo')] = todo[Len(todo)]
         /\ Tail(todo) = <<>> /\ todo' # <<>> => todo'[Len(todo')].op = "move"
<1> DEFINE op == todo[1]
<1>1. /\ op.op = "expire"
      /\ \/ todo' = ExpireOps(op.run) \o Tail(todo)
         \/ todo' = <<>> \o Tail(todo)
  BY DEF Expire
<1>2. /\ op.run \in Runs /\ now \in Nat /\ born \in [Runs -> Nat]
      /\ Script(Tail(todo), by, now, born)
      /\ Tail(todo) # <<>> =>
           /\ Tail(todo)[1].run = op.run
           /\ Tail(todo)[Len(Tail(todo))] = todo[Len(todo)]
           /\ Tail(todo)[1].op # "cursor" /\ Tail(todo)[1].op # "done"
  BY <1>1, InsideHead DEF Inside
<1> DEFINE r == ExpireOps(op.run)
           s == Tail(todo)
<1>3. s \in Seq(Ops)
  BY <1>2 DEF Script
<1>4. CASE todo' = <<>> \o s
  <2>1. todo' = s
    BY <1>3, <1>4
  <2> QED BY <1>2, <2>1
<1>5. CASE todo' = r \o s
  <2>1. /\ Script(r, "api", now, born) /\ r # <<>> /\ r[1].run = op.run
        /\ r[Len(r)].op = "move"
    BY <1>2, ExpireScript
  <2>2. /\ Script(s, by, now, born)
        /\ s # <<>> => /\ s[1].run = r[1].run /\ s[1].op # "cursor"
                       /\ s[1].op = "done" => r[Len(r)].op = "move"
                                              /\ r[Len(r)].to \in Terminal
    BY <1>2, <2>1
  <2>3. s # <<>> => s[Len(s)] = todo[Len(todo)]
    BY <1>2
  <2> SUFFICES /\ s # <<>> => todo' # <<>> /\ todo'[Len(todo')] = todo[Len(todo)]
               /\ s = <<>> /\ todo' # <<>> => todo'[Len(todo')].op = "move"
    OBVIOUS
  <2> HIDE DEF r, s, op
  <2>4. (r \o s)[Len(r \o s)] = (IF s = <<>> THEN r[Len(r)] ELSE s[Len(s)])
        /\ r \o s # <<>>
    BY <1>2, <2>1, <2>2, ScriptJoin
  <2> QED BY <1>5, <2>1, <2>3, <2>4
<1> QED BY <1>1, <1>4, <1>5

LEMMA StreamStep ==
  ASSUME TypeInv, ScriptInv, StreamInv, ScriptNext, Step PROVE StreamInv'
<1> DEFINE op == todo[1]
<1>0. proc # "down" /\ todo # <<>> /\ Head(todo) = op
  BY HeadIs DEF Step
<1>1. CASE WriteLine(op) \/ WriteCursor(op) \/ WriteStatus(op)
  BY <1>0, <1>1, StreamWrites
<1>2. CASE OpenStream(op) \/ DecideStream(op)
  BY <1>0, <1>2, StreamDecides
<1>3. CASE Expire(op)
  <2>1. /\ UNCHANGED <<stream, got, ended, lines, cursor, status>> /\ op.op = "expire"
    BY <1>3 DEF Expire, Idle, clientVars, recordVars, logVars
  <2>2. todo' # <<>> => \/ todo'[Len(todo')].op = "move"
                        \/ todo'[Len(todo')] = todo[Len(todo)]
    BY <1>0, <1>3, ExpireLast
  <2> QED BY <1>0, <2>1, <2>2, StreamStays
<1>4. CASE WriteFile(op) \/ Reply(op)
  <2>1. /\ UNCHANGED <<stream, got, ended, lines, cursor, status, by>>
        /\ op.op \in Creation
    BY <1>4 DEF WriteFile, Reply, Idle, clientVars, recordVars, logVars, Creation
  <2>2. by = "create" /\ op.op # "cursor"
    BY <1>0, <2>1, ScriptHead DEF Creation, CreateFiles
  <2> QED BY <1>0, <2>1, <2>2, StreamStays
<1>5. CASE StartTask(op) \/ EndTask(op) \/ ListRecords(op) \/ Serve(op)
  <2>1. /\ UNCHANGED <<stream, got, ended, lines, cursor, status, by>>
        /\ op.op \in {"start", "recover", "done", "list", "serve"}
    BY <1>5 DEF StartTask, EndTask, ListRecords, Serve, Idle, clientVars, recordVars, logVars
  <2>2. by # "stream"
    <3>1. op.op \notin Inside
      BY <2>1 DEF Inside
    <3>2. by # "create" => EndsIn(op.op, by)
      BY <1>0, <3>1, ScriptHead DEF Outer
    <3> QED BY <2>1, <3>2 DEF EndsIn
  <2> QED BY <1>0, <2>1, <2>2, StreamStays
<1>6. CASE Raises(op) /\ IF by = "task" THEN Fail(op.run) ELSE GiveUp(op)
  <2>1. op.op # "cursor" /\ UNCHANGED <<got, ended, lines, cursor, status>>
    BY <1>6 DEF Raises, Fail, GiveUp, clientVars, recordVars, logVars
  <2>2. CASE by = "stream"
    <3>1. stream' = Closed /\ todo' = <<>>
      BY <1>6, <2>2 DEF GiveUp
    <3> QED BY <2>1, <3>1, StreamShut
  <2>3. CASE by # "stream"
    <3>1. stream' = stream /\ by' # "stream"
      BY <1>6, <2>3 DEF Fail, GiveUp, clientVars
    <3> QED BY <1>0, <2>1, <3>1, StreamStays
  <2> QED BY <2>2, <2>3
<1> QED BY <1>0, <1>1, <1>2, <1>3, <1>4, <1>5, <1>6 DEF Step

LEMMA StreamNext ==
  ASSUME TypeInv, ScriptInv, StreamInv, ScriptNext, Next PROVE StreamInv'
<1> USE DEF recordVars, logVars, clientVars
<1>1. CASE Step
  BY <1>1, StreamStep
<1>2. CASE Stream
  BY <1>2, StreamGoesOn DEF Stream
<1>3. CASE Disconnect
  BY <1>3, StreamShut DEF Disconnect, Quiet
<1>4. CASE Crash
  <2>1. /\ stream' = Closed /\ todo' = <<>> /\ UNCHANGED <<got, ended, status>>
        /\ TornLine \/ UNCHANGED logVars
    BY <1>4 DEF Crash
  <2>2. CASE TornLine
    <3> DEFINE i == Head(todo).run
    <3>1. ~Ended(i) /\ (lines' = lines \/ lines' = [lines EXCEPT ![i] = @ + 1])
      BY <2>2 DEF TornLine, CanAppend
    <3>2. \A j \in Runs : Ended(j) => lines'[j] = lines[j]
      BY <3>1 DEF TypeInv, TypeOK
    <3> QED BY <2>1, <3>2, StreamShut
  <2>3. CASE UNCHANGED logVars
    BY <2>1, <2>3, StreamShut
  <2> QED BY <2>1, <2>2, <2>3
<1>5. CASE CreateFails
  <2>1. /\ todo # <<>> /\ Head(todo).op \in CreateFiles /\ todo' = <<>>
        /\ UNCHANGED <<stream, got, ended, lines, cursor, status>>
    BY <1>5 DEF CreateFails
  <2>2. todo[1].op # "cursor"
    BY <2>1, HeadIs DEF CreateFiles
  <2> QED BY <2>1, <2>2, StreamStays
<1>6. CASE Startup \/ Tick
  <2>1. /\ todo' = todo \/ by' = "startup" 
        /\ UNCHANGED <<stream, got, ended, lines, cursor, status>>
        /\ proc = "down" \/ todo = <<>>
    BY <1>6 DEF Startup, Tick
  <2>2. todo = <<>>
    BY <2>1 DEF ScriptInv
  <2> QED BY <2>1, <2>2, StreamStays
<1>7. ASSUME NEW k \in Keys, PostKnown(k) \/ PostNew(k) PROVE StreamInv'
  <2>1. /\ todo = <<>> /\ (todo' = todo \/ by' = "create")
        /\ UNCHANGED <<stream, got, ended, lines, cursor, status>>
    BY <1>7 DEF PostKnown, PostNew, Quiet
  <2> QED BY <2>1, StreamStays
<1>8. ASSUME NEW i \in Runs, Task(i) \/ TaskEscapes(i) \/ Refresh(i) \/ Cancel(i)
      PROVE  StreamInv'
  <2>1. /\ todo = <<>> /\ (todo' = todo \/ by' \in {"task", "dying", "api"})
        /\ UNCHANGED <<stream, got, ended, lines, cursor, status>>
    BY <1>8
    DEF Task, TaskStart, TaskWorks, TaskEnds, TaskEscapes, Refresh, Cancel, Handle,
        Fail,
        Quiet
  <2> QED BY <2>1, StreamStays
<1>9. ASSUME NEW i \in Runs, Follow(i) PROVE StreamInv'
  <2>1. /\ stream = Closed /\ i \notin ended /\ todo' = <<Do("expire", i), Do("open", i)>>
        /\ UNCHANGED <<stream, got, ended, lines, cursor, status>>
    BY <1>9 DEF Follow, Handle
  <2>2. EndsIn("open", "stream") /\ now \in Nat /\ born \in [Runs -> Nat]
    BY BoundAssumption DEF EndsIn, TypeInv, TypeOK
  <2> HIDE DEF Do
  <2>3. todo'[Len(todo')].op = "open" /\ todo'[Len(todo')].run = i
    BY <2>1, <2>2, CheckedScript
  <2>4. StreamSendsAll'
    BY <2>1 DEF StreamInv, StreamSendsAll, Ended
  <2>5. stream'.phase = "closed" /\ stream' = Closed
    BY <2>1 DEF Closed
  <2> QED BY <2>1, <2>3, <2>4, <2>5 DEF StreamInv
<1> QED BY <1>1, <1>2, <1>3, <1>4, <1>5, <1>6, <1>7, <1>8, <1>9 DEF Next

-----------------------------------------------------------------------------
(* Tasks.                                                                  *)

\* What never comes back.
LEMMA Forever ==
  ASSUME TypeInv, ScriptInv, Next, NEW i \in Recorded
  PROVE  /\ status[i] \in Terminal => status'[i] \in Terminal
         /\ late[i] => late'[i]
         /\ tail[i] = "corrupt" => tail'[i] = "corrupt"
         /\ born'[i] = born[i] /\ now' >= now
<1> USE DEF fileVars, recordVars, logVars
<1>0. /\ i \in Runs /\ "record" \in files[i] /\ now' >= now
      /\ status \in [Runs -> Statuses] /\ late \in [Runs -> BOOLEAN]
      /\ tail \in [Runs -> {"clean", "open", "corrupt"}] /\ born \in [Runs -> Nat]
  BY ProcessTypes DEF Recorded, TypeInv, TypeOK, Statuses
<1>1. CASE Step
  <2> DEFINE op == todo[1]
  <2>0. todo # <<>> /\ Head(todo) = op
    BY <1>1, HeadIs DEF Step
  <2>1. CASE WriteLine(op)
    <3>1. /\ tail' = [tail EXCEPT ![op.run] = IF @ = "open" THEN "corrupt" ELSE @]
          /\ UNCHANGED <<status, late, born>>
      BY <2>1 DEF WriteLine
    <3> QED BY <1>0, <3>1
  <2>2. CASE WriteCursor(op)
    <3>1. /\ late' = [late EXCEPT ![op.run] = op.at > Expiry(op.run)]
          /\ op.op = "cursor" /\ UNCHANGED <<status, tail, born>>
      BY <2>2 DEF WriteCursor
    <3>2. ~late[op.run]
      BY <2>0, <3>1 DEF ScriptInv
    <3>3. late[i] => i # op.run
      BY <3>2
    <3>4. i # op.run => late'[i] = late[i]
      BY <1>0, <3>1
    <3>5. late[i] => late'[i]
      BY <3>3, <3>4
    <3> QED BY <1>0, <3>1, <3>5
  <2>3. CASE WriteStatus(op)
    <3>1. /\ status' = [status EXCEPT ![op.run] = op.to] /\ status[op.run] \notin Terminal
          /\ UNCHANGED <<late, tail, born>>
      BY <2>3 DEF WriteStatus, CanMove, Ended
    <3> QED BY <1>0, <3>1
  <2>4. CASE ~WriteLine(op) /\ ~WriteCursor(op) /\ ~WriteStatus(op)
    <3>1. UNCHANGED <<status, late, tail, born>>
      BY <1>1, <2>0, <2>4
      DEF Step, WriteFile, Reply, Expire, StartTask, EndTask, ListRecords, Serve,
          OpenStream, DecideStream, Fail, GiveUp
    <3> QED BY <1>0, <3>1
  <2> QED BY <2>1, <2>2, <2>3, <2>4
<1>2. CASE Crash
  <2>1. /\ UNCHANGED <<status, late, born>> /\ (TornLine \/ UNCHANGED tail)
    BY <1>2 DEF Crash
  <2>2. TornLine => \E j : \/ tail' = [tail EXCEPT ![j] = "corrupt"]
                           \/ tail[j] = "clean" /\ tail' = [tail EXCEPT ![j] = "open"]
    BY DEF TornLine
  <2>3. tail[i] = "corrupt" => tail'[i] = "corrupt"
    BY <1>0, <2>1, <2>2
  <2> QED BY <1>0, <2>1, <2>3
<1>3. ASSUME NEW k \in Keys, PostKnown(k) \/ PostNew(k)
      PROVE  UNCHANGED <<status, late, tail>> /\ born'[i] = born[i]
  <2>1. UNCHANGED <<status, late, tail>>
    BY <1>3 DEF PostKnown, PostNew
  <2>2. \/ born' = born
        \/ \E j \in Runs : files[j] = {} /\ born' = [born EXCEPT ![j] = now]
    BY <1>3 DEF PostKnown, PostNew
  <2> QED BY <1>0, <2>1, <2>2
<1>4. CASE \/ CreateFails \/ Stream \/ Disconnect \/ Startup \/ Tick
           \/ \E j \in Runs :
                Task(j) \/ TaskEscapes(j) \/ Refresh(j) \/ Cancel(j) \/ Follow(j)
  <2>1. UNCHANGED <<status, late, tail, born>>
    BY <1>4
    DEF CreateFails, Stream, StreamRead, StreamYield, StreamCheck, Disconnect,
        Startup, Tick, Task, TaskStart, TaskWorks, TaskEnds, TaskEscapes, Refresh,
        Cancel, Follow,
        Handle, Fail
  <2> QED BY <1>0, <2>1
<1> QED BY <1>0, <1>1, <1>2, <1>3, <1>4 DEF Next

\* What settles a run, but for its task.
Over(i) == Ended(i) \/ Broken(i) \/ now > Expiry(i)
LEMMA SettledStays ==
  ASSUME TypeInv, ScriptInv, Next, NEW i \in Recorded, files'[i] = files[i],
         Over(i) \/ (Settled(i) /\ task'[i] = task[i]) \/ task'[i] # "none"
  PROVE  Settled(i)'
<1>0. /\ status[i] \in Terminal => status'[i] \in Terminal
      /\ late[i] => late'[i]
      /\ tail[i] = "corrupt" => tail'[i] = "corrupt"
      /\ born'[i] = born[i] /\ now' >= now
  BY Forever
<1>1. Ended(i) => status'[i] \in Terminal
  BY <1>0 DEF Ended
<1>2. Broken(i) => Broken(i)'
  <2>1. i \in Recorded'
    BY DEF Recorded
  <2>2. Loadable(i)' => Loadable(i)
    BY <1>0, <2>1 DEF Loadable
  <2>3. Readable(i)' => Readable(i)
    BY <1>0 DEF Readable
  <2> QED BY <2>1, <2>2, <2>3 DEF Broken
<1>3. now > Expiry(i) => now' > born'[i] + Life
  <2>1. now \in Nat /\ Expiry(i) \in Nat /\ now' \in Nat
    <3>1. i \in Runs /\ now' \in 0..MaxTime
      BY ProcessTypes DEF Recorded
    <3> QED BY <3>1, Present, BoundAssumption
  <2>2. born'[i] + Life = Expiry(i)
    BY <1>0 DEF Expiry
  <2> QED BY <1>0, <2>1, <2>2
<1> QED BY <1>1, <1>2, <1>3 DEF Settled, Over, Ended, Expiry

\* A step of a gateway that serves.
LEMMA TasksServe ==
  ASSUME TypeInv, ScriptInv, TaskInv, Next, proc = "up", proc' # "starting",
         files' = files,
         \A i \in Recorded :
           \/ task'[i] = task[i] \/ task'[i] # "none" \/ Over(i) \/ Closing(i)',
         \A i \in Recorded :
           Creating(i) \/ Closing(i) =>
             \/ Creating(i)' \/ Closing(i)' \/ Over(i) \/ Over(i)' \/ task'[i] # "none"
  PROVE  TaskInv'
<1>1. ASSUME NEW i \in Recorded PROVE Settled(i)' \/ Creating(i)' \/ Closing(i)'
  <2>1. Settled(i) \/ Creating(i) \/ Closing(i)
    BY DEF TaskInv
  <2>2. Over(i)' => Settled(i)'
    BY DEF Over, Settled
  <2>3. Over(i) \/ task'[i] # "none" => Settled(i)'
    BY SettledStays
  <2>4. Settled(i) /\ task'[i] = task[i] => Settled(i)'
    BY SettledStays
  <2> QED BY <2>1, <2>2, <2>3, <2>4
<1>2. Recorded' = Recorded
  BY DEF Recorded
<1> QED BY <1>1, <1>2 DEF TaskInv

\* A step of the startup that does not go on to the next record.
LEMMA TasksStarting ==
  ASSUME TypeInv, ScriptInv, TaskInv, Next, proc = "starting", proc' = "starting",
         files' = files, task' = task, todo'[Len(todo')] = todo[Len(todo)]
  PROVE  TaskInv'
<1>1. \A i \in Recorded : Settled(i) => Settled(i)'
  BY SettledStays
<1>2. Recorded' = Recorded
  BY DEF Recorded
<1> QED BY <1>1, <1>2 DEF TaskInv

\* An AgentStoreError in a handler, but for the startup: its run is over.
LEMMA RaisesOver ==
  ASSUME TypeInv, ScriptInv, todo # <<>>, by # "startup", Raises(todo[1])
  PROVE  /\ by # "create" /\ todo[1].op \in {"line", "move", "expire"}
         /\ todo[1].run \in Runs /\ todo[Len(todo)].run = todo[1].run
         /\ todo[1].run \in Recorded => Over(todo[1].run)
<1> DEFINE op == todo[1]
<1>1. op.op \in {"line", "move", "expire", "list"}
  BY DEF Raises
<1>2. by # "create"
  BY <1>1, CreateHead DEF Creation, CreateFiles
<1>3. op.op # "list"
  <2>1. "list" \notin Inside
    BY DEF Inside
  <2> QED BY <1>2, <2>1, ScriptHead DEF Outer, EndsIn
<1>4. op.run \in Runs /\ Inner(op, now, born)
  BY <1>1, <1>3, InsideHead DEF Inside
<1>5. todo[Len(todo)].run = op.run
  <2>1. Len(todo) \in 1..Len(todo) /\ Script(todo, by, now, born)
    BY <1>2, SeqFacts DEF TypeInv, ScriptInv
  <2> QED BY <2>1 DEF Script
<1>6. ASSUME op.run \in Recorded PROVE Over(op.run)
  <2>1. CASE ~Loadable(op.run) \/ ~Readable(op.run) \/ Ended(op.run)
    BY <1>6, <2>1 DEF Over, Broken
  <2>2. CASE op.op = "move" /\ ~(op.at <= Expiry(op.run))
    <3>1. Dated(op.at, op.run, now, born) /\ op.at \in Nat
      BY <1>4, <2>2, HeadIs DEF Inner, Ops
    <3>2. now \in Nat /\ Expiry(op.run) \in Nat
      BY <1>4, Present
    <3>3. op.at = now \/ op.at = Expiry(op.run)
      BY <3>1 DEF Dated, Expiry
    <3>4. now > Expiry(op.run)
      BY <2>2, <3>1, <3>2, <3>3
    <3> QED BY <3>4 DEF Over
  <2>3. cursor[op.run] <= lines[op.run]
    BY <1>4 DEF TypeInv, TypeOK
  <2> QED BY <1>3, <2>1, <2>2, <2>3 DEF Raises, CanAppend, CanMove
<1> QED BY <1>1, <1>2, <1>3, <1>4, <1>5, <1>6

\* A task that ends by an exception leaves an active run with its last
\* operations queued, and any other run is over.
LEMMA FailOver ==
  ASSUME TypeInv, NEW i \in Runs, Fail(i)
  PROVE  /\ \A j \in Recorded : task'[j] = task[j] \/ Over(j)
         /\ UNCHANGED <<files, proc>> /\ by' \in {"dying", "task"}
<1>1. CASE Loadable(i) /\ ~Ended(i)
  BY <1>1 DEF Fail, fileVars
<1>2. CASE ~(Loadable(i) /\ ~Ended(i))
  <2>1. /\ task' = [task EXCEPT ![i] = "none"] /\ by' = "task"
        /\ UNCHANGED <<files, proc>>
    BY <1>2 DEF Fail, fileVars
  <2>2. \A j \in Runs : j # i => task'[j] = task[j]
    BY <2>1 DEF TypeInv, TypeOK
  <2>3. i \in Recorded => Over(i)
    BY <1>2 DEF Over, Broken
  <2> QED BY <2>1, <2>2, <2>3 DEF Recorded
<1> QED BY <1>1, <1>2

\* The steps of create.
LEMMA TasksCreate ==
  ASSUME TypeInv, ScriptInv, TaskInv, Next, todo # <<>>, proc # "down", by = "create",
         WriteFile(todo[1]) \/ StartTask(todo[1]) \/ Reply(todo[1])
  PROVE  TaskInv'
<1> DEFINE op == todo[1]
<1>1. PICK i \in Runs, n \in 1..6 :
        CreateAt(i, n) /\ op = CreateOps(i)[n] /\ op.run = i
  BY CreateHead
<1>2. /\ n = 6 <=> todo' = <<>>
      /\ n < 6 => n + 1 \in 1..6 /\ CreateAt(i, n + 1)' /\ todo' \in Seq(Ops)
  BY <1>1, CreateSteps DEF ScriptNext
<1>3. \A j \in Runs : (Creating(j) <=> j = i) /\ ~Closing(j)
  BY <1>1, CreatesOne DEF Closing
<1>4. by' = by /\ proc' = proc /\ proc = "up"
  BY DEF WriteFile, StartTask, Reply, Idle, ScriptInv, TypeInv, TypeOK
<1>5. n < 6 => Creating(i)'
  <2> SUFFICES ASSUME n < 6 PROVE todo'[1].run = i /\ todo' # <<>>
    BY <1>4 DEF Creating
  <2>1. Len(todo') = 7 - (n + 1) /\ todo' # <<>> /\ n + 1 \in 1..6 /\ todo' \in Seq(Ops)
    BY <1>2 DEF CreateAt
  <2>2. 1 \in 1..Len(todo') /\ n + 1 - 1 + 1 = n + 1
    BY <2>1
  <2>3. todo'[1] = CreateOps(i)[n + 1 - 1 + 1]
    BY <1>2, <2>1, <2>2 DEF CreateAt
  <2> QED BY <2>1, <2>2, <2>3, CreateOpsAre
<1>6. n = 6 => task'[i] # "none"
  <2>1. n = 6 => op.op = "reply" /\ task[i] = "start"
    BY <1>1, CreateOpsAre DEF CreateAt
  <2>2. n = 6 => task' = task
    BY <2>1 DEF WriteFile, StartTask, Reply, CreateFiles
  <2> QED BY <2>1, <2>2
<1>7. \A j \in Runs : j # i => files'[j] = files[j] /\ task'[j] = task[j]
  <2>1. /\ files' = files \/ files' = [files EXCEPT ![i] = @ \cup {op.op}]
        /\ \/ task' = task \/ task' = [task EXCEPT ![i] = "start"]
    BY <1>1 DEF WriteFile, StartTask, Reply, Idle, fileVars
  <2> QED BY <2>1 DEF TypeInv, TypeOK
<1>8. ASSUME NEW j \in Runs, j \in Recorded' PROVE Settled(j)' \/ Creating(j)'
  <2>1. CASE j = i
    <3>1. CASE n = 6
      BY <1>6, <2>1, <3>1 DEF Settled
    <3> QED BY <1>5, <2>1, <3>1
  <2>2. CASE j # i
    <3>1. j \in Recorded /\ Settled(j)
      BY <1>3, <1>4, <1>7, <1>8, <2>2 DEF Recorded, TaskInv
    <3> QED BY <1>7, <2>2, <3>1, SettledStays
  <2> QED BY <2>1, <2>2
<1> QED BY <1>4, <1>8 DEF TaskInv, Recorded

\* A gap left by a write that failed: the log was not created.
LEMMA TasksGap ==
  ASSUME TypeInv, ScriptInv, TaskInv, Next, CreateFails PROVE TaskInv'
<1>1. /\ todo # <<>> /\ todo[1].op \in CreateFiles /\ todo' = <<>>
      /\ UNCHANGED <<files, proc, task>>
  BY HeadIs DEF CreateFails, fileVars
<1>2. by = "create"
  BY <1>1, ScriptHead DEF Creation
<1>3. PICK i \in Runs, n \in 1..6 : CreateAt(i, n) /\ todo[1] = CreateOps(i)[n]
  BY <1>1, <1>2, CreateHead
<1>4. "events" \notin files[i]
  BY <1>1, <1>3, CreateOpsAre DEF CreateAt, CreateFiles
<1>5. i \in Recorded => Over(i)
  BY <1>4 DEF Over, Broken, Readable
<1>6. \A j \in Runs : (Creating(j) <=> j = i) /\ ~Closing(j)
  BY <1>1, <1>2, <1>3, CreatesOne DEF Closing
<1>7. proc = "up" \/ proc = "down"
  BY <1>2 DEF ScriptInv, TypeInv, TypeOK
<1>8. CASE proc = "up"
  BY <1>1, <1>5, <1>6, <1>8, TasksServe DEF Recorded
<1>9. CASE proc = "down"
  BY <1>1, <1>9 DEF TaskInv
<1> QED BY <1>7, <1>8, <1>9

\* recover goes on: the records it has passed are settled.
LEMMA TasksRecover ==
  ASSUME TypeInv, ScriptInv, TaskInv, Next, todo # <<>>, proc # "down", by # "create",
         StartTask(todo[1]) \/ ListRecords(todo[1]) \/ Serve(todo[1])
  PROVE  TaskInv'
<1> DEFINE op == todo[1]
<1>1. op.op \in {"start", "recover", "list", "serve"}
  BY DEF StartTask, ListRecords, Serve
<1>2. op.op # "start" /\ op.op \notin Inside
  BY <1>1, ScriptHead DEF Inside, Creation
<1>3. Outer(op, by) /\ Len(todo) = 1 /\ todo[Len(todo)] = op
  BY <1>2, ScriptHead
<1>4. by = "startup" /\ proc = "starting"
  BY <1>1, <1>2, <1>3 DEF Outer, EndsIn, ScriptInv
<1>5. files' = files /\ Recorded' = Recorded /\ now' = now
  BY DEF StartTask, ListRecords, Serve, Idle, fileVars, Recorded
<1>6. Recorded \subseteq Runs
  BY DEF Recorded
<1>7. CASE StartTask(op)
  <2>1. /\ op.op = "recover" /\ todo' = RecoverAfter(op.run) /\ proc' = proc
        /\ task' = IF RecoverDue(op.run) THEN [task EXCEPT ![op.run] = "start"] ELSE task
    BY <1>2, <1>7 DEF StartTask
  <2>2. op.run \in Runs /\ op.run \in 0..MaxRuns
    BY <1>3, <2>1, RunsInOps DEF Outer
  <2>3. ASSUME NEW j \in Recorded, j <= op.run PROVE Settled(j)'
    <3>1. CASE j = op.run /\ RecoverDue(j)
      <4>1. task'[j] = "start"
        BY <2>1, <2>2, <3>1 DEF TypeInv, TypeOK
      <4> QED BY <1>5, <4>1, SettledStays
    <3>2. CASE j = op.run /\ ~RecoverDue(j)
      <4>1. Ended(j)
        BY <2>2, <3>2 DEF RecoverDue, Ended, TypeInv, TypeOK
      <4> QED BY <1>5, <4>1, SettledStays DEF Over
    <3>3. CASE j # op.run
      <4>1. j < op.run
        BY <1>6, <2>2, <2>3, <3>3, RunsInOps
      <4>2. Settled(j)
        BY <1>3, <1>4, <2>1, <4>1 DEF TaskInv
      <4>3. task'[j] = task[j]
        BY <1>6, <2>1, <3>3 DEF TypeInv, TypeOK
      <4> QED BY <1>5, <4>2, <4>3, SettledStays
    <3> QED BY <3>1, <3>2, <3>3
  <2>4. LET s == RecoverAfter(op.run) IN
         \/ /\ s[Len(s)].op = "recover" /\ s[Len(s)].run \in Recorded
            /\ \A j \in Recorded : j < s[Len(s)].run => j <= op.run
         \/ s[Len(s)].op = "serve" /\ \A j \in Recorded : j <= op.run
    BY <2>2, RecoverScript
  <2>5. \/ /\ todo'[Len(todo')].op = "recover"
           /\ \A j \in Recorded : j < todo'[Len(todo')].run => j <= op.run
        \/ todo'[Len(todo')].op = "serve" /\ \A j \in Recorded : j <= op.run
    BY <2>1, <2>4
  <2>6. proc' = "starting"
    BY <1>4, <2>1
  <2> QED BY <1>5, <2>3, <2>5, <2>6 DEF TaskInv
<1>8. CASE ListRecords(op)
  <2>1. todo' = RecoverAfter(0) /\ proc' = proc /\ 0 \in 0..MaxRuns
    BY <1>8, RunsAssumption DEF ListRecords, Idle
  <2>2. LET s == RecoverAfter(0) IN
         \/ /\ s[Len(s)].op = "recover" /\ s[Len(s)].run \in Recorded
            /\ \A j \in Recorded : j < s[Len(s)].run => j <= 0
         \/ s[Len(s)].op = "serve" /\ \A j \in Recorded : j <= 0
    BY <2>1, RecoverScript
  <2>3. \A j \in Recorded : ~(j <= 0)
    BY <1>6, RunsAssumption DEF Runs
  <2>4. \/ /\ todo'[Len(todo')].op = "recover"
           /\ \A j \in Recorded : ~(j < todo'[Len(todo')].run)
        \/ todo'[Len(todo')].op = "serve" /\ \A j \in Recorded : FALSE
    BY <2>1, <2>2, <2>3
  <2>5. proc' = "starting"
    BY <1>4, <2>1
  <2> QED BY <1>5, <2>4, <2>5 DEF TaskInv
<1>9. CASE Serve(op)
  <2>1. op.op = "serve" /\ proc' = "up" /\ task' = task
    BY <1>9 DEF Serve
  <2>2. \A j \in Recorded : Settled(j)
    BY <1>3, <1>4, <2>1 DEF TaskInv
  <2>3. \A j \in Recorded : Settled(j)'
    BY <1>5, <2>1, <2>2, SettledStays
  <2> QED BY <1>5, <2>1, <2>3 DEF TaskInv
<1> QED BY <1>7, <1>8, <1>9

\* A durable write, or a look at the expiry.
LEMMA TasksWrite ==
  ASSUME TypeInv, ScriptInv, TaskInv, Next, todo # <<>>, proc # "down",
         \/ WriteLine(todo[1]) \/ WriteCursor(todo[1]) \/ WriteStatus(todo[1])
         \/ Expire(todo[1])
  PROVE  TaskInv'
<1> DEFINE op == todo[1]
<1>1. /\ op.op \in Inside /\ UNCHANGED <<files, task, proc, by>>
  BY DEF WriteLine, WriteCursor, WriteStatus, Expire, Inside, Idle, fileVars
<1>2. /\ by # "create" /\ op.run \in Runs
      /\ by = "startup" => Tail(todo) # <<>>
      /\ Tail(todo) # <<>> => Tail(todo)[Len(Tail(todo))] = todo[Len(todo)]
  BY <1>1, InsideHead
<1>3. Tail(todo) # <<>> => todo' # <<>> /\ todo'[Len(todo')] = todo[Len(todo)]
  <2>1. CASE Expire(op)
    BY <2>1, ExpireLast
  <2>2. CASE WriteLine(op) \/ WriteCursor(op) \/ WriteStatus(op)
    BY <1>2, <2>2 DEF WriteLine, WriteCursor, WriteStatus
  <2> QED BY <2>1, <2>2
<1>4. ASSUME Tail(todo) = <<>> PROVE todo[Len(todo)] = op
  BY <1>4, SeqFacts DEF TypeInv
<1>5. ASSUME NEW i \in Recorded, Closing(i) PROVE Closing(i)' \/ Over(i)'
  <2>1. CASE Tail(todo) # <<>>
    BY <1>1, <1>3, <1>5, <2>1 DEF Closing
  <2>2. CASE Tail(todo) = <<>>
    <3>1. op.op = "move" /\ op.run = i /\ op.to \in Terminal
      BY <1>4, <1>5, <2>2 DEF Closing
    <3>2. status' = [status EXCEPT ![i] = op.to]
      BY <3>1 DEF WriteLine, WriteCursor, WriteStatus, Expire
    <3>3. status'[i] \in Terminal
      BY <1>2, <3>1, <3>2 DEF TypeInv, TypeOK
    <3> QED BY <3>3 DEF Over, Ended
  <2> QED BY <2>1, <2>2
<1>6. \A i \in Recorded : ~Creating(i)
  BY <1>2 DEF Creating
<1>7. CASE proc = "up"
  BY <1>1, <1>5, <1>6, <1>7, TasksServe
<1>8. CASE proc = "starting"
  <2>1. by = "startup"
    BY <1>8 DEF ScriptInv
  <2> QED BY <1>1, <1>2, <1>3, <1>8, <2>1, TasksStarting
<1> QED BY <1>7, <1>8 DEF TypeInv, TypeOK

LEMMA TasksStep == ASSUME TypeInv, ScriptInv, TaskInv, Step PROVE TaskInv'
<1> DEFINE op == todo[1]
<1>0. /\ proc # "down" /\ todo # <<>> /\ Head(todo) = op /\ Next
      /\ proc \in {"up", "starting"} /\ (proc = "starting" <=> by = "startup")
  BY HeadIs DEF Step, Next, TypeInv, TypeOK, ScriptInv
<1>1. CASE WriteFile(op) \/ StartTask(op) \/ Reply(op)
  <2>1. CASE by = "create"
    BY <1>0, <1>1, <2>1, TasksCreate
  <2>2. CASE by # "create"
    <3>1. op.op \notin Creation
      BY <1>0, <2>2, ScriptHead
    <3>2. StartTask(op)
      BY <1>1, <3>1 DEF WriteFile, Reply, Creation
    <3> QED BY <1>0, <2>2, <3>2, TasksRecover
  <2> QED BY <2>1, <2>2
<1>2. CASE WriteLine(op) \/ WriteCursor(op) \/ WriteStatus(op) \/ Expire(op)
  BY <1>0, <1>2, TasksWrite
<1>3. CASE ListRecords(op) \/ Serve(op)
  <2>1. by # "create"
    BY <1>0, <1>3, CreateHead DEF ListRecords, Serve, Creation, CreateFiles
  <2> QED BY <1>0, <1>3, <2>1, TasksRecover
<1>4. CASE EndTask(op) \/ OpenStream(op) \/ DecideStream(op)
  <2>1. /\ op.op \in {"done", "open", "decide"} /\ UNCHANGED <<files, proc, by>>
        /\ task' = task \/ (op.op = "done" /\ task' = [task EXCEPT ![op.run] = "none"])
    BY <1>4 DEF EndTask, OpenStream, DecideStream, fileVars
  <2>2. by # "create" /\ op.op \notin Inside
    BY <1>0, <2>1, CreateHead DEF Creation, CreateFiles, Inside
  <2>3. EndsIn(op.op, by)
    BY <1>0, <2>2, ScriptHead DEF Outer
  <2>4. by \in {"task", "dying", "stream"}
    BY <2>1, <2>3 DEF EndsIn
  <2>5. \A i \in Recorded : ~Creating(i) /\ ~Closing(i)
    BY <2>4 DEF Creating, Closing
  <2>6. \A i \in Recorded : task'[i] = task[i] \/ Over(i)
    <3>1. op.op = "done" => Ended(op.run)
      BY <1>0 DEF ScriptInv
    <3>2. \A i \in Recorded : i # op.run => task'[i] = task[i]
      BY <2>1 DEF TypeInv, TypeOK, Recorded
    <3> QED BY <2>1, <3>1, <3>2 DEF Over
  <2>7. proc = "up"
    BY <1>0, <2>4
  <2> QED BY <1>0, <2>1, <2>5, <2>6, <2>7, TasksServe
<1>5. CASE Raises(op) /\ IF by = "task" THEN Fail(op.run) ELSE GiveUp(op)
  <2>1. CASE by = "startup"
    <3>1. proc' = "down"
      BY <1>5, <2>1 DEF GiveUp
    <3> QED BY <3>1 DEF TaskInv
  <2>2. CASE by # "startup"
    <3>1. /\ by # "create" /\ op.run \in Runs /\ todo[Len(todo)].run = op.run
          /\ op.run \in Recorded => Over(op.run)
      BY <1>0, <1>5, <2>2, RaisesOver
    <3>2. \A i \in Recorded : Creating(i) \/ Closing(i) => Over(i)
      BY <3>1 DEF Creating, Closing
    <3>3. /\ files' = files /\ proc' = proc
          /\ \A i \in Recorded : task'[i] = task[i] \/ Over(i)
      <4>1. CASE by = "task"
        BY <1>5, <3>1, <4>1, FailOver
      <4>2. CASE by # "task"
        <5>1. /\ files' = files /\ proc' = proc
              /\ task' = task \/ task' = [task EXCEPT ![op.run] = "none"]
          BY <1>5, <2>2, <4>2 DEF GiveUp, fileVars
        <5>2. \A i \in Runs : i # op.run => task'[i] = task[i]
          BY <5>1 DEF TypeInv, TypeOK
        <5> QED BY <3>1, <5>1, <5>2 DEF Recorded
      <4> QED BY <4>1, <4>2
    <3>4. proc = "up"
      BY <1>0, <2>2
    <3> QED BY <1>0, <3>2, <3>3, <3>4, TasksServe
  <2> QED BY <2>1, <2>2
<1> QED BY <1>0, <1>1, <1>2, <1>3, <1>4, <1>5 DEF Step

LEMMA TasksNext == ASSUME TypeInv, ScriptInv, StreamInv, TaskInv, Next PROVE TaskInv'
<1> USE DEF fileVars
<1>a. ASSUME todo = <<>> PROVE \A i \in Runs : ~Creating(i) /\ ~Closing(i)
  BY <1>a DEF Creating, Closing
<1>b. ASSUME Quiet, files' = files, proc' = proc,
             \A i \in Recorded :
               task'[i] = task[i] \/ task'[i] # "none" \/ Over(i) \/ Closing(i)'
      PROVE  TaskInv'
  <2>1. proc = "up" /\ todo = <<>>
    BY <1>b DEF Quiet
  <2> QED BY <1>a, <1>b, <2>1, TasksServe DEF Recorded
<1>1. CASE Step
  BY <1>1, TasksStep
<1>2. CASE CreateFails
  BY <1>2, TasksGap
<1>3. CASE Stream \/ Disconnect
  <2>1. Quiet /\ files' = files /\ proc' = proc /\ task' = task
    BY <1>3 DEF Stream, StreamRead, StreamYield, StreamCheck, Disconnect, Handle
  <2> QED BY <1>b, <2>1
<1>4. CASE Startup
  <2>1. /\ proc' = "starting" /\ todo' = <<Do("list", 0)>>
        /\ Do("list", 0).op = "list"
    BY <1>4 DEF Startup, Do, Op
  <2> HIDE DEF Do
  <2>2. todo'[Len(todo')].op = "list"
    BY <2>1
  <2> QED BY <2>1, <2>2 DEF TaskInv
<1>5. CASE Crash
  <2>1. proc' = "down"
    BY <1>5 DEF Crash
  <2> QED BY <2>1 DEF TaskInv
<1>6. CASE Tick
  <2>1. todo = <<>> /\ files' = files /\ proc' = proc /\ task' = task
    BY <1>6 DEF Tick
  <2>2. CASE proc = "up"
    BY <1>b, <2>1, <2>2 DEF Quiet
  <2>3. CASE proc # "up"
    <3>1. proc' = "down"
      BY <2>1, <2>3 DEF ScriptInv, TypeInv, TypeOK
    <3> QED BY <3>1 DEF TaskInv
  <2> QED BY <2>2, <2>3
<1>7. ASSUME NEW k \in Keys, PostKnown(k) \/ PostNew(k) PROVE TaskInv'
  <2>1. Quiet /\ files' = files /\ proc' = proc /\ task' = task
    BY <1>7 DEF PostKnown, PostNew
  <2> QED BY <1>b, <2>1
<1>8. ASSUME NEW i \in Runs,
             Task(i) \/ TaskEscapes(i) \/ Refresh(i) \/ Cancel(i) \/ Follow(i)
      PROVE  TaskInv'
  <2>1. CASE Fail(i)
    <3>1. Quiet
      BY <1>8 DEF Task, TaskStart, TaskWorks, TaskEnds, TaskEscapes, Refresh,
          Cancel, Follow, Handle
    <3>2. /\ \A j \in Recorded : task'[j] = task[j] \/ Over(j)
          /\ files' = files /\ proc' = proc
      BY <2>1, FailOver
    <3> QED BY <1>b, <3>1, <3>2
  <2>2. CASE Cancel(i)
    <3>1. /\ Quiet /\ files' = files /\ proc' = proc /\ by' = "api"
          /\ task' = [task EXCEPT ![i] = "none"] /\ todo' = Move(i, "cancelled", now)
      BY <2>2 DEF Cancel
    <3>2. \A j \in Recorded : j # i => task'[j] = task[j]
      BY <3>1 DEF TypeInv, TypeOK, Recorded
    <3>3. Closing(i)'
      <4>1. now \in Nat /\ born \in [Runs -> Nat] /\ Dated(now, i, now, born)
        BY Present
      <4>2. "cancelled" \in Statuses
        BY DEF Statuses, Terminal
      <4> HIDE DEF Move
      <4>3. LET s == Move(i, "cancelled", now) IN
              /\ Script(s, "api", now, born)
              /\ s # <<>> /\ Len(s) = 1 /\ s[1].op = "move" /\ s[1].run = i /\ s[1].to = "cancelled"
        BY <4>1, <4>2, MoveScript
      <4> QED BY <3>1, <4>3 DEF Closing, Terminal
    <3> QED BY <1>b, <3>1, <3>2, <3>3
  <2>3. CASE ~Fail(i) /\ ~Cancel(i)
    <3>1. /\ Quiet /\ files' = files /\ proc' = proc
          /\ \/ task' = task \/ task' = [task EXCEPT ![i] = "work"]
             \/ task' = [task EXCEPT ![i] = "escaped"]
      BY <1>8, <2>3
      DEF Task, TaskStart, TaskWorks, TaskEnds, TaskEscapes, Refresh, Follow, Handle
    <3>2. \A j \in Recorded : task'[j] = task[j] \/ task'[j] # "none"
      BY <3>1 DEF TypeInv, TypeOK, Recorded
    <3> QED BY <1>b, <3>1, <3>2
  <2> QED BY <2>1, <2>2, <2>3
<1> QED BY <1>1, <1>2, <1>3, <1>4, <1>5, <1>6, <1>7, <1>8 DEF Next

-----------------------------------------------------------------------------
(* The theorems.                                                           *)

LEMMA InitInv == Init => IInv
<1> SUFFICES ASSUME Init PROVE IInv
  OBVIOUS
<1>1. TypeInv /\ KeyInv /\ DebrisInv
  BY TypeInit, KeysInit
<1>2. ScriptInv
  BY EmptyScript DEF Init, ScriptInv
<1>3. StreamInv
  BY DEF Init, StreamInv, StreamSendsAll, Closed
<1>4. TaskInv
  BY DEF Init, TaskInv
<1> QED BY <1>1, <1>2, <1>3, <1>4 DEF IInv

LEMMA StutterInv == IInv /\ UNCHANGED vars => IInv'
<1> SUFFICES ASSUME IInv, UNCHANGED vars PROVE IInv'
  OBVIOUS
<1>1. /\ UNCHANGED <<files, key, born, status, cursor, late, lines, tail, now>>
      /\ UNCHANGED <<proc, task, todo, by, stream, got, ended, told, faults>>
  BY DEF vars, fileVars, recordVars, logVars, clientVars
<1>2. TypeInv'
  BY <1>1 DEF IInv, TypeInv, TypeOK
<1>3. ScriptInv'
  <2>1. by' # "create" => Script(todo', by', now', born')
    BY <1>1 DEF IInv, ScriptInv
  <2>2. by' = "create" /\ todo' # <<>> => \E i \in Runs, n \in 1..6 : CreateAt(i, n)'
    BY <1>1 DEF IInv, ScriptInv, CreateAt
  <2>3. /\ proc' = "down" => todo' = <<>>
        /\ proc' = "starting" <=> todo' # <<>> /\ by' = "startup"
        /\ todo' # <<>> /\ by' = "startup" => EndsIn(todo'[Len(todo')].op, by')
    BY <1>1 DEF IInv, ScriptInv
  <2>4. todo' # <<>> =>
          /\ todo'[1].op = "cursor" => ~late'[todo'[1].run]
          /\ todo'[1].op = "done" => status'[todo'[1].run] \in Terminal
    BY <1>1 DEF IInv, ScriptInv, Ended
  <2> QED BY <2>1, <2>2, <2>3, <2>4 DEF ScriptInv, Ended
<1>4. KeyInv'
  BY <1>1 DEF IInv, KeyInv, Holds, Creating
<1>5. DebrisInv'
  BY <1>1 DEF IInv, DebrisInv, Debris, Recorded, Holds, Creating
<1>6. StreamInv'
  BY <1>1 DEF IInv, StreamInv, StreamSendsAll, Ended, Writing
<1>7. TaskInv'
  BY <1>1 DEF IInv, TaskInv, Recorded, Settled, Ended, Broken, Loadable, Readable,
              Expiry, Creating, Closing
<1> QED BY <1>2, <1>3, <1>4, <1>5, <1>6, <1>7 DEF IInv

\* The invariant is inductive, whatever the keys, the runs and the faults.
THEOREM Invariance == Spec => []IInv
<1>1. IInv /\ [Next]_vars => IInv'
  <2> SUFFICES ASSUME IInv, [Next]_vars PROVE IInv'
    OBVIOUS
  <2>1. CASE Next
    <3>1. ScriptNext
      BY <2>1, NextScript DEF IInv
    <3> QED BY <2>1, <3>1, TypeNext, KeysNext, StreamNext, TasksNext DEF IInv, ScriptNext
  <2>2. CASE UNCHANGED vars
    BY <2>2, StutterInv
  <2> QED BY <2>1, <2>2
<1> QED BY <1>1, InitInv, PTL DEF Spec

\* Every variable of the store, its tasks and its streams has its type.
THEOREM TypeCorrectness == Spec => []TypeOK
<1>1. IInv => TypeOK
  BY DEF IInv, TypeInv
<1> QED BY <1>1, Invariance, PTL

\* Two answers of POST /runs to one Idempotency-Key name the same run,
\* wherever create was cut short in between.
THEOREM KeysNameOneRun == Spec => []KeyNamesOneRun
<1>1. IInv => KeyNamesOneRun
  BY KeysAnswer DEF IInv
<1> QED BY <1>1, Invariance, PTL

\* Runs recorded under one key: the one the index names, and at most one for
\* each crash or failed write of create.
THEOREM RunsOfAKeyAreBounded == Spec => []RunsPerKey
<1>1. IInv => RunsPerKey
  BY KeysBound DEF IInv
<1> QED BY <1>1, Invariance, PTL

\* GET /runs/{id}/events ends by itself only when its client has every event
\* of a run that has ended.
THEOREM StreamsAreComplete == Spec => []StreamSendsAll
<1>1. IInv => StreamSendsAll
  BY DEF IInv, StreamInv
<1> QED BY <1>1, Invariance, PTL

\* When the gateway serves, a run a client was told of has its task, or has
\* ended, is overdue or has broken files: recovery misses none.  The task may
\* be over with an exception that _execute does not list: that is all a handler
\* loses.
THEOREM ToldRunsHaveTasks == Spec => []ToldRunHasTask
<1>1. IInv => ToldRunHasTask
  <2> SUFFICES ASSUME IInv, NEW i \in Told, Quiet, status[i] \in Active, ~Broken(i),
                      ~Overdue(i)
               PROVE  task[i] \in {"start", "work", "escaped"}
    BY DEF ToldRunHasTask
  <2>1. i \in Recorded
    <3>1. PICK t \in told : i = t[2]
      BY DEF Told
    <3>2. i \in Runs /\ "index" \in files[i]
      BY <3>1 DEF IInv, TypeInv, TypeOK, KeyInv
    <3> QED BY <3>2 DEF IInv, KeyInv, Recorded
  <2>2. Settled(i)
    BY <2>1 DEF IInv, TaskInv, Quiet, Creating, Closing
  <2>3. ~Ended(i)
    BY DEF Ended, Active, Terminal
  <2>4. task[i] # "none"
    BY <2>2, <2>3 DEF Settled, Overdue
  <2> QED BY <2>1, <2>4 DEF IInv, TypeInv, TypeOK, Recorded
<1> QED BY <1>1, Invariance, PTL
=============================================================================
