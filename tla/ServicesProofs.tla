--------------------------- MODULE ServicesProofs ---------------------------
(***************************************************************************)
(* Proofs about the services over a connection that breaks: FileWatching,  *)
(* DebugSessions, and the choice between them in MCServices.               *)
(*                                                                         *)
(* FileWatching: its variables keep their types, and whatever breaks and   *)
(* is restarted, what is watched is registered or asked for, the ids kept  *)
(* are those of the present server, and the watchers of a server that is   *)
(* gone are silent.                                                        *)
(*                                                                         *)
(* DebugSessions: the variables keep their types, since a session that is  *)
(* spawned, asked for or to be restarted is counted once wherever it is,   *)
(* and a session begins only once.                                         *)
(***************************************************************************)
EXTENDS MCServices, FiniteSetTheorems, TLAPS

-----------------------------------------------------------------------------
(* Ids in ascending order, and sequences.                                    *)

LEMMA AscendingLists ==
  ASSUME NEW S \in SUBSET Int, IsFiniteSet(S)
  PROVE  /\ Ascending(S) \in Seq(S) /\ Len(Ascending(S)) = Cardinality(S)
         /\ Cardinality(S) \in Nat /\ ToSet(Ascending(S)) = S
         /\ \A i, j \in 1 .. Cardinality(S) : Ascending(S)[i] = Ascending(S)[j] => i = j
<1> DEFINE n == Cardinality(S)
           below(x) == {k \in S : k <= x}
           rank == [x \in S |-> Cardinality(below(x))]
<1>1. n \in Nat
  BY FS_CardinalityType
<1>2. ASSUME NEW x \in S
      PROVE  /\ IsFiniteSet(below(x)) /\ x \in below(x)
             /\ Cardinality(below(x)) \in 1 .. n
  <2>1. below(x) \subseteq S /\ x \in below(x)
    OBVIOUS
  <2> HIDE DEF below
  <2>2. IsFiniteSet(below(x)) /\ Cardinality(below(x)) <= n
    <3>1. below(x) \in SUBSET S
      BY <2>1
    <3> QED BY <3>1, FS_Subset
  <2>3. Cardinality(below(x)) \in Nat /\ Cardinality(below(x)) # 0
    BY <2>1, <2>2, FS_CardinalityType, FS_EmptySet
  <2> QED BY <1>1, <2>1, <2>2, <2>3
<1>3. ASSUME NEW x \in S, NEW y \in S, x < y PROVE rank[x] < rank[y]
  <2>1. below(x) \subseteq below(y) /\ y \notin below(x)
    <3>1. x \in Int /\ y \in Int /\ \A k \in S : k \in Int
      OBVIOUS
    <3>2. ~(y <= x) /\ \A k \in S : k <= x => k <= y
      BY <1>3, <3>1
    <3> HIDE <1>3
    <3> QED BY <3>2
  <2>2. /\ IsFiniteSet(below(x)) /\ Cardinality(below(x)) \in 1 .. n
        /\ IsFiniteSet(below(y)) /\ y \in below(y) /\ Cardinality(below(y)) \in 1 .. n
    BY <1>2
  <2>3. rank[x] = Cardinality(below(x)) /\ rank[y] = Cardinality(below(y))
    OBVIOUS
  <2> HIDE DEF below, rank
  <2>4. /\ Cardinality(below(x)) <= Cardinality(below(y))
        /\ Cardinality(below(y)) = Cardinality(below(x)) => below(y) = below(x)
    <3>1. below(x) \in SUBSET below(y)
      BY <2>1
    <3> QED BY <2>2, <3>1, FS_Subset
  <2> QED BY <1>1, <2>1, <2>2, <2>3, <2>4
<1>4. \A x \in S : rank[x] \in 1 .. n
  BY <1>2
<1>5. \A x, y \in S : rank[x] = rank[y] => x = y
  <2> HIDE DEF rank
  <2> QED BY <1>1, <1>3, <1>4
<1>6. \A i \in 1 .. n : \E x \in S : rank[x] = i
  <2>1. rank \in [S -> 1 .. n]
    BY <1>4
  <2> HIDE DEF rank
  <2>2. rank \in Injection(S, 1 .. n)
    BY <1>5, <2>1 DEF Injection, IsInjective
  <2>3. IsFiniteSet(1 .. n) /\ Cardinality(1 .. n) = n
    BY <1>1, FS_Interval
  <2>4. rank \in Surjection(S, 1 .. n)
    BY <2>2, <2>3, FS_Injection
  <2> QED BY <2>4 DEF Surjection
<1>7. ASSUME NEW i \in 1 .. n
      PROVE  Ascending(S)[i] \in S /\ rank[Ascending(S)[i]] = i
  <2>1. Ascending(S)[i] = CHOOSE x \in S : Cardinality(below(x)) = i
    BY DEF Ascending
  <2>2. \E x \in S : Cardinality(below(x)) = i
    BY <1>6
  <2>3. Ascending(S)[i] \in S /\ Cardinality(below(Ascending(S)[i])) = i
    BY <2>1, <2>2
  <2> QED BY <2>3
<1>8. DOMAIN Ascending(S) = 1 .. n /\ Ascending(S) \in [1 .. n -> S]
  <2>1. \A i \in 1 .. n : (CHOOSE l \in S : Cardinality({k \in S : k <= l}) = i) \in S
    <3>1. ASSUME NEW i \in 1 .. n
          PROVE  (CHOOSE l \in S : Cardinality({k \in S : k <= l}) = i) \in S
      BY <1>6
    <3> QED BY <3>1
  <2> QED BY <2>1, Zenon DEF Ascending
<1> HIDE DEF rank, n, below
<1>9. Ascending(S) \in Seq(S) /\ Len(Ascending(S)) = n
  BY <1>1, <1>8
<1>10. ToSet(Ascending(S)) = S
  <2>1. ASSUME NEW x \in S PROVE Ascending(S)[rank[x]] = x
    BY <1>4, <1>5, <1>7
  <2> QED BY <1>4, <1>7, <1>8, <2>1 DEF ToSet
<1>11. \A i, j \in 1 .. n : Ascending(S)[i] = Ascending(S)[j] => i = j
  BY <1>7
<1> QED BY <1>1, <1>9, <1>10, <1>11 DEF n

LEMMA AppendedAt ==
  ASSUME NEW T, NEW q \in Seq(T), NEW r \in Seq(T)
  PROVE  /\ q \o r \in Seq(T)
         /\ \A k \in DOMAIN q : k \in DOMAIN (q \o r) /\ (q \o r)[k] = q[k] /\ k <= Len(q)
         /\ \A j \in DOMAIN r :
              /\ j + Len(q) \in DOMAIN (q \o r) /\ (q \o r)[j + Len(q)] = r[j] /\ j >= 1
         /\ \A k \in DOMAIN (q \o r) :
              \/ k \in DOMAIN q
              \/ k - Len(q) \in DOMAIN r /\ (q \o r)[k] = r[k - Len(q)] /\ k > Len(q)
OBVIOUS

LEMMA TailOf ==
  ASSUME NEW T, NEW q \in Seq(T), q # <<>>
  PROVE  /\ Tail(q) \in Seq(T) /\ 1 \in DOMAIN q /\ Head(q) = q[1] /\ Head(q) \in T
         /\ \A k \in DOMAIN Tail(q) : k \in Nat /\ k >= 1 /\ k + 1 \in DOMAIN q /\ Tail(q)[k] = q[k + 1]
         /\ \A k \in DOMAIN q : k # 1 => k - 1 \in DOMAIN Tail(q) /\ Tail(q)[k - 1] = q[k]
<1>1. /\ Tail(q) \in Seq(T) /\ Len(Tail(q)) = Len(q) - 1 /\ Len(q) \in Nat /\ Len(q) >= 1
      /\ Head(q) = q[1] /\ DOMAIN q = 1 .. Len(q) /\ DOMAIN Tail(q) = 1 .. Len(Tail(q))
      /\ \A k \in 1 .. Len(q) - 1 : Tail(q)[k] = q[k + 1]
      /\ q[1] \in T
  OBVIOUS
<1> QED BY <1>1

LEMMA ToSetOf ==
  ASSUME NEW T, NEW q \in Seq(T)
  PROVE  /\ ToSet(q) \subseteq T
         /\ \A r \in Seq(T) : ToSet(q \o r) = ToSet(q) \cup ToSet(r)
         /\ q # <<>> => ToSet(q) = {Head(q)} \cup ToSet(Tail(q))
<1>1. ASSUME NEW r \in Seq(T) PROVE ToSet(q \o r) = ToSet(q) \cup ToSet(r)
  <2> DEFINE s == q \o r
  <2>1. /\ \A k \in DOMAIN q : k \in DOMAIN s /\ s[k] = q[k]
        /\ \A j \in DOMAIN r : j + Len(q) \in DOMAIN s /\ s[j + Len(q)] = r[j]
        /\ \A k \in DOMAIN s :
             k \in DOMAIN q \/ (k - Len(q) \in DOMAIN r /\ s[k] = r[k - Len(q)])
    BY AppendedAt
  <2> HIDE DEF s
  <2>2. ASSUME NEW x \in ToSet(s) PROVE x \in ToSet(q) \cup ToSet(r)
    BY <2>1, <2>2 DEF ToSet
  <2>3. ASSUME NEW x \in ToSet(q) PROVE x \in ToSet(s)
    BY <2>1, <2>3 DEF ToSet
  <2>4. ASSUME NEW x \in ToSet(r) PROVE x \in ToSet(s)
    <3>1. PICK j \in DOMAIN r : x = r[j]
      BY <2>4 DEF ToSet
    <3>2. j + Len(q) \in DOMAIN s /\ s[j + Len(q)] = x
      BY <2>1, <3>1
    <3> QED BY <3>2 DEF ToSet
  <2> QED BY <2>2, <2>3, <2>4 DEF s
<1>2. ASSUME q # <<>> PROVE ToSet(q) = {Head(q)} \cup ToSet(Tail(q))
  <2>1. /\ 1 \in DOMAIN q /\ Head(q) = q[1]
        /\ \A k \in DOMAIN Tail(q) : k + 1 \in DOMAIN q /\ Tail(q)[k] = q[k + 1]
        /\ \A k \in DOMAIN q : k # 1 => k - 1 \in DOMAIN Tail(q) /\ Tail(q)[k - 1] = q[k]
    BY <1>2, TailOf
  <2> DEFINE t == Tail(q)
             e == Head(q)
  <2> HIDE DEF t, e
  <2>2. ASSUME NEW x \in ToSet(q) PROVE x \in {e} \cup ToSet(t)
    <3>1. PICK k \in DOMAIN q : x = q[k]
      BY <2>2 DEF ToSet
    <3>2. CASE k = 1
      BY <2>1, <3>1, <3>2 DEF e
    <3>3. CASE k # 1
      <4>1. k - 1 \in DOMAIN t /\ t[k - 1] = x
        BY <2>1, <3>1, <3>3 DEF t
      <4> QED BY <4>1 DEF ToSet
    <3> QED BY <3>2, <3>3
  <2>3. e \in ToSet(q)
    BY <2>1 DEF ToSet, e
  <2>4. ASSUME NEW x \in ToSet(t) PROVE x \in ToSet(q)
    <3>1. PICK k \in DOMAIN t : x = t[k]
      BY <2>4 DEF ToSet
    <3>2. k + 1 \in DOMAIN q /\ q[k + 1] = x
      BY <2>1, <3>1 DEF t
    <3> QED BY <3>2 DEF ToSet
  <2> QED BY <2>2, <2>3, <2>4 DEF t, e
<1>3. ToSet(q) \subseteq T
  BY DEF ToSet
<1> QED BY <1>1, <1>2, <1>3

-----------------------------------------------------------------------------
(* First calls for a handle.                                                 *)

\* A call that watches for a handle for the first time, or the answer to one.
IsFirst(m) == m.op # "unwatch" /\ m.first
FirstOf(q) == {q[i].local : i \in {k \in DOMAIN q : IsFirst(q[k])}}
Distinct(q) ==
  \A i, j \in DOMAIN q : IsFirst(q[i]) /\ IsFirst(q[j]) /\ q[i].local = q[j].local => i = j

LEMMA FirstAppended ==
  ASSUME NEW T, NEW q \in Seq(T), NEW r \in Seq(T)
  PROVE  /\ FirstOf(q \o r) = FirstOf(q) \cup FirstOf(r)
         /\ Distinct(q) /\ Distinct(r) /\ FirstOf(q) \cap FirstOf(r) = {} => Distinct(q \o r)
<1> DEFINE s == q \o r
<1>1. /\ \A k \in DOMAIN q : k \in DOMAIN s /\ s[k] = q[k] /\ k <= Len(q)
      /\ \A j \in DOMAIN r : j + Len(q) \in DOMAIN s /\ s[j + Len(q)] = r[j] /\ j >= 1
      /\ \A k \in DOMAIN s :
              \/ k \in DOMAIN q
              \/ k - Len(q) \in DOMAIN r /\ s[k] = r[k - Len(q)] /\ k > Len(q)
      /\ \A k \in DOMAIN s : k \in Nat
      /\ Len(q) \in Nat
  BY AppendedAt
<1> HIDE DEF s
<1>2. FirstOf(s) = FirstOf(q) \cup FirstOf(r)
  <2>1. ASSUME NEW l \in FirstOf(s) PROVE l \in FirstOf(q) \cup FirstOf(r)
    BY <1>1, <2>1 DEF FirstOf
  <2>2. ASSUME NEW l \in FirstOf(q) PROVE l \in FirstOf(s)
    BY <1>1, <2>2 DEF FirstOf
  <2>3. ASSUME NEW l \in FirstOf(r) PROVE l \in FirstOf(s)
    <3>1. PICK j \in DOMAIN r : IsFirst(r[j]) /\ r[j].local = l
      BY <2>3 DEF FirstOf
    <3>2. PICK k \in DOMAIN s : k = j + Len(q)
      BY <1>1
    <3> QED BY <1>1, <3>1, <3>2 DEF FirstOf
  <2> QED BY <2>1, <2>2, <2>3
<1>3. ASSUME Distinct(q), Distinct(r), FirstOf(q) \cap FirstOf(r) = {},
             NEW i \in DOMAIN s, NEW j \in DOMAIN s,
             IsFirst(s[i]), IsFirst(s[j]), s[i].local = s[j].local
      PROVE  i = j
  <2>1. CASE i \in DOMAIN q /\ j \in DOMAIN q
    BY <1>1, <1>3, <2>1 DEF Distinct
  <2>2. CASE i \notin DOMAIN q /\ j \notin DOMAIN q
    <3>1. PICK a \in DOMAIN r : a = i - Len(q) /\ s[i] = r[a]
      BY <1>1, <2>2
    <3>2. PICK b \in DOMAIN r : b = j - Len(q) /\ s[j] = r[b]
      BY <1>1, <2>2
    <3>3. a = b
      BY <1>3, <3>1, <3>2 DEF Distinct
    <3> QED BY <1>1, <3>1, <3>2, <3>3
  <2>3. CASE i \in DOMAIN q /\ j \notin DOMAIN q
    <3>1. PICK b \in DOMAIN r : s[j] = r[b]
      BY <1>1, <2>3
    <3>2. s[i].local \in FirstOf(q) /\ s[j].local \in FirstOf(r)
      BY <1>1, <1>3, <2>3, <3>1 DEF FirstOf
    <3> QED BY <1>3, <3>2
  <2>4. CASE i \notin DOMAIN q /\ j \in DOMAIN q
    <3>1. PICK b \in DOMAIN r : s[i] = r[b]
      BY <1>1, <2>4
    <3>2. s[j].local \in FirstOf(q) /\ s[i].local \in FirstOf(r)
      BY <1>1, <1>3, <2>4, <3>1 DEF FirstOf
    <3> QED BY <1>3, <3>2
  <2> QED BY <2>1, <2>2, <2>3, <2>4
<1> QED BY <1>2, <1>3 DEF s, Distinct

LEMMA FirstTaken ==
  ASSUME NEW T, NEW q \in Seq(T), q # <<>>
  PROVE  /\ FirstOf(q) = FirstOf(Tail(q)) \cup (IF IsFirst(Head(q)) THEN {Head(q).local} ELSE {})
         /\ Distinct(q) => Distinct(Tail(q))
         /\ Distinct(q) /\ IsFirst(Head(q)) => Head(q).local \notin FirstOf(Tail(q))
<1> DEFINE t == Tail(q)
<1>1. /\ 1 \in DOMAIN q /\ Head(q) = q[1]
      /\ \A k \in DOMAIN t : k \in Nat /\ k >= 1 /\ k + 1 \in DOMAIN q /\ t[k] = q[k + 1]
      /\ \A k \in DOMAIN q : k # 1 => k - 1 \in DOMAIN t /\ t[k - 1] = q[k]
  BY TailOf
<1> HIDE DEF t
<1>2. ASSUME NEW l \in FirstOf(t) PROVE l \in FirstOf(q)
  <2>1. PICK k \in DOMAIN t : IsFirst(t[k]) /\ t[k].local = l
    BY <1>2 DEF FirstOf
  <2>2. PICK j \in DOMAIN q : j = k + 1
    BY <1>1
  <2> QED BY <1>1, <2>1, <2>2 DEF FirstOf
<1>3. ASSUME NEW l \in FirstOf(q)
      PROVE  l \in FirstOf(t) \/ (IsFirst(Head(q)) /\ l = Head(q).local)
  <2>1. PICK k \in DOMAIN q : IsFirst(q[k]) /\ q[k].local = l
    BY <1>3 DEF FirstOf
  <2>2. CASE k = 1
    BY <1>1, <2>1, <2>2
  <2>3. CASE k # 1
    <3>1. PICK j \in DOMAIN t : j = k - 1
      BY <1>1, <2>3
    <3> QED BY <1>1, <2>1, <2>3, <3>1 DEF FirstOf
  <2> QED BY <2>2, <2>3
<1>4. IsFirst(Head(q)) => Head(q).local \in FirstOf(q)
  BY <1>1 DEF FirstOf
<1>5. ASSUME Distinct(q), NEW i \in DOMAIN t, NEW j \in DOMAIN t,
             IsFirst(t[i]), IsFirst(t[j]), t[i].local = t[j].local
      PROVE  i = j
  <2>1. PICK a \in DOMAIN q : a = i + 1 /\ t[i] = q[a]
    BY <1>1
  <2>2. PICK b \in DOMAIN q : b = j + 1 /\ t[j] = q[b]
    BY <1>1
  <2>3. a = b
    BY <1>5, <2>1, <2>2 DEF Distinct
  <2> QED BY <1>1, <2>1, <2>2, <2>3
<1>6. ASSUME Distinct(q), IsFirst(Head(q)), Head(q).local \in FirstOf(t) PROVE FALSE
  <2>1. PICK k \in DOMAIN t : IsFirst(t[k]) /\ t[k].local = Head(q).local
    BY <1>6 DEF FirstOf
  <2>2. PICK j \in DOMAIN q : j = k + 1 /\ t[k] = q[j]
    BY <1>1
  <2>3. j = 1
    BY <1>1, <1>6, <2>1, <2>2 DEF Distinct
  <2> QED BY <1>1, <2>2, <2>3
<1> QED BY <1>2, <1>3, <1>4, <1>5, <1>6 DEF t, Distinct

-----------------------------------------------------------------------------
(* The proxy: what a step does to the calls and answers under way.           *)

Answers == [op : {"watched"}, local : Locals, remote : Nat \ {0}, first : BOOLEAN]

ProxyTypes ==
  /\ connection \in 0 .. MaxConnections /\ isOpen \in BOOLEAN
  /\ connectionPromise \in {0, connection}
  /\ waiting \in Seq(Calls) /\ requests \in Seq(Calls) /\ answers \in Seq(Answers)
  /\ initialized \in BOOLEAN

\* What is sent, or waits, goes with the connection; the first one initializes.
LinkOK ==
  /\ connectionPromise = IF isOpen THEN connection ELSE 0
  /\ isOpen => connection > 0 /\ waiting = <<>>
  /\ ~isOpen => requests = <<>> /\ answers = <<>>
  /\ initialized <=> connection > 0

\* A local id is asked for, or answered, for the first time only once.
AskedOnce ==
  /\ Distinct(waiting) /\ Distinct(requests) /\ Distinct(answers)
  /\ FirstOf(requests) \cap FirstOf(answers) = {}

ProxyOK == ProxyTypes /\ LinkOK /\ AskedOnce

FirstCalls == FirstOf(waiting) \cup FirstOf(requests) \cup FirstOf(answers)
Pending == ToSet(waiting) \cup ToSet(requests)

LEMMA Nothing ==
  ASSUME NEW T
  PROVE  /\ <<>> \in Seq(T) /\ FirstOf(<<>>) = {} /\ Distinct(<<>>) /\ ToSet(<<>>) = {}
         /\ \A q \in Seq(T) : q \o <<>> = q /\ <<>> \o q = q
BY DEF FirstOf, Distinct, ToSet

\* Calls made by the browser.
LEMMA CallStep ==
  ASSUME ProxyOK, NEW cs \in Seq(Calls), Distinct(cs), FirstOf(cs) \cap FirstCalls = {},
         Call(cs), UNCHANGED <<connection, isOpen, connectionPromise, answers, initialized>>
  PROVE  /\ ProxyOK'
         /\ FirstCalls' = FirstCalls \cup FirstOf(cs) /\ Pending' = Pending \cup ToSet(cs)
<1>1. /\ waiting \in Seq(Calls) /\ requests \in Seq(Calls)
      /\ isOpen <=> connectionPromise # 0
      /\ isOpen => waiting = <<>>
      /\ ~isOpen => requests = <<>> /\ answers = <<>>
  BY DEF ProxyOK, ProxyTypes, LinkOK
<1>2. CASE isOpen
  <2>1. requests' = requests \o cs /\ waiting' = waiting
    BY <1>1, <1>2 DEF Call
  <2>2. /\ requests' \in Seq(Calls) /\ FirstOf(requests') = FirstOf(requests) \cup FirstOf(cs)
        /\ ToSet(requests') = ToSet(requests) \cup ToSet(cs)
    BY <1>1, <2>1, FirstAppended, AppendedAt, ToSetOf
  <2>3. FirstOf(requests) \cap FirstOf(cs) = {} /\ Distinct(requests)
    BY DEF FirstCalls, ProxyOK, AskedOnce
  <2>4. Distinct(requests')
    BY <1>1, <2>1, <2>3, FirstAppended
  <2>5. ProxyTypes' /\ LinkOK'
    BY <1>1, <1>2, <2>1, <2>2 DEF ProxyOK, ProxyTypes, LinkOK
  <2> QED BY <2>1, <2>2, <2>4, <2>5 DEF ProxyOK, AskedOnce, FirstCalls, Pending
<1>3. CASE ~isOpen
  <2>1. waiting' = waiting \o cs /\ requests' = requests
    BY <1>1, <1>3 DEF Call
  <2>2. /\ waiting' \in Seq(Calls) /\ FirstOf(waiting') = FirstOf(waiting) \cup FirstOf(cs)
        /\ ToSet(waiting') = ToSet(waiting) \cup ToSet(cs)
    BY <1>1, <2>1, FirstAppended, AppendedAt, ToSetOf
  <2>3. FirstOf(waiting) \cap FirstOf(cs) = {} /\ Distinct(waiting)
    BY DEF FirstCalls, ProxyOK, AskedOnce
  <2>4. Distinct(waiting')
    BY <1>1, <2>1, <2>3, FirstAppended
  <2>5. ProxyTypes' /\ LinkOK'
    BY <1>1, <1>3, <2>1, <2>2 DEF ProxyOK, ProxyTypes, LinkOK
  <2> QED BY <2>1, <2>2, <2>4, <2>5 DEF ProxyOK, AskedOnce, FirstCalls, Pending
<1> QED BY <1>2, <1>3

LEMMA AnswersAppended ==
  \A q, r \in Seq(Answers) :
    ToSet(q \o r) = ToSet(q) \cup ToSet(r) /\ FirstOf(q \o r) = FirstOf(q) \cup FirstOf(r)
BY ToSetOf, FirstAppended

LEMMA CallsAppended ==
  \A q, r \in Seq(Calls) :
    ToSet(q \o r) = ToSet(q) \cup ToSet(r) /\ FirstOf(q \o r) = FirstOf(q) \cup FirstOf(r)
BY ToSetOf, FirstAppended

\* A request handled by the server, whose answer is a first one only if the call is.
LEMMA ServeStep ==
  ASSUME ProxyOK, NEW sent \in Seq(Answers), Distinct(sent), Serve(sent), UNCHANGED initialized,
         FirstOf(sent) = IF IsFirst(Head(requests)) THEN {Head(requests).local} ELSE {}
  PROVE  /\ ProxyOK' /\ isOpen /\ connection > 0 /\ Head(requests) \in Calls
         /\ FirstCalls' = FirstCalls /\ Pending = {Head(requests)} \cup Pending'
         /\ ToSet(answers') = ToSet(answers) \cup ToSet(sent)
<1>1. /\ requests \in Seq(Calls) /\ requests # <<>> /\ answers \in Seq(Answers)
      /\ requests' = Tail(requests) /\ answers' = answers \o sent
      /\ isOpen /\ connection > 0 /\ waiting' = waiting
      /\ UNCHANGED <<connection, isOpen, connectionPromise, initialized>>
  BY DEF ProxyOK, ProxyTypes, LinkOK, Serve
<1>2. /\ requests' \in Seq(Calls) /\ Head(requests) \in Calls
      /\ answers' \in Seq(Answers)
      /\ ToSet(requests) = {Head(requests)} \cup ToSet(requests')
      /\ ToSet(answers') = ToSet(answers) \cup ToSet(sent)
  <2>1. requests' \in Seq(Calls) /\ Head(requests) \in Calls
    BY <1>1, TailOf
  <2>2. answers' \in Seq(Answers)
    BY <1>1, AppendedAt
  <2>3. ToSet(requests) = {Head(requests)} \cup ToSet(requests')
    BY <1>1, ToSetOf
  <2>4. ToSet(answers') = ToSet(answers) \cup ToSet(sent)
    BY <1>1, AnswersAppended
  <2> QED BY <2>1, <2>2, <2>3, <2>4
<1>3. /\ FirstOf(requests) = FirstOf(requests') \cup FirstOf(sent)
      /\ Distinct(requests) => Distinct(requests') /\ FirstOf(requests') \cap FirstOf(sent) = {}
  BY <1>1, FirstTaken
<1>4. /\ FirstOf(answers') = FirstOf(answers) \cup FirstOf(sent)
      /\ FirstOf(answers) \cap FirstOf(sent) = {} /\ Distinct(answers) => Distinct(answers')
  <2>1. FirstOf(answers \o sent) = FirstOf(answers) \cup FirstOf(sent)
    BY <1>1, AnswersAppended
  <2>2. FirstOf(answers) \cap FirstOf(sent) = {} /\ Distinct(answers) => Distinct(answers \o sent)
    BY <1>1, FirstAppended
  <2> QED BY <1>1, <2>1, <2>2
<1>5. /\ Distinct(requests) /\ Distinct(answers)
      /\ FirstOf(requests) \cap FirstOf(answers) = {}
  BY DEF ProxyOK, AskedOnce
<1>6. AskedOnce' /\ FirstCalls' = FirstCalls
  BY <1>1, <1>3, <1>4, <1>5 DEF ProxyOK, AskedOnce, FirstCalls
<1>7. ProxyTypes' /\ LinkOK'
  <2>1. /\ connection' = connection /\ isOpen' = isOpen /\ initialized' = initialized
        /\ connectionPromise' = connectionPromise /\ waiting' = waiting
    BY <1>1
  <2>2. ProxyTypes'
    BY <1>2, <2>1 DEF ProxyOK, ProxyTypes
  <2>3. LinkOK'
    BY <1>1, <2>1 DEF ProxyOK, LinkOK
  <2> QED BY <2>2, <2>3
<1> QED BY <1>1, <1>2, <1>6, <1>7 DEF ProxyOK, Pending

\* An answer handled by the browser.
LEMMA AnswerStep ==
  ASSUME ProxyOK, answers # <<>>, answers' = Tail(answers),
         UNCHANGED <<connection, isOpen, connectionPromise, waiting, requests, initialized>>
  PROVE  /\ ProxyOK' /\ Head(answers) \in Answers /\ Head(answers) \in ToSet(answers)
         /\ ToSet(answers) = {Head(answers)} \cup ToSet(answers')
         /\ FirstCalls = FirstCalls' \cup
              (IF Head(answers).first THEN {Head(answers).local} ELSE {})
         /\ Head(answers).first => Head(answers).local \notin FirstCalls'
         /\ Pending' = Pending
<1>1. answers \in Seq(Answers) /\ waiting = <<>>
  BY DEF ProxyOK, ProxyTypes, LinkOK
<1>2. /\ answers' \in Seq(Answers) /\ Head(answers) \in Answers
      /\ ToSet(answers) = {Head(answers)} \cup ToSet(answers')
  BY <1>1, TailOf, ToSetOf
<1>3. IsFirst(Head(answers)) <=> Head(answers).first
  BY <1>2 DEF IsFirst, Answers
<1>4. /\ FirstOf(answers) = FirstOf(answers') \cup
            (IF Head(answers).first THEN {Head(answers).local} ELSE {})
      /\ Distinct(answers) => Distinct(answers')
      /\ Distinct(answers) /\ Head(answers).first => Head(answers).local \notin FirstOf(answers')
  BY <1>1, <1>3, FirstTaken
<1>5. /\ Distinct(waiting) /\ Distinct(requests) /\ Distinct(answers)
      /\ FirstOf(requests) \cap FirstOf(answers) = {} /\ FirstOf(waiting) = {}
  BY <1>1, Nothing DEF ProxyOK, AskedOnce
<1>6. ProxyTypes' /\ LinkOK'
  BY <1>1, <1>2 DEF ProxyOK, ProxyTypes, LinkOK
<1>7. waiting' = waiting /\ requests' = requests
  OBVIOUS
<1>8. AskedOnce'
  BY <1>4, <1>5, <1>7 DEF AskedOnce
<1>9. FirstCalls = FirstOf(requests) \cup FirstOf(answers)
      /\ FirstCalls' = FirstOf(requests) \cup FirstOf(answers')
  BY <1>5, <1>7 DEF FirstCalls
<1>10. /\ FirstCalls = FirstCalls' \cup
              (IF Head(answers).first THEN {Head(answers).local} ELSE {})
       /\ Head(answers).first => Head(answers).local \notin FirstCalls'
  BY <1>4, <1>5, <1>9
<1> QED BY <1>2, <1>6, <1>7, <1>8, <1>10 DEF ProxyOK, Pending

\* A new connection.
LEMMA ListenStep ==
  ASSUME ProxyOK, NEW cs \in Seq(Calls), FirstOf(cs) = {}, Distinct(cs), Listen(cs),
         initialized' = TRUE, ProxyAssumption
  PROVE  /\ ProxyOK' /\ isOpen' /\ FirstCalls' = FirstCalls /\ Pending' = Pending \cup ToSet(cs)
<1>1. /\ ~isOpen /\ connection \in 0 .. MaxConnections /\ connection < MaxConnections
      /\ connection' = connection + 1 /\ isOpen' = TRUE /\ connectionPromise' = connection + 1
      /\ waiting' = <<>> /\ requests' = waiting \o cs /\ answers' = answers
      /\ waiting \in Seq(Calls) /\ requests = <<>> /\ answers = <<>>
  BY DEF ProxyOK, ProxyTypes, LinkOK, Listen
<1>2. /\ requests' \in Seq(Calls) /\ FirstOf(requests') = FirstOf(waiting)
      /\ ToSet(requests') = ToSet(waiting) \cup ToSet(cs)
  <2>1. requests' \in Seq(Calls)
    BY <1>1, AppendedAt
  <2>2. FirstOf(waiting \o cs) = FirstOf(waiting) \cup FirstOf(cs)
    BY <1>1, FirstAppended
  <2>3. ToSet(waiting \o cs) = ToSet(waiting) \cup ToSet(cs)
    BY <1>1, ToSetOf
  <2> QED BY <1>1, <2>1, <2>2, <2>3
<1>3. Distinct(waiting) => Distinct(requests')
  BY <1>1, FirstAppended
<1>4. ProxyTypes' /\ LinkOK'
  BY <1>1, <1>2, Nothing DEF ProxyTypes, LinkOK, ProxyAssumption
<1>5. AskedOnce'
  BY <1>1, <1>2, <1>3, Nothing DEF ProxyOK, AskedOnce
<1>6. FirstCalls' = FirstCalls /\ Pending' = Pending \cup ToSet(cs)
  BY <1>1, <1>2, Nothing DEF FirstCalls, Pending
<1> QED BY <1>1, <1>4, <1>5, <1>6 DEF ProxyOK

\* The connection breaks.
LEMMA BreakStep ==
  ASSUME ProxyOK, Break, UNCHANGED initialized
  PROVE  /\ ProxyOK' /\ isOpen /\ ~isOpen' /\ connection > 0
         /\ FirstCalls' = {} /\ Pending' = {} /\ answers' = <<>>
<1>1. /\ isOpen /\ isOpen' = FALSE /\ connectionPromise' = 0 /\ requests' = <<>>
      /\ answers' = <<>> /\ connection' = connection /\ waiting' = waiting /\ waiting = <<>>
      /\ connection > 0 /\ connection \in 0 .. MaxConnections
  BY DEF ProxyOK, ProxyTypes, LinkOK, Break
<1>2. ProxyTypes' /\ LinkOK'
  BY <1>1, Nothing DEF ProxyOK, ProxyTypes, LinkOK
<1>3. AskedOnce' /\ FirstCalls' = {} /\ Pending' = {}
  BY <1>1, Nothing DEF AskedOnce, FirstCalls, Pending
<1> QED BY <1>1, <1>2, <1>3 DEF ProxyOK

-----------------------------------------------------------------------------
(* Sets of local ids, and of watchers.                                       *)

LEMMA Sizes ==
  /\ IsFiniteSet(Handles) /\ Cardinality(Handles) \in Nat /\ NoHandle \notin Handles
  /\ MaxRestarts \in Nat /\ Cardinality(Handles) * (1 + MaxRestarts) \in Nat
  /\ \A l \in Locals : l \in Int
  /\ \A S \in SUBSET Locals : S \in SUBSET Int /\ IsFiniteSet(S)
<1>1. IsFiniteSet(Handles) /\ Cardinality(Handles) \in Nat /\ NoHandle \notin Handles
  BY WatchingAssumption, FS_CardinalityType
<1>2. MaxRestarts \in Nat
  BY WatchingAssumption
<1> DEFINE most == Cardinality(Handles) * (1 + MaxRestarts)
<1>3. most \in Nat
  BY <1>1, <1>2
<1> HIDE DEF most
<1>4. IsFiniteSet(1 .. most)
  BY <1>3, FS_Interval
<1>5. \A S \in SUBSET (1 .. most) : S \in SUBSET Int /\ IsFiniteSet(S)
  <2>1. ASSUME NEW S \in SUBSET (1 .. most) PROVE IsFiniteSet(S)
    BY <1>4, <2>1, FS_Subset
  <2>2. 1 .. most \subseteq Int
    BY <1>3
  <2> QED BY <2>1, <2>2
<1>6. \A l \in 1 .. most : l \in Int
  BY <1>3
<1> QED BY <1>1, <1>2, <1>3, <1>5, <1>6 DEF most, Locals

LEMMA AscendingLocals ==
  ASSUME NEW S \in SUBSET Locals
  PROVE  /\ Ascending(S) \in Seq(S) /\ Len(Ascending(S)) = Cardinality(S)
         /\ DOMAIN Ascending(S) = 1 .. Cardinality(S)
         /\ Cardinality(S) \in Nat /\ ToSet(Ascending(S)) = S
         /\ \A i, j \in 1 .. Cardinality(S) : Ascending(S)[i] = Ascending(S)[j] => i = j
<1>1. S \in SUBSET Int /\ IsFiniteSet(S)
  BY Sizes
<1>2. DOMAIN Ascending(S) = 1 .. Cardinality(S)
  BY DEF Ascending
<1> QED BY <1>1, <1>2, AscendingLists

LEMMA LatestFirstLocals ==
  ASSUME NEW S \in SUBSET Locals
  PROVE  /\ LatestFirst(S) \in Seq(S) /\ Len(LatestFirst(S)) = Cardinality(S)
         /\ DOMAIN LatestFirst(S) = 1 .. Cardinality(S) /\ Cardinality(S) \in Nat
         /\ \A i, j \in 1 .. Cardinality(S) : LatestFirst(S)[i] = LatestFirst(S)[j] => i = j
<1> DEFINE n == Cardinality(S)
           asc == Ascending(S)
           rev == LatestFirst(S)
<1>1. /\ asc \in Seq(S) /\ Len(asc) = n /\ n \in Nat /\ DOMAIN asc = 1 .. n
      /\ \A i, j \in 1 .. n : asc[i] = asc[j] => i = j
  BY AscendingLocals
<1>2. rev = [i \in 1 .. Len(asc) |-> asc[(Len(asc) - i) + 1]]
  BY DEF LatestFirst, Reverse
<1> HIDE DEF asc, n, rev
<1>3. rev = [i \in 1 .. n |-> asc[(n - i) + 1]]
  BY <1>1, <1>2
<1>4. \A i \in 1 .. n : (n - i) + 1 \in 1 .. n
  BY <1>1
<1>5. \A i \in 1 .. n : rev[i] \in S
  <2>1. \A i \in 1 .. n : asc[i] \in S
    BY <1>1
  <2> QED BY <1>3, <1>4, <2>1
<1>6. rev \in Seq(S) /\ Len(rev) = n /\ DOMAIN rev = 1 .. n
  BY <1>1, <1>3, <1>5
<1>7. \A i, j \in 1 .. n : rev[i] = rev[j] => i = j
  <2>1. ASSUME NEW i \in 1 .. n, NEW j \in 1 .. n, rev[i] = rev[j] PROVE i = j
    <3>1. asc[(n - i) + 1] = asc[(n - j) + 1]
      BY <1>3, <2>1
    <3>2. (n - i) + 1 = (n - j) + 1
      BY <1>1, <1>4, <3>1
    <3> QED BY <1>1, <3>2
  <2> QED BY <2>1
<1> QED BY <1>1, <1>6, <1>7 DEF rev, n

LEMMA ImageFinite ==
  ASSUME NEW S, IsFiniteSet(S), NEW f, DOMAIN f = S
  PROVE  IsFiniteSet({f[x] : x \in S})
<1> DEFINE g == [x \in S |-> f[x]]
           R == {f[x] : x \in S}
<1>1. g \in Surjection(S, R)
  BY DEF Surjection
<1> HIDE DEF g, R
<1>2. IsFiniteSet(R)
  BY <1>1, FS_Surjection
<1> QED BY <1>2 DEF R

\* Disposing of some watchers leaves as many, with their connections and names.
SameButState(w, v) == w.connection = v.connection /\ w.id = v.id /\ w.local = v.local

LEMMA UnwatchCallsSent ==
  ASSUME localToRemote \in [Locals -> Nat], NEW ls \in SUBSET Locals
  PROVE  /\ UnwatchCalls(ls) \in Seq(Calls)
         /\ FirstOf(UnwatchCalls(ls)) = {} /\ Distinct(UnwatchCalls(ls))
         /\ \A c \in ToSet(UnwatchCalls(ls)) : c.op = "unwatch" /\ c.by \in ls
<1> DEFINE S == {l \in ls : localToRemote[l] # 0}
           m == LatestFirst(S)
           u == UnwatchCalls(ls)
<1>1. S \in SUBSET Locals /\ S \subseteq ls
  OBVIOUS
<1>2. /\ m \in Seq(S) /\ Len(m) = Cardinality(S) /\ Cardinality(S) \in Nat
      /\ DOMAIN m = 1 .. Cardinality(S)
  BY <1>1, LatestFirstLocals
<1>3. u = [i \in DOMAIN m |-> UnwatchCall(localToRemote[m[i]], m[i])]
  BY DEF UnwatchCalls
<1>4. \A l \in S : localToRemote[l] \in Nat \ {0} /\ l \in ls /\ l \in Locals
  OBVIOUS
<1> HIDE DEF S, m, u
<1>5. \A i \in DOMAIN m : m[i] \in S
  BY <1>2
<1>6. \A i \in DOMAIN m : u[i] \in Calls /\ u[i].op = "unwatch" /\ u[i].by \in ls
  BY <1>3, <1>4, <1>5 DEF UnwatchCall, Calls
<1>7. u \in Seq(Calls) /\ DOMAIN u = DOMAIN m
  <2>1. DOMAIN u = DOMAIN m /\ u = [i \in DOMAIN m |-> u[i]]
    BY <1>3
  <2>2. u \in [DOMAIN m -> Calls]
    BY <1>6, <2>1
  <2>3. \E k \in Nat : DOMAIN m = 1 .. k
    BY <1>2
  <2> QED BY <2>1, <2>2, <2>3
<1>8. FirstOf(u) = {} /\ Distinct(u)
  BY <1>6, <1>7 DEF FirstOf, Distinct, IsFirst
<1>9. \A c \in ToSet(u) : c.op = "unwatch" /\ c.by \in ls
  BY <1>6, <1>7 DEF ToSet
<1> QED BY <1>7, <1>8, <1>9 DEF u

LEMMA WatchCallIs ==
  \A l \in Locals :
    /\ WatchCall(l, TRUE) \in Calls /\ WatchCall(l, TRUE).op = "watch"
    /\ WatchCall(l, TRUE).local = l /\ IsFirst(WatchCall(l, TRUE))
    /\ WatchCall(l, FALSE) \in Calls /\ WatchCall(l, FALSE).op = "watch"
    /\ WatchCall(l, FALSE).local = l /\ ~IsFirst(WatchCall(l, FALSE))
BY DEF WatchCall, Calls, IsFirst

-----------------------------------------------------------------------------
(* The types.  A local id is given to a handle that nobody used, or to one   *)
(* that is restarted, of which each handle has one: so there is always one.  *)

LocalTypes ==
  /\ handle \in [Handles -> {"none", "asked", "held", "failed", "disposed"}]
  /\ toStop \in [Handles -> SUBSET Locals] /\ toRestartAll \in SUBSET Locals
  /\ watcherSequence \in Nat \ {0} /\ watchParams \in SUBSET Locals
  /\ localToRemote \in [Locals -> Nat] /\ owner \in [Locals -> Handles \cup {NoHandle}]
  /\ exists \in [Handles -> BOOLEAN] /\ restarts \in 0 .. MaxRestarts

Watchers == [connection : 1 .. MaxConnections, id : Nat \ {0}, local : Locals,
             state : WatcherStates]
WatchersOK == watchers \subseteq Watchers /\ IsFiniteSet(watchers) /\ stolen \in SUBSET Locals

\* The local ids that were asked for and are not restarted yet.
Current == FirstCalls \cup toRestartAll

OwnersOK ==
  /\ FirstCalls \cap toRestartAll = {}
  /\ \A l \in Current : l < watcherSequence /\ owner[l] \in Handles /\ handle[owner[l]] # "none"
  /\ \A k, l \in Current : owner[k] = owner[l] => k = l

UsedHandles == {h \in Handles : handle[h] # "none"}
\* What restarts took.
Retaken(n) == Cardinality(Handles) * n
Counted == watcherSequence <= 1 + Cardinality(UsedHandles) + Retaken(restarts)

ClientOK == LocalTypes /\ OwnersOK /\ Counted

LEMMA CurrentLocal ==
  ASSUME ProxyOK, LocalTypes
  PROVE  FirstCalls \subseteq Locals /\ Current \subseteq Locals
<1>1. /\ waiting \in Seq(Calls) /\ requests \in Seq(Calls) /\ answers \in Seq(Answers)
      /\ toRestartAll \subseteq Locals
  BY DEF ProxyOK, ProxyTypes, LocalTypes
<1>2. ASSUME NEW q \in Seq(Calls), NEW l \in FirstOf(q) PROVE l \in Locals
  <2>1. PICK i \in DOMAIN q : IsFirst(q[i]) /\ q[i].local = l
    BY <1>2 DEF FirstOf
  <2>2. q[i] \in Calls /\ q[i].op # "unwatch"
    BY <1>2, <2>1 DEF IsFirst
  <2> QED BY <2>1, <2>2 DEF Calls
<1>3. ASSUME NEW q \in Seq(Answers), NEW l \in FirstOf(q) PROVE l \in Locals
  <2>1. PICK i \in DOMAIN q : q[i].local = l
    BY <1>3 DEF FirstOf
  <2>2. q[i] \in Answers
    BY <1>3, <2>1
  <2> QED BY <2>1, <2>2 DEF Answers
<1> QED BY <1>1, <1>2, <1>3 DEF FirstCalls, Current

LEMMA RetakenGrows ==
  ASSUME NEW n \in Nat
  PROVE  /\ Retaken(n) \in Nat /\ Retaken(n + 1) = Retaken(n) + Cardinality(Handles)
         /\ \A m \in Nat : n <= m => Retaken(n) <= Retaken(m)
         /\ Retaken(1 + n) = Retaken(n) + Cardinality(Handles)
<1> DEFINE N == Cardinality(Handles)
<1>1. N \in Nat
  BY Sizes
<1> HIDE DEF N
<1>2. N * n \in Nat /\ N * (n + 1) = N * n + N /\ N * (1 + n) = N * n + N
  BY <1>1
<1>3. ASSUME NEW m \in Nat, n <= m PROVE N * n <= N * m
  <2>1. PICK d \in Nat : m = n + d
    <3>1. m - n \in Nat /\ m = n + (m - n)
      BY <1>3
    <3> QED BY <3>1
  <2>2. N * m = N * n + N * d /\ N * d \in Nat
    BY <1>1, <2>1
  <2> QED BY <1>2, <2>2
<1> QED BY <1>2, <1>3 DEF N, Retaken

LEMMA UsedSize ==
  ASSUME LocalTypes
  PROVE  /\ Cardinality(UsedHandles) \in Nat /\ IsFiniteSet(UsedHandles)
         /\ Cardinality(UsedHandles) <= Cardinality(Handles)
         /\ \A h \in Handles : handle[h] = "none" =>
              /\ Cardinality(UsedHandles \cup {h}) = Cardinality(UsedHandles) + 1
              /\ Cardinality(UsedHandles) + 1 <= Cardinality(Handles)
<1>1. UsedHandles \in SUBSET Handles
  BY DEF UsedHandles
<1>2. IsFiniteSet(Handles) /\ Cardinality(Handles) \in Nat
  BY Sizes
<1>3. /\ IsFiniteSet(UsedHandles) /\ Cardinality(UsedHandles) <= Cardinality(Handles)
      /\ Cardinality(UsedHandles) \in Nat
  BY <1>1, <1>2, FS_Subset, FS_CardinalityType
<1>4. ASSUME NEW h \in Handles, handle[h] = "none"
      PROVE  /\ Cardinality(UsedHandles \cup {h}) = Cardinality(UsedHandles) + 1
             /\ Cardinality(UsedHandles) + 1 <= Cardinality(Handles)
  <2>1. h \notin UsedHandles
    BY <1>4 DEF UsedHandles
  <2>2. Cardinality(UsedHandles \cup {h}) = Cardinality(UsedHandles) + 1
    BY <1>3, <2>1, FS_AddElement
  <2>3. (UsedHandles \cup {h}) \in SUBSET Handles
    BY <1>1
  <2>4. Cardinality(UsedHandles \cup {h}) <= Cardinality(Handles)
    BY <1>2, <2>3, FS_Subset
  <2> QED BY <2>2, <2>4
<1> QED BY <1>3, <1>4

\* The next n local ids are there.
LEMMA RoomFor ==
  ASSUME LocalTypes, NEW n \in Nat, watcherSequence + n <= 1 + Retaken(1 + MaxRestarts)
  PROVE  \A i \in 1 .. n : watcherSequence + i - 1 \in Locals
<1> DEFINE most == Cardinality(Handles) * (1 + MaxRestarts)
<1>1. most \in Nat /\ Retaken(1 + MaxRestarts) = most /\ Locals = 1 .. most
  BY Sizes DEF Retaken, Locals
<1> HIDE DEF most
<1>2. watcherSequence \in Nat \ {0}
  BY DEF LocalTypes
<1> QED BY <1>1, <1>2

LEMMA WatchKeepsClient ==
  ASSUME ProxyOK, ClientOK, NEW h \in Handles, Watch(h)
  PROVE  /\ ProxyOK' /\ ClientOK' /\ watcherSequence \in Locals
         /\ Pending' = Pending \cup {WatchCall(watcherSequence, TRUE)}
<1>1. /\ LocalTypes /\ OwnersOK /\ Counted
      /\ handle \in [Handles -> {"none", "asked", "held", "failed", "disposed"}]
      /\ watcherSequence \in Nat \ {0} /\ owner \in [Locals -> Handles \cup {NoHandle}]
      /\ restarts \in 0 .. MaxRestarts /\ MaxRestarts \in Nat
  BY Sizes DEF ClientOK, LocalTypes
<1>2. /\ handle[h] = "none" /\ handle' = [handle EXCEPT ![h] = "asked"]
      /\ watcherSequence' = watcherSequence + 1
      /\ watchParams' = watchParams \cup {watcherSequence}
      /\ owner' = [owner EXCEPT ![watcherSequence] = h]
      /\ Call(<<WatchCall(watcherSequence, TRUE)>>)
      /\ UNCHANGED <<connection, isOpen, connectionPromise, answers, initialized>>
      /\ toStop' = toStop /\ toRestartAll' = toRestartAll /\ localToRemote' = localToRemote
      /\ exists' = exists /\ restarts' = restarts
  BY DEF Watch, serverVars
<1>3. /\ Cardinality(UsedHandles \cup {h}) = Cardinality(UsedHandles) + 1
      /\ Cardinality(UsedHandles) + 1 <= Cardinality(Handles)
      /\ Cardinality(UsedHandles) \in Nat /\ Cardinality(Handles) \in Nat
  BY <1>1, <1>2, UsedSize, Sizes
<1>4. /\ Retaken(restarts) \in Nat /\ Retaken(restarts) <= Retaken(MaxRestarts)
      /\ Retaken(1 + MaxRestarts) = Retaken(MaxRestarts) + Cardinality(Handles)
      /\ Retaken(MaxRestarts) \in Nat
  BY <1>1, RetakenGrows
<1>5. watcherSequence <= 1 + Cardinality(UsedHandles) + Retaken(restarts)
  BY <1>1 DEF Counted
<1>6. watcherSequence + 1 <= 1 + Retaken(1 + MaxRestarts)
  BY <1>1, <1>3, <1>4, <1>5
<1>7. watcherSequence \in Locals
  <2>1. \A i \in 1 .. 1 : watcherSequence + i - 1 \in Locals
    BY <1>1, <1>6, RoomFor
  <2> QED BY <1>1, <2>1
<1>8. LocalTypes'
  BY <1>1, <1>2, <1>7 DEF LocalTypes
<1>9. UsedHandles' = UsedHandles \cup {h}
  BY <1>1, <1>2 DEF UsedHandles
<1>10. Counted'
  BY <1>1, <1>2, <1>3, <1>4, <1>5, <1>9 DEF Counted
<1> DEFINE c == WatchCall(watcherSequence, TRUE)
<1>11. /\ c \in Calls /\ c.op = "watch" /\ c.first = TRUE /\ c.local = watcherSequence
  BY <1>7 DEF WatchCall, Calls
<1> HIDE DEF c
<1>12. /\ <<c>> \in Seq(Calls) /\ Distinct(<<c>>) /\ FirstOf(<<c>>) = {watcherSequence}
       /\ ToSet(<<c>>) = {c}
  BY <1>11 DEF Distinct, FirstOf, IsFirst, ToSet
<1>13. \A l \in Current : l \in Locals /\ l \in Int /\ l < watcherSequence /\ l # watcherSequence
  <2>1. \A l \in Current : l \in Locals /\ l \in Int /\ l < watcherSequence
    BY <1>1, CurrentLocal, Sizes DEF OwnersOK
  <2> QED BY <1>1, <2>1
<1>14. FirstOf(<<c>>) \cap FirstCalls = {} /\ watcherSequence \notin Current
  BY <1>12, <1>13 DEF Current
<1>15. ProxyOK' /\ FirstCalls' = FirstCalls \cup {watcherSequence} /\ Pending' = Pending \cup {c}
  BY <1>2, <1>12, <1>14, CallStep DEF c
<1>16. Current' = Current \cup {watcherSequence}
  BY <1>2, <1>15 DEF Current
<1>17. /\ owner'[watcherSequence] = h /\ handle'[h] # "none"
       /\ \A l \in Current : owner'[l] = owner[l] /\ handle'[owner[l]] # "none" /\ owner[l] # h
                             /\ owner[l] \in Handles
  BY <1>1, <1>2, <1>7, <1>13 DEF OwnersOK
<1>18. OwnersOK'
  <2>1. FirstCalls' \cap toRestartAll' = {}
    BY <1>1, <1>2, <1>14, <1>15 DEF OwnersOK, Current
  <2>2. \A l \in Current' :
           l < watcherSequence' /\ owner'[l] \in Handles /\ handle'[owner'[l]] # "none"
    <3>1. ASSUME NEW l \in Current PROVE l < watcherSequence'
      BY <1>1, <1>2, <1>13
    <3>2. watcherSequence < watcherSequence'
      BY <1>1, <1>2
    <3> QED BY <1>16, <1>17, <3>1, <3>2
  <2>3. \A k, l \in Current' : owner'[k] = owner'[l] => k = l
    BY <1>1, <1>16, <1>17 DEF OwnersOK
  <2> QED BY <2>1, <2>2, <2>3 DEF OwnersOK
<1> QED BY <1>7, <1>8, <1>10, <1>15, <1>18 DEF ClientOK, c

\* No local id is given and no handle is used for the first time.
LEMMA SameIds ==
  ASSUME ClientOK, LocalTypes', UNCHANGED <<owner, watcherSequence, restarts>>,
         Current' \subseteq Current, FirstCalls' \cap toRestartAll' = {},
         \A h \in Handles : handle'[h] = "none" <=> handle[h] = "none"
  PROVE  ClientOK'
<1>1. owner' = owner /\ watcherSequence' = watcherSequence /\ restarts' = restarts
  OBVIOUS
<1>2. UsedHandles' = UsedHandles
  BY DEF UsedHandles
<1>3. OwnersOK'
  BY <1>1 DEF ClientOK, OwnersOK
<1>4. Counted'
  BY <1>1, <1>2 DEF ClientOK, Counted
<1> QED BY <1>3, <1>4 DEF ClientOK

LEMMA SilentClient ==
  ASSUME ClientOK, FirstCalls' = FirstCalls,
         UNCHANGED <<clientVars, watcherSequence, watchParams, localToRemote, owner, restarts>>,
         exists' \in [Handles -> BOOLEAN]
  PROVE  ClientOK'
<1>1. /\ handle' = handle /\ toStop' = toStop /\ toRestartAll' = toRestartAll
      /\ watcherSequence' = watcherSequence /\ watchParams' = watchParams
      /\ localToRemote' = localToRemote /\ owner' = owner /\ restarts' = restarts
  BY DEF clientVars
<1>2. LocalTypes' /\ Current' = Current /\ FirstCalls' \cap toRestartAll' = {}
  BY <1>1 DEF ClientOK, LocalTypes, Current, OwnersOK
<1> QED BY <1>1, <1>2, SameIds

LEMMA DisposeKeepsClient ==
  ASSUME ProxyOK, ClientOK, NEW h \in Handles, Dispose(h)
  PROVE  /\ ProxyOK' /\ ClientOK' /\ Pending' = Pending \cup ToSet(UnwatchCalls(toStop[h]))
         /\ toStop[h] \in SUBSET Locals
<1>1. /\ handle[h] = "held" /\ handle' = [handle EXCEPT ![h] = "disposed"]
      /\ toStop' = [toStop EXCEPT ![h] = {}] /\ watchParams' = watchParams \ toStop[h]
      /\ localToRemote' = Unmapped(toStop[h]) /\ Call(UnwatchCalls(toStop[h]))
      /\ UNCHANGED <<connection, isOpen, connectionPromise, answers, initialized>>
      /\ toRestartAll' = toRestartAll /\ watcherSequence' = watcherSequence
      /\ owner' = owner /\ exists' = exists /\ restarts' = restarts
  BY DEF Dispose, serverVars
<1>2. /\ handle \in [Handles -> {"none", "asked", "held", "failed", "disposed"}]
      /\ toStop \in [Handles -> SUBSET Locals] /\ localToRemote \in [Locals -> Nat]
      /\ FirstCalls \cap toRestartAll = {} /\ LocalTypes
  BY DEF ClientOK, LocalTypes, OwnersOK
<1>3. toStop[h] \in SUBSET Locals
  BY <1>2
<1> DEFINE cs == UnwatchCalls(toStop[h])
<1>4. cs \in Seq(Calls) /\ FirstOf(cs) = {} /\ Distinct(cs)
  BY <1>2, <1>3, UnwatchCallsSent
<1> HIDE DEF cs
<1>5. ProxyOK' /\ FirstCalls' = FirstCalls /\ Pending' = Pending \cup ToSet(cs)
  BY <1>1, <1>4, CallStep DEF cs
<1>6. localToRemote' \in [Locals -> Nat]
  BY <1>1, <1>2 DEF Unmapped
<1>7. LocalTypes'
  BY <1>1, <1>2, <1>6 DEF LocalTypes
<1>8. \A k \in Handles : handle'[k] = "none" <=> handle[k] = "none"
  BY <1>1, <1>2
<1>9. ClientOK'
  BY <1>1, <1>2, <1>5, <1>7, <1>8, SameIds DEF Current
<1> QED BY <1>3, <1>5, <1>9 DEF cs

LEMMA AnsweredKeepsClient ==
  ASSUME ProxyOK, ClientOK, Answered
  PROVE  /\ ProxyOK' /\ ClientOK' /\ Pending' = Pending
         /\ Head(answers) \in Answers /\ Head(answers) \in ToSet(answers)
         /\ ToSet(answers) = {Head(answers)} \cup ToSet(answers')
         /\ Head(answers).first => Head(answers).local \in Current
<1> DEFINE a == Head(answers)
           h == owner[a.local]
<1>1. /\ answers # <<>> /\ answers' = Tail(answers) /\ localToRemote' = Mapped(a)
      /\ UNCHANGED <<connection, isOpen, connectionPromise, waiting, requests, initialized>>
      /\ watcherSequence' = watcherSequence /\ watchParams' = watchParams
      /\ owner' = owner /\ exists' = exists /\ restarts' = restarts
      /\ IF a.first
         THEN /\ toStop' = [toStop EXCEPT ![h] = @ \cup {a.local}]
              /\ toRestartAll' = toRestartAll \cup {a.local}
              /\ handle' = [handle EXCEPT ![h] = IF @ = "asked" THEN "held" ELSE @]
         ELSE toStop' = toStop /\ toRestartAll' = toRestartAll /\ handle' = handle
  BY DEF Answered, serverVars, clientVars
<1>2. /\ ProxyOK' /\ Head(answers) \in Answers /\ Head(answers) \in ToSet(answers)
      /\ ToSet(answers) = {Head(answers)} \cup ToSet(answers')
      /\ FirstCalls = FirstCalls' \cup
           (IF Head(answers).first THEN {Head(answers).local} ELSE {})
      /\ Head(answers).first => Head(answers).local \notin FirstCalls'
      /\ Pending' = Pending
  BY <1>1, AnswerStep
<1>3. a \in Answers /\ a.local \in Locals /\ a.remote \in Nat /\ a.first \in BOOLEAN
  BY <1>2 DEF Answers
<1>4. /\ handle \in [Handles -> {"none", "asked", "held", "failed", "disposed"}]
      /\ toStop \in [Handles -> SUBSET Locals] /\ localToRemote \in [Locals -> Nat]
      /\ FirstCalls \cap toRestartAll = {} /\ LocalTypes /\ toRestartAll \subseteq Locals
      /\ \A l \in Current : owner[l] \in Handles
  BY DEF ClientOK, LocalTypes, OwnersOK
<1>5. FirstCalls' \subseteq FirstCalls
  BY <1>2
<1> HIDE DEF a, h
<1>6. localToRemote' \in [Locals -> Nat]
  BY <1>1, <1>3, <1>4 DEF Mapped
<1>7. CASE a.first
  <2>1. a.local \in FirstCalls /\ a.local \notin FirstCalls' /\ h \in Handles
    BY <1>2, <1>4, <1>7 DEF a, h, Current
  <2>2. /\ toStop' = [toStop EXCEPT ![h] = @ \cup {a.local}]
        /\ toRestartAll' = toRestartAll \cup {a.local}
        /\ handle' = [handle EXCEPT ![h] = IF @ = "asked" THEN "held" ELSE @]
    BY <1>1, <1>7
  <2>3. toStop' \in [Handles -> SUBSET Locals]
    BY <1>3, <1>4, <2>1, <2>2
  <2>4. handle' \in [Handles -> {"none", "asked", "held", "failed", "disposed"}]
        /\ \A k \in Handles : handle'[k] = "none" <=> handle[k] = "none"
    BY <1>4, <2>1, <2>2
  <2>5. toRestartAll' \subseteq Locals
    BY <1>3, <1>4, <2>2
  <2>6. LocalTypes'
    BY <1>1, <1>4, <1>6, <2>3, <2>4, <2>5 DEF LocalTypes
  <2>7. Current' \subseteq Current /\ FirstCalls' \cap toRestartAll' = {}
    BY <1>4, <1>5, <2>1, <2>2 DEF Current
  <2>8. ClientOK'
    BY <1>1, <2>4, <2>6, <2>7, SameIds
  <2> QED BY <1>2, <2>1, <2>8 DEF Current, a
<1>8. CASE ~a.first
  <2>1. toStop' = toStop /\ toRestartAll' = toRestartAll /\ handle' = handle
    BY <1>1, <1>8
  <2>2. LocalTypes'
    BY <1>1, <1>4, <1>6, <2>1 DEF LocalTypes
  <2>3. Current' \subseteq Current /\ FirstCalls' \cap toRestartAll' = {}
    BY <1>4, <1>5, <2>1 DEF Current
  <2>4. ClientOK'
    BY <1>1, <2>1, <2>2, <2>3, SameIds
  <2> QED BY <1>2, <1>8, <2>4 DEF a
<1> QED BY <1>3, <1>7, <1>8

\* What RestartAll watches anew, and for whom.
OldIds == LatestFirst(toRestartAll)
NewIds == [i \in DOMAIN OldIds |-> watcherSequence + i - 1]
NewCalls == [i \in DOMAIN NewIds |-> WatchCall(NewIds[i], TRUE)]

LEMMA OldAndNewIds ==
  ASSUME ClientOK, ProxyOK
  PROVE  LET n == Cardinality(toRestartAll)
         IN  /\ n \in Nat /\ n <= Cardinality(Handles)
             /\ DOMAIN OldIds = 1 .. n /\ DOMAIN NewIds = 1 .. n /\ Len(OldIds) = n
             /\ \A i \in 1 .. n : OldIds[i] \in toRestartAll
             /\ \A i, j \in 1 .. n : OldIds[i] = OldIds[j] => i = j
             /\ \A i \in 1 .. n : NewIds[i] = watcherSequence + i - 1
             /\ ToSet(NewIds) = {NewIds[i] : i \in 1 .. n}
<1> DEFINE n == Cardinality(toRestartAll)
<1>1. /\ toRestartAll \in SUBSET Locals /\ watcherSequence \in Nat
      /\ \A l \in Current : owner[l] \in Handles
      /\ \A k, l \in Current : owner[k] = owner[l] => k = l
      /\ toRestartAll \subseteq Current
  BY DEF ClientOK, LocalTypes, OwnersOK, Current
<1>2. /\ OldIds \in Seq(toRestartAll) /\ Len(OldIds) = n /\ n \in Nat /\ DOMAIN OldIds = 1 .. n
      /\ \A i, j \in 1 .. n : OldIds[i] = OldIds[j] => i = j
  BY <1>1, LatestFirstLocals DEF OldIds
<1>3. n <= Cardinality(Handles)
  <2> DEFINE f == [l \in toRestartAll |-> owner[l]]
  <2>1. f \in Injection(toRestartAll, Handles)
    BY <1>1 DEF Injection, IsInjective
  <2> HIDE DEF f
  <2> QED BY <2>1, Sizes, FS_Injection
<1> HIDE DEF n
<1>4. \A i \in 1 .. n : OldIds[i] \in toRestartAll
  BY <1>2
<1>5. DOMAIN NewIds = 1 .. n /\ \A i \in 1 .. n : NewIds[i] = watcherSequence + i - 1
  BY <1>2 DEF NewIds
<1>6. ToSet(NewIds) = {NewIds[i] : i \in 1 .. n}
  BY <1>5 DEF ToSet
<1> QED BY <1>2, <1>3, <1>4, <1>5, <1>6 DEF n

LEMMA RestartTakesIds ==
  ASSUME ClientOK, ProxyOK, RestartAll
  PROVE  /\ \A l \in ToSet(NewIds) : l \in Locals /\ l \in Int /\ l >= watcherSequence
                                     /\ l < watcherSequence + Len(OldIds)
         /\ \A l \in ToSet(NewIds) : /\ l - watcherSequence + 1 \in DOMAIN OldIds
                                     /\ NewIds[l - watcherSequence + 1] = l
         /\ Counted' /\ watcherSequence' = watcherSequence + Len(OldIds)
         /\ watcherSequence' \in Nat \ {0} /\ watcherSequence' >= watcherSequence
<1> DEFINE n == Cardinality(toRestartAll)
<1>1. /\ n \in Nat /\ n <= Cardinality(Handles)
      /\ DOMAIN OldIds = 1 .. n /\ Len(OldIds) = n
      /\ \A i \in 1 .. n : NewIds[i] = watcherSequence + i - 1
      /\ ToSet(NewIds) = {NewIds[i] : i \in 1 .. n}
  BY OldAndNewIds
<1> HIDE DEF n
<1>2. /\ watcherSequence' = watcherSequence + Len(OldIds)
      /\ restarts < MaxRestarts /\ restarts' = restarts + 1 /\ handle' = handle
  BY DEF RestartAll, NewIds, OldIds
<1>3. /\ watcherSequence \in Nat \ {0} /\ restarts \in Nat /\ MaxRestarts \in Nat /\ LocalTypes
      /\ watcherSequence <= 1 + Cardinality(UsedHandles) + Retaken(restarts)
  BY Sizes DEF ClientOK, LocalTypes, Counted
<1>4. /\ Cardinality(UsedHandles) \in Nat /\ Cardinality(UsedHandles) <= Cardinality(Handles)
      /\ Cardinality(Handles) \in Nat
  BY <1>3, UsedSize, Sizes
<1>5. /\ Retaken(restarts) \in Nat /\ Retaken(restarts + 1) = Retaken(restarts) + Cardinality(Handles)
      /\ Retaken(restarts + 1) <= Retaken(MaxRestarts) /\ Retaken(MaxRestarts) \in Nat
      /\ Retaken(1 + MaxRestarts) = Retaken(MaxRestarts) + Cardinality(Handles)
  <2>1. restarts + 1 \in Nat /\ restarts + 1 <= MaxRestarts
    BY <1>2, <1>3
  <2> QED BY <1>3, <2>1, RetakenGrows
<1>6. watcherSequence + n <= 1 + Retaken(1 + MaxRestarts)
  BY <1>1, <1>3, <1>4, <1>5
<1>7. \A i \in 1 .. n : watcherSequence + i - 1 \in Locals
  BY <1>1, <1>3, <1>6, RoomFor
<1>8. ASSUME NEW l \in ToSet(NewIds)
      PROVE  /\ l \in Locals /\ l \in Int /\ l >= watcherSequence
             /\ l < watcherSequence + Len(OldIds)
             /\ l - watcherSequence + 1 \in DOMAIN OldIds
             /\ NewIds[l - watcherSequence + 1] = l
  <2>1. PICK i \in 1 .. n : l = NewIds[i] /\ l = watcherSequence + i - 1
    BY <1>1
  <2>2. l \in Locals
    BY <1>7, <2>1
  <2>3. l - watcherSequence + 1 = i /\ l \in Int /\ l >= watcherSequence /\ l < watcherSequence + n
    BY <1>1, <1>3, <2>1
  <2> QED BY <1>1, <2>1, <2>2, <2>3
<1>9. UsedHandles' = UsedHandles
  BY <1>2 DEF UsedHandles
<1>10. Counted'
  BY <1>1, <1>2, <1>3, <1>4, <1>5, <1>9 DEF Counted
<1>11. watcherSequence' \in Nat \ {0} /\ watcherSequence' >= watcherSequence
  BY <1>1, <1>2, <1>3
<1> QED BY <1>2, <1>8, <1>10, <1>11

LEMMA RestartKeepsClient ==
  ASSUME ProxyOK, ClientOK, RestartAll
  PROVE  /\ ProxyOK' /\ ClientOK' /\ NewCalls \in Seq(Calls)
         /\ Pending' = Pending \cup ToSet(UnwatchCalls(toRestartAll)) \cup ToSet(NewCalls)
         /\ \A l \in ToSet(NewIds) : \E c \in ToSet(NewCalls) : c.op = "watch" /\ c.local = l
         /\ \A c \in ToSet(NewCalls) : c.op = "watch"
<1> DEFINE n == Cardinality(toRestartAll)
           us == UnwatchCalls(toRestartAll)
<1>1. /\ n \in Nat /\ DOMAIN OldIds = 1 .. n /\ DOMAIN NewIds = 1 .. n
      /\ \A i \in 1 .. n : OldIds[i] \in toRestartAll
      /\ \A i, j \in 1 .. n : OldIds[i] = OldIds[j] => i = j
      /\ \A i \in 1 .. n : NewIds[i] = watcherSequence + i - 1
      /\ ToSet(NewIds) = {NewIds[i] : i \in 1 .. n}
  BY OldAndNewIds
<1> HIDE DEF n
<1>2. /\ toRestartAll' = {} /\ toStop' = [h \in Handles |-> toStop[h] \ toRestartAll]
      /\ watchParams' = (watchParams \ toRestartAll) \cup ToSet(NewIds)
      /\ localToRemote' = Unmapped(toRestartAll)
      /\ owner' = [l \in Locals |-> IF l \in ToSet(NewIds)
                                    THEN owner[OldIds[l - watcherSequence + 1]] ELSE owner[l]]
      /\ Call(us \o NewCalls)
      /\ UNCHANGED <<connection, isOpen, connectionPromise, answers, initialized>>
      /\ handle' = handle /\ exists' = exists /\ restarts < MaxRestarts /\ restarts' = restarts + 1
  BY DEF RestartAll, NewIds, OldIds, NewCalls, serverVars
<1>3. /\ handle \in [Handles -> {"none", "asked", "held", "failed", "disposed"}]
      /\ toStop \in [Handles -> SUBSET Locals] /\ toRestartAll \in SUBSET Locals
      /\ watcherSequence \in Nat \ {0} /\ watchParams \in SUBSET Locals
      /\ localToRemote \in [Locals -> Nat] /\ owner \in [Locals -> Handles \cup {NoHandle}]
      /\ exists \in [Handles -> BOOLEAN] /\ restarts \in 0 .. MaxRestarts /\ MaxRestarts \in Nat
      /\ LocalTypes
  BY Sizes DEF ClientOK, LocalTypes
<1>4. /\ \A l \in ToSet(NewIds) : l \in Locals /\ l \in Int /\ l >= watcherSequence
                                  /\ l < watcherSequence'
      /\ \A l \in ToSet(NewIds) : /\ l - watcherSequence + 1 \in 1 .. n
                                  /\ NewIds[l - watcherSequence + 1] = l
      /\ Counted' /\ watcherSequence' \in Nat \ {0} /\ watcherSequence' >= watcherSequence
  BY <1>1, RestartTakesIds
<1>5. /\ FirstCalls \cap toRestartAll = {} /\ toRestartAll \subseteq Current
      /\ FirstCalls \subseteq Current
      /\ \A l \in Current : /\ l \in Locals /\ l \in Int /\ l < watcherSequence
                            /\ owner[l] \in Handles /\ handle[owner[l]] # "none"
      /\ \A k, l \in Current : owner[k] = owner[l] => k = l
  BY <1>3, CurrentLocal, Sizes DEF ClientOK, OwnersOK, Current
\* The calls.
<1>6. /\ us \in Seq(Calls) /\ FirstOf(us) = {} /\ Distinct(us)
  BY <1>3, UnwatchCallsSent
<1>7. /\ NewCalls \in Seq(Calls) /\ Distinct(NewCalls) /\ FirstOf(NewCalls) = ToSet(NewIds)
      /\ \A c \in ToSet(NewCalls) : c.op = "watch"
      /\ \A l \in ToSet(NewIds) : \E c \in ToSet(NewCalls) : c.op = "watch" /\ c.local = l
  <2>1. \A i \in 1 .. n : NewIds[i] \in Locals
    BY <1>1, <1>4
  <2>2. \A i, j \in 1 .. n : NewIds[i] = NewIds[j] => i = j
    BY <1>1, <1>3
  <2>3. NewCalls = [i \in 1 .. n |-> WatchCall(NewIds[i], TRUE)]
    BY <1>1 DEF NewCalls
  <2>4. \A i \in 1 .. n : /\ NewCalls[i] \in Calls /\ NewCalls[i].op = "watch"
                          /\ NewCalls[i].local = NewIds[i] /\ IsFirst(NewCalls[i])
    <3>1. \A i \in 1 .. n : NewCalls[i] = WatchCall(NewIds[i], TRUE)
      BY <2>3
    <3>2. ASSUME NEW i \in 1 .. n
          PROVE  /\ NewCalls[i] \in Calls /\ NewCalls[i].op = "watch"
                 /\ NewCalls[i].local = NewIds[i] /\ IsFirst(NewCalls[i])
      <4>1. NewCalls[i] = WatchCall(NewIds[i], TRUE) /\ NewIds[i] \in Locals
        BY <2>1, <3>1
      <4> DEFINE l == NewIds[i]
      <4> HIDE DEF l
      <4>2. l \in Locals /\ NewCalls[i] = WatchCall(l, TRUE)
        BY <4>1 DEF l
      <4>3. NewCalls[i] \in Calls /\ NewCalls[i].op = "watch" /\ NewCalls[i].local = l /\ IsFirst(NewCalls[i])
        BY <4>2, WatchCallIs
      <4> QED BY <4>3 DEF l
    <3> QED BY <3>2
  <2>5. NewCalls \in [1 .. n -> Calls]
    BY <2>3, <2>4
  <2>6. NewCalls \in Seq(Calls) /\ DOMAIN NewCalls = 1 .. n
    BY <1>1, <2>5
  <2>7. \A c \in ToSet(NewCalls) : c.op = "watch"
    BY <2>4, <2>6 DEF ToSet
  <2>8. \A l \in ToSet(NewIds) : \E c \in ToSet(NewCalls) : c.op = "watch" /\ c.local = l
    <3>1. \A i \in 1 .. n : NewCalls[i] \in ToSet(NewCalls)
      BY <2>6 DEF ToSet
    <3>2. \A l \in ToSet(NewIds) : \E i \in 1 .. n : l = NewIds[i]
      BY <1>1 DEF ToSet
    <3> QED BY <2>4, <3>1, <3>2
  <2>9. Distinct(NewCalls)
    BY <2>2, <2>4, <2>6 DEF Distinct
  <2>10. FirstOf(NewCalls) = ToSet(NewIds)
    BY <1>1, <2>4, <2>6 DEF FirstOf, ToSet
  <2> QED BY <2>6, <2>7, <2>8, <2>9, <2>10
<1> HIDE DEF us
<1>8. /\ us \o NewCalls \in Seq(Calls) /\ FirstOf(us \o NewCalls) = ToSet(NewIds)
      /\ Distinct(us \o NewCalls) /\ ToSet(us \o NewCalls) = ToSet(us) \cup ToSet(NewCalls)
  <2>1. us \o NewCalls \in Seq(Calls)
    BY <1>6, <1>7, AppendedAt
  <2>2. ToSet(us \o NewCalls) = ToSet(us) \cup ToSet(NewCalls)
    BY <1>6, <1>7, CallsAppended
  <2>3. FirstOf(us \o NewCalls) = FirstOf(us) \cup FirstOf(NewCalls)
    BY <1>6, <1>7, CallsAppended
  <2>4. Distinct(us \o NewCalls)
    BY <1>6, <1>7, FirstAppended
  <2> QED BY <1>1, <1>6, <1>7, <2>1, <2>2, <2>3, <2>4
<1>9. \A l \in ToSet(NewIds) : l \notin Current
  BY <1>3, <1>4, <1>5
<1>10. FirstOf(us \o NewCalls) \cap FirstCalls = {}
  BY <1>5, <1>8, <1>9
<1>11. /\ ProxyOK' /\ FirstCalls' = FirstCalls \cup ToSet(NewIds)
       /\ Pending' = Pending \cup (ToSet(us) \cup ToSet(NewCalls))
  <2> DEFINE cs == us \o NewCalls
  <2>1. /\ cs \in Seq(Calls) /\ Distinct(cs) /\ FirstOf(cs) \cap FirstCalls = {} /\ Call(cs)
        /\ FirstOf(cs) = ToSet(NewIds) /\ ToSet(cs) = ToSet(us) \cup ToSet(NewCalls)
    BY <1>2, <1>8, <1>10
  <2> HIDE DEF cs
  <2> QED BY <1>2, <2>1, CallStep
\* The types.
<1>12. localToRemote' \in [Locals -> Nat] /\ toStop' \in [Handles -> SUBSET Locals]
  BY <1>2, <1>3 DEF Unmapped
<1>13. \A l \in ToSet(NewIds) : /\ OldIds[l - watcherSequence + 1] \in toRestartAll
                                /\ owner'[l] = owner[OldIds[l - watcherSequence + 1]]
                                /\ owner'[l] \in Handles /\ handle[owner'[l]] # "none"
  BY <1>1, <1>2, <1>4, <1>5
<1>14. owner' \in [Locals -> Handles \cup {NoHandle}]
  <2>1. \A l \in Locals : owner'[l] \in Handles \cup {NoHandle}
    BY <1>2, <1>3, <1>13
  <2> QED BY <1>2, <2>1
<1>15. LocalTypes'
  <2>1. toRestartAll' \in SUBSET Locals /\ watchParams' \in SUBSET Locals
    BY <1>2, <1>3, <1>4
  <2>2. restarts' \in 0 .. MaxRestarts
    BY <1>2, <1>3
  <2> QED BY <1>2, <1>3, <1>4, <1>12, <1>14, <2>1, <2>2 DEF LocalTypes
\* The owners.
<1>16. Current' = FirstCalls \cup ToSet(NewIds)
  BY <1>2, <1>11 DEF Current
<1>17. \A l \in FirstCalls : owner'[l] = owner[l] /\ l \notin ToSet(NewIds)
  BY <1>2, <1>5, <1>9
<1>18. \A l \in Current' :
         l < watcherSequence' /\ owner'[l] \in Handles /\ handle'[owner'[l]] # "none"
  <2>1. ASSUME NEW l \in FirstCalls
        PROVE  l < watcherSequence' /\ owner'[l] \in Handles /\ handle'[owner'[l]] # "none"
    <3>1. l \in Int /\ l < watcherSequence /\ owner[l] \in Handles /\ handle[owner[l]] # "none"
      BY <1>5
    <3> QED BY <1>2, <1>3, <1>4, <1>17, <3>1
  <2> QED BY <1>2, <1>4, <1>13, <1>16, <2>1
<1>19. ASSUME NEW k \in Current', NEW l \in Current', owner'[k] = owner'[l] PROVE k = l
  <2>1. CASE k \in FirstCalls /\ l \in FirstCalls
    BY <1>5, <1>17, <1>19, <2>1
  <2>2. CASE k \in ToSet(NewIds) /\ l \in ToSet(NewIds)
    <3>1. OldIds[k - watcherSequence + 1] = OldIds[l - watcherSequence + 1]
      BY <1>5, <1>13, <1>19, <2>2
    <3>2. k - watcherSequence + 1 = l - watcherSequence + 1
      BY <1>1, <1>4, <2>2, <3>1
    <3> QED BY <1>4, <2>2, <3>2
  <2>3. ASSUME NEW f \in FirstCalls, NEW g \in ToSet(NewIds), owner'[f] = owner'[g] PROVE FALSE
    <3>1. f = OldIds[g - watcherSequence + 1]
      BY <1>5, <1>13, <1>17, <2>3
    <3> QED BY <1>5, <1>13, <2>3, <3>1
  <2> QED BY <1>16, <1>19, <2>1, <2>2, <2>3
<1>20. OwnersOK'
  BY <1>2, <1>18, <1>19 DEF OwnersOK
<1> QED BY <1>4, <1>7, <1>11, <1>15, <1>20 DEF ClientOK, us

LEMMA ReconnectCallsSent ==
  ASSUME LocalTypes
  PROVE  /\ ReconnectCalls \in Seq(Calls) /\ FirstOf(ReconnectCalls) = {}
         /\ Distinct(ReconnectCalls) /\ \A c \in ToSet(ReconnectCalls) : c.op = "watch"
         /\ initialized => \A l \in watchParams :
              \E c \in ToSet(ReconnectCalls) : c.op = "watch" /\ c.local = l
<1> DEFINE w == Ascending(watchParams)
           n == Cardinality(watchParams)
           q == ReconnectCalls
<1>1. watchParams \in SUBSET Locals
  BY DEF LocalTypes
<1>2. /\ w \in Seq(watchParams) /\ DOMAIN w = 1 .. n /\ n \in Nat /\ ToSet(w) = watchParams
  BY <1>1, AscendingLocals
<1>3. CASE ~initialized
  <2>1. q = <<>>
    BY <1>3 DEF ReconnectCalls
  <2> QED BY <1>3, <2>1, Nothing
<1>4. CASE initialized
  <2>1. q = [i \in 1 .. n |-> WatchCall(w[i], FALSE)]
    BY <1>2, <1>4 DEF ReconnectCalls
  <2> HIDE DEF w, q, n
  <2>2. ASSUME NEW i \in 1 .. n
        PROVE  /\ q[i] \in Calls /\ q[i].op = "watch" /\ q[i].local = w[i] /\ ~IsFirst(q[i])
    <3>1. q[i] = WatchCall(w[i], FALSE) /\ w[i] \in Locals
      BY <1>1, <1>2, <2>1
    <3> DEFINE l == w[i]
    <3> HIDE DEF l
    <3>2. l \in Locals /\ q[i] = WatchCall(l, FALSE)
      BY <3>1 DEF l
    <3>3. q[i] \in Calls /\ q[i].op = "watch" /\ q[i].local = l /\ ~IsFirst(q[i])
      BY <3>2, WatchCallIs
    <3> QED BY <3>3 DEF l
  <2>3. q \in [1 .. n -> Calls]
    BY <2>1, <2>2
  <2>4. q \in Seq(Calls) /\ DOMAIN q = 1 .. n
    BY <1>2, <2>3
  <2>5. FirstOf(q) = {} /\ Distinct(q)
    BY <2>2, <2>4 DEF FirstOf, Distinct
  <2>6. \A c \in ToSet(q) : c.op = "watch"
    BY <2>2, <2>4 DEF ToSet
  <2>7. \A l \in watchParams : \E c \in ToSet(q) : c.op = "watch" /\ c.local = l
    <3>1. \A i \in 1 .. n : q[i] \in ToSet(q)
      BY <2>4 DEF ToSet
    <3>2. \A l \in watchParams : \E i \in 1 .. n : l = w[i]
      BY <1>2 DEF ToSet
    <3> QED BY <2>2, <3>1, <3>2
  <2> QED BY <2>4, <2>5, <2>6, <2>7 DEF q
<1> QED BY <1>3, <1>4

LEMMA ConnectKeepsClient ==
  ASSUME ProxyOK, ClientOK, Connect
  PROVE  /\ ProxyOK' /\ ClientOK' /\ isOpen' /\ Pending' = Pending \cup ToSet(ReconnectCalls)
<1> DEFINE cs == ReconnectCalls
<1>1. cs \in Seq(Calls) /\ FirstOf(cs) = {} /\ Distinct(cs)
  BY ReconnectCallsSent DEF ClientOK
<1>2. /\ Listen(cs) /\ initialized' = TRUE
      /\ UNCHANGED <<clientVars, watcherSequence, watchParams, localToRemote, owner, restarts>>
      /\ exists' = exists
  BY DEF Connect, serverVars
<1> HIDE DEF cs
<1>3. /\ ProxyOK' /\ isOpen' /\ FirstCalls' = FirstCalls /\ Pending' = Pending \cup ToSet(cs)
  BY <1>1, <1>2, ListenStep, ProxyAssumption
<1>4. ClientOK'
  BY <1>2, <1>3, SilentClient DEF ClientOK, LocalTypes
<1> QED BY <1>3, <1>4 DEF cs

\* What the server answers a watch call.
ServedAnswer ==
  [op |-> "watched", local |-> Head(requests).local, remote |-> Cardinality(Ids) + 1,
   first |-> Head(requests).first]

LEMMA IdsFinite ==
  ASSUME WatchersOK
  PROVE  IsFiniteSet(Ids) /\ Cardinality(Ids) + 1 \in Nat \ {0}
<1> DEFINE own == {v \in watchers : v.connection = connection}
           f == [w \in own |-> w.id]
<1>1. IsFiniteSet(own)
  <2>1. own \in SUBSET watchers
    OBVIOUS
  <2> HIDE DEF own
  <2> QED BY <2>1, FS_Subset DEF WatchersOK
<1>2. IsFiniteSet({f[w] : w \in own})
  <2>1. DOMAIN f = own
    OBVIOUS
  <2> HIDE DEF f, own
  <2> QED BY <1>1, <2>1, ImageFinite
<1>3. Ids = {f[w] : w \in own}
  BY DEF Ids
<1>4. IsFiniteSet(Ids)
  BY <1>2, <1>3
<1> QED BY <1>4, FS_CardinalityType

LEMMA ServeWatchKeeps ==
  ASSUME ProxyOK, ClientOK, WatchersOK, ServeWatch
  PROVE  /\ ProxyOK' /\ ClientOK' /\ WatchersOK' /\ isOpen /\ connection > 0
         /\ Head(requests) \in Calls /\ Head(requests).op = "watch"
         /\ Pending = {Head(requests)} \cup Pending'
         /\ ToSet(answers') = ToSet(answers) \cup {ServedAnswer}
         /\ ServedAnswer \in Answers
<1> DEFINE c == Head(requests)
           w == [connection |-> connection, id |-> Cardinality(Ids) + 1, local |-> c.local,
                 state |-> StartState(c.local)]
<1>1. /\ requests # <<>> /\ c.op = "watch" /\ watchers' = watchers \cup {w}
      /\ Serve(<<ServedAnswer>>)
      /\ UNCHANGED <<clientVars, watcherSequence, watchParams, localToRemote, owner, restarts,
                     initialized>>
      /\ exists' = exists /\ stolen' = stolen
  BY DEF ServeWatch, localVars, ServedAnswer
<1>2. requests \in Seq(Calls) /\ connection \in 0 .. MaxConnections
  BY DEF ProxyOK, ProxyTypes
<1>3. c \in Calls
  BY <1>1, <1>2, TailOf
<1>4. c.local \in Locals /\ c.first \in BOOLEAN
  BY <1>1, <1>3 DEF Calls
<1>5. Cardinality(Ids) + 1 \in Nat \ {0}
  BY IdsFinite
<1>6. ServedAnswer \in Answers /\ ServedAnswer.first = c.first /\ ServedAnswer.local = c.local
      /\ ServedAnswer.op = "watched"
  BY <1>4, <1>5 DEF ServedAnswer, Answers
<1> DEFINE sent == <<ServedAnswer>>
<1>7. /\ sent \in Seq(Answers) /\ Distinct(sent) /\ ToSet(sent) = {ServedAnswer}
      /\ FirstOf(sent) = IF IsFirst(c) THEN {c.local} ELSE {}
  <2> HIDE DEF c
  <2> DEFINE a == ServedAnswer
  <2>1. IsFirst(a) <=> IsFirst(c)
    BY <1>1, <1>6 DEF IsFirst
  <2>2. a \in Answers /\ a.local = c.local
    BY <1>6
  <2> HIDE DEF a
  <2>3. <<a>> \in Seq(Answers) /\ Distinct(<<a>>) /\ ToSet(<<a>>) = {a}
    BY <2>2 DEF Distinct, ToSet
  <2>4. IsFirst(a) => FirstOf(<<a>>) = {a.local}
    BY DEF FirstOf
  <2>5. ~IsFirst(a) => FirstOf(<<a>>) = {}
    BY DEF FirstOf
  <2> QED BY <2>1, <2>2, <2>3, <2>4, <2>5 DEF a
<1> HIDE DEF sent
<1>8. /\ ProxyOK' /\ isOpen /\ connection > 0 /\ FirstCalls' = FirstCalls
      /\ Pending = {c} \cup Pending' /\ ToSet(answers') = ToSet(answers) \cup ToSet(sent)
  <2>1. Serve(sent) /\ UNCHANGED initialized
    BY <1>1 DEF sent
  <2> QED BY <1>7, <2>1, ServeStep
<1>9. ClientOK'
  BY <1>1, <1>8, SilentClient DEF ClientOK, LocalTypes
<1>10. w \in Watchers
  BY <1>2, <1>4, <1>5, <1>8 DEF Watchers, WatcherStates, StartState
<1>11. WatchersOK'
  <2> HIDE DEF w
  <2>1. IsFiniteSet(watchers \cup {w})
    BY FS_AddElement DEF WatchersOK
  <2>2. watchers \cup {w} \subseteq Watchers
    BY <1>10 DEF WatchersOK
  <2> QED BY <1>1, <2>1, <2>2 DEF WatchersOK
<1> QED BY <1>1, <1>3, <1>6, <1>7, <1>8, <1>9, <1>11

\* A step that only changes the states of watchers.
LEMMA SilentStep ==
  ASSUME ProxyOK, ClientOK, exists' \in [Handles -> BOOLEAN],
         UNCHANGED <<proxyVars, clientVars, localVars, restarts>>
  PROVE  ProxyOK' /\ ClientOK' /\ Pending' = Pending
<1>1. /\ connection' = connection /\ isOpen' = isOpen /\ connectionPromise' = connectionPromise
      /\ waiting' = waiting /\ requests' = requests /\ answers' = answers
      /\ initialized' = initialized
  BY DEF proxyVars, localVars
<1>2. ProxyTypes' /\ LinkOK' /\ AskedOnce'
  BY <1>1 DEF ProxyOK, ProxyTypes, LinkOK, AskedOnce
<1>3. FirstCalls' = FirstCalls /\ Pending' = Pending
  BY <1>1 DEF FirstCalls, Pending
<1>4. ClientOK'
  BY <1>3, SilentClient DEF localVars
<1> QED BY <1>2, <1>3, <1>4 DEF ProxyOK

LEMMA DisposedIs ==
  ASSUME NEW w \in Watchers
  PROVE  /\ Disposed(w) \in Watchers /\ SameButState(Disposed(w), w)
         /\ Disposed(w).state \in {"disposing", "stopped"}
BY DEF Disposed, Watchers, WatcherStates, SameButState

LEMMA ServeUnwatchKeeps ==
  ASSUME ProxyOK, ClientOK, WatchersOK, ServeUnwatch
  PROVE  /\ ProxyOK' /\ ClientOK' /\ WatchersOK' /\ isOpen
         /\ Head(requests) \in Calls /\ Head(requests).op = "unwatch"
         /\ Pending = {Head(requests)} \cup Pending' /\ ToSet(answers') = ToSet(answers)
<1> DEFINE c == Head(requests)
           named == {w \in watchers : w.connection = connection /\ w.id = c.remote}
<1>1. /\ requests # <<>> /\ c.op = "unwatch"
      /\ watchers' = (watchers \ named) \cup {Disposed(w) : w \in named}
      /\ stolen' = stolen \cup ({w.local : w \in named} \ {c.by})
      /\ Serve(<<>>)
      /\ UNCHANGED <<clientVars, watcherSequence, watchParams, localToRemote, owner, restarts,
                     initialized>>
      /\ exists' = exists
  BY DEF ServeUnwatch, localVars
<1>2. requests \in Seq(Calls) /\ ~IsFirst(c)
  BY <1>1 DEF ProxyOK, ProxyTypes, IsFirst
<1>3. /\ ProxyOK' /\ isOpen /\ FirstCalls' = FirstCalls /\ c \in Calls
      /\ Pending = {c} \cup Pending' /\ ToSet(answers') = ToSet(answers) \cup ToSet(<<>>)
  <2> DEFINE sent == <<>>
  <2>1. sent \in Seq(Answers) /\ Distinct(sent) /\ Serve(sent) /\ UNCHANGED initialized
        /\ FirstOf(sent) = IF IsFirst(Head(requests)) THEN {Head(requests).local} ELSE {}
    BY <1>1, <1>2, Nothing
  <2> HIDE DEF sent
  <2>2. /\ ProxyOK' /\ isOpen /\ FirstCalls' = FirstCalls /\ c \in Calls
        /\ Pending = {c} \cup Pending' /\ ToSet(answers') = ToSet(answers) \cup ToSet(sent)
    BY <2>1, ServeStep
  <2> QED BY <2>2 DEF sent
<1>4. ToSet(answers') = ToSet(answers)
  BY <1>3, Nothing
<1>5. ClientOK'
  BY <1>1, <1>3, SilentClient DEF ClientOK, LocalTypes
<1>6. named \in SUBSET watchers /\ watchers \in SUBSET Watchers /\ IsFiniteSet(watchers)
  BY DEF WatchersOK
<1> HIDE DEF named
<1>7. IsFiniteSet(named) /\ IsFiniteSet(watchers \ named)
  BY <1>6, FS_Subset, FS_Difference
<1>8. IsFiniteSet({Disposed(w) : w \in named})
  <2> DEFINE f == [w \in named |-> Disposed(w)]
  <2>1. IsFiniteSet({f[w] : w \in named})
    <3>1. DOMAIN f = named
      OBVIOUS
    <3> HIDE DEF f
    <3> QED BY <1>7, <3>1, ImageFinite
  <2> QED BY <2>1
<1>9. \A w \in named : Disposed(w) \in Watchers /\ w.local \in Locals
  <2>1. \A w \in named : w \in Watchers
    BY <1>6
  <2> QED BY <2>1, DisposedIs DEF Watchers
<1>10. IsFiniteSet(watchers')
  BY <1>1, <1>7, <1>8, FS_Union
<1>11. watchers' \subseteq Watchers
  BY <1>1, <1>6, <1>9
<1>12. stolen' \in SUBSET Locals
  BY <1>1, <1>9 DEF WatchersOK
<1> QED BY <1>1, <1>3, <1>4, <1>5, <1>10, <1>11, <1>12 DEF WatchersOK

LEMMA WatcherMoves ==
  ASSUME ProxyOK, ClientOK, WatchersOK, NEW w \in watchers, Started(w) \/ Found(w)
  PROVE  /\ ProxyOK' /\ ClientOK' /\ WatchersOK' /\ Pending' = Pending
         /\ UNCHANGED <<proxyVars, clientVars, localVars, stolen>>
         /\ \E s \in {"starting", "running", "stopped"} :
              /\ watchers' = (watchers \ {w}) \cup {[w EXCEPT !.state = s]}
              /\ [w EXCEPT !.state = s] \in Watchers
              /\ w.state \in {"polling", "starting"} => s \in {"starting", "running"}
              /\ w.state \notin {"polling", "starting"} => s = "stopped"
<1>1. /\ UNCHANGED <<proxyVars, clientVars, localVars, restarts, stolen>> /\ exists' = exists
      /\ \E s \in {"starting", "running", "stopped"} :
              /\ watchers' = (watchers \ {w}) \cup {[w EXCEPT !.state = s]}
              /\ w.state \in {"polling", "starting"} => s \in {"starting", "running"}
              /\ w.state \notin {"polling", "starting"} => s = "stopped"
  BY DEF Started, Found, Became
<1>2. ProxyOK' /\ ClientOK' /\ Pending' = Pending
  BY <1>1, SilentStep DEF ClientOK, LocalTypes
<1>3. w \in Watchers /\ IsFiniteSet(watchers) /\ watchers \subseteq Watchers
  BY DEF WatchersOK
<1>4. \A s \in {"starting", "running", "stopped"} : [w EXCEPT !.state = s] \in Watchers
  BY <1>3 DEF Watchers, WatcherStates
<1>5. PICK s \in {"starting", "running", "stopped"} :
        watchers' = (watchers \ {w}) \cup {[w EXCEPT !.state = s]}
  BY <1>1
<1> DEFINE v == [w EXCEPT !.state = s]
<1>6. v \in Watchers /\ watchers' = (watchers \ {w}) \cup {v}
  BY <1>4, <1>5
<1> HIDE DEF v
<1>7. IsFiniteSet((watchers \ {w}) \cup {v})
  BY <1>3, FS_RemoveElement, FS_AddElement
<1>8. WatchersOK'
  BY <1>1, <1>3, <1>6, <1>7 DEF WatchersOK
<1> QED BY <1>1, <1>2, <1>4, <1>8

\* What ConnectionLost makes of watchers and handles.
LEMMA ConnectionLostKeeps ==
  ASSUME ProxyOK, ClientOK, WatchersOK, ConnectionLost
  PROVE  /\ ProxyOK' /\ ClientOK' /\ WatchersOK' /\ isOpen /\ ~isOpen' /\ connection > 0
         /\ Pending' = {} /\ answers' = <<>>
         /\ watchers' = {IF w.connection = connection THEN Disposed(w) ELSE w : w \in watchers}
<1>1. /\ Break
      /\ watchers' = {IF w.connection = connection THEN Disposed(w) ELSE w : w \in watchers}
      /\ toStop' = toStop /\ toRestartAll' = toRestartAll /\ initialized' = initialized
      /\ watcherSequence' = watcherSequence /\ watchParams' = watchParams
      /\ localToRemote' = localToRemote /\ owner' = owner
      /\ exists' = exists /\ restarts' = restarts /\ stolen' = stolen
  BY DEF ConnectionLost, localVars
<1>2. /\ ProxyOK' /\ isOpen /\ ~isOpen' /\ connection > 0
      /\ FirstCalls' = {} /\ Pending' = {} /\ answers' = <<>>
  BY <1>1, BreakStep
<1>3. /\ handle' \in [Handles -> {"none", "asked", "held", "failed", "disposed"}]
      /\ \A h \in Handles : handle'[h] = "none" <=> handle[h] = "none"
  <2>1. handle \in [Handles -> {"none", "asked", "held", "failed", "disposed"}]
    BY DEF ClientOK, LocalTypes
  <2>2. \E F : handle' = [h \in Handles |->
                 IF handle[h] = "asked" /\ h \in F THEN "failed" ELSE handle[h]]
    <3> DEFINE lost == {l \in Locals : \E c \in ToSet(requests) :
                                         c.op = "watch" /\ c.local = l /\ c.first}
                       \cup {a.local : a \in {b \in ToSet(answers) : b.first}}
    <3>1. handle' = [h \in Handles |->
            IF handle[h] = "asked" /\ \E l \in lost : owner[l] = h THEN "failed" ELSE handle[h]]
      BY DEF ConnectionLost
    <3> HIDE DEF lost
    <3> DEFINE F == {h \in Handles : \E l \in lost : owner[l] = h}
    <3>2. handle' = [h \in Handles |->
                 IF handle[h] = "asked" /\ h \in F THEN "failed" ELSE handle[h]]
      BY <3>1
    <3> HIDE DEF F
    <3> QED BY <3>2
  <2>3. PICK F : handle' = [h \in Handles |->
                 IF handle[h] = "asked" /\ h \in F THEN "failed" ELSE handle[h]]
    BY <2>2
  <2> QED BY <2>1, <2>3
<1>4. LocalTypes'
  BY <1>1, <1>3 DEF ClientOK, LocalTypes
<1>5. ClientOK'
  <2>1. Current' \subseteq Current /\ FirstCalls' \cap toRestartAll' = {}
    BY <1>1, <1>2 DEF Current
  <2> QED BY <1>1, <1>3, <1>4, <2>1, SameIds
<1>6. WatchersOK'
  <2> DEFINE f == [w \in watchers |-> IF w.connection = connection THEN Disposed(w) ELSE w]
  <2>1. IsFiniteSet({f[w] : w \in watchers})
    <3>1. DOMAIN f = watchers
      OBVIOUS
    <3> HIDE DEF f
    <3> QED BY <3>1, ImageFinite DEF WatchersOK
  <2>2. watchers' = {f[w] : w \in watchers}
    BY <1>1
  <2>3. \A w \in watchers : f[w] \in Watchers
    <3>1. \A w \in watchers : w \in Watchers
      BY DEF WatchersOK
    <3> QED BY <3>1, DisposedIs
  <2> HIDE DEF f
  <2>4. watchers' \subseteq Watchers
    BY <2>2, <2>3
  <2> QED BY <1>1, <2>1, <2>2, <2>4 DEF WatchersOK
<1> QED BY <1>1, <1>2, <1>5, <1>6

-----------------------------------------------------------------------------
(* What is watched, and where.                                               *)

\* Local ids are below watcherSequence; one that is unwatched is not watched.
Given ==
  /\ \A l \in watchParams : l < watcherSequence
  /\ \A h \in Handles : \A l \in toStop[h] : l < watcherSequence
  /\ \A c \in Pending : c.op = "unwatch" => c.by < watcherSequence /\ c.by \notin watchParams

\* Before the first connection, all that is watched waits to be asked for.
AskedAtFirst == ~initialized => \A l \in watchParams : Asked(l)

\* An answer names the watcher of the present server that it is about.
AnswersNameWatchers ==
  \A a \in ToSet(answers) : \E w \in OfConnection(connection) : w.id = a.remote /\ w.local = a.local

Kept ==
  AskedAtFirst /\ AnswersNameWatchers /\ NoneForgotten /\ MappedToOwn /\ ClosedServersSilent

LEMMA AskedIs == \A l : Asked(l) <=> \E c \in Pending : c.op = "watch" /\ c.local = l
BY DEF Asked, Pending

LEMMA AskedIsPrimed == \A l : Asked(l)' <=> \E c \in Pending' : c.op = "watch" /\ c.local = l
BY DEF Asked, Pending

\* The browser makes calls: what is watched is as it was, or is asked for.
LEMMA BrowserKeeps ==
  ASSUME Kept, UNCHANGED <<connection, isOpen, answers, watchers, stolen, initialized>>,
         Pending \subseteq Pending',
         \A l \in watchParams' :
           \/ l \in watchParams /\ localToRemote'[l] = localToRemote[l]
           \/ \E c \in Pending' : c.op = "watch" /\ c.local = l
  PROVE  Kept'
<1>1. /\ connection' = connection /\ isOpen' = isOpen /\ answers' = answers
      /\ watchers' = watchers /\ stolen' = stolen /\ initialized' = initialized
  OBVIOUS
<1>2. /\ \A l : Registered(l)' <=> Registered(l)
      /\ \A l : Answering(l)' <=> Answering(l)
      /\ OfConnection(connection)' = OfConnection(connection)
  BY <1>1 DEF Registered, Answering, OfConnection
<1>3. /\ \A l : Asked(l) => Asked(l)'
      /\ \A l \in watchParams' :
           (l \in watchParams /\ localToRemote'[l] = localToRemote[l]) \/ Asked(l)'
  BY AskedIs, AskedIsPrimed
<1>4. AskedAtFirst'
  BY <1>1, <1>3 DEF Kept, AskedAtFirst
<1>5. AnswersNameWatchers' /\ ClosedServersSilent'
  BY <1>1, <1>2 DEF Kept, AnswersNameWatchers, ClosedServersSilent
<1>6. NoneForgotten'
  BY <1>1, <1>2, <1>3 DEF Kept, NoneForgotten
<1>7. MappedToOwn'
  BY <1>1, <1>2, <1>3 DEF Kept, MappedToOwn
<1> QED BY <1>4, <1>5, <1>6, <1>7 DEF Kept

LEMMA WatchKeeps ==
  ASSUME ProxyOK, ClientOK, Given, Kept, NEW h \in Handles, Watch(h)
  PROVE  Given' /\ Kept'
<1> DEFINE c == WatchCall(watcherSequence, TRUE)
<1>1. watcherSequence \in Locals /\ Pending' = Pending \cup {c}
  BY WatchKeepsClient
<1>2. /\ watcherSequence' = watcherSequence + 1
      /\ watchParams' = watchParams \cup {watcherSequence}
      /\ UNCHANGED <<connection, isOpen, answers, watchers, stolen, initialized>>
      /\ toStop' = toStop /\ localToRemote' = localToRemote
  BY DEF Watch, serverVars
<1>3. c.op = "watch" /\ c.local = watcherSequence
  BY DEF WatchCall
<1> HIDE DEF c
<1>4. Kept'
  BY <1>1, <1>2, <1>3, BrowserKeeps
<1>5. /\ watcherSequence \in Int /\ \A l \in Locals : l \in Int
      /\ watchParams \subseteq Locals /\ \A g \in Handles : toStop[g] \subseteq Locals
  BY Sizes DEF ClientOK, LocalTypes
<1>6. \A l \in Int : l < watcherSequence => l < watcherSequence' /\ l # watcherSequence
  BY <1>2, <1>5
<1>7. watcherSequence < watcherSequence'
  BY <1>2, <1>5
<1>8. \A d \in Pending : d.op = "unwatch" => d.by \in Int
  <2>1. waiting \in Seq(Calls) /\ requests \in Seq(Calls)
    BY DEF ProxyOK, ProxyTypes
  <2>2. \A d \in Pending : d \in Calls
    BY <2>1, ToSetOf DEF Pending
  <2> QED BY <1>5, <2>2 DEF Calls
<1>9. Given'
  BY <1>1, <1>2, <1>3, <1>5, <1>6, <1>7, <1>8 DEF Given
<1> QED BY <1>4, <1>9

LEMMA DisposeKeeps ==
  ASSUME ProxyOK, ClientOK, Given, Kept, NEW h \in Handles, Dispose(h)
  PROVE  Given' /\ Kept'
<1> DEFINE us == UnwatchCalls(toStop[h])
<1>1. Pending' = Pending \cup ToSet(us) /\ toStop[h] \in SUBSET Locals
  BY DisposeKeepsClient
<1>2. /\ watcherSequence' = watcherSequence /\ watchParams' = watchParams \ toStop[h]
      /\ UNCHANGED <<connection, isOpen, answers, watchers, stolen, initialized>>
      /\ toStop' = [toStop EXCEPT ![h] = {}] /\ localToRemote' = Unmapped(toStop[h])
  BY DEF Dispose, serverVars
<1>3. /\ localToRemote \in [Locals -> Nat] /\ toStop \in [Handles -> SUBSET Locals]
      /\ watchParams \subseteq Locals
  BY DEF ClientOK, LocalTypes
<1>4. \A c \in ToSet(us) : c.op = "unwatch" /\ c.by \in toStop[h]
  BY <1>1, <1>3, UnwatchCallsSent
<1> HIDE DEF us
<1>5. \A l \in watchParams' : l \in watchParams /\ localToRemote'[l] = localToRemote[l]
  BY <1>2, <1>3 DEF Unmapped
<1>6. Kept'
  BY <1>1, <1>2, <1>5, BrowserKeeps
<1>7. \A g \in Handles : toStop'[g] \subseteq toStop[g]
  BY <1>2, <1>3
<1>8. Given'
  BY <1>1, <1>2, <1>4, <1>5, <1>7 DEF Given
<1> QED BY <1>6, <1>8

LEMMA RestartKeeps ==
  ASSUME ProxyOK, ClientOK, Given, Kept, RestartAll
  PROVE  Given' /\ Kept'
<1> DEFINE us == UnwatchCalls(toRestartAll)
<1>1. /\ Pending' = Pending \cup ToSet(us) \cup ToSet(NewCalls)
      /\ \A l \in ToSet(NewIds) : \E c \in ToSet(NewCalls) : c.op = "watch" /\ c.local = l
      /\ \A c \in ToSet(NewCalls) : c.op = "watch"
  BY RestartKeepsClient
<1>2. /\ watchParams' = (watchParams \ toRestartAll) \cup ToSet(NewIds)
      /\ toStop' = [g \in Handles |-> toStop[g] \ toRestartAll]
      /\ localToRemote' = Unmapped(toRestartAll)
      /\ UNCHANGED <<connection, isOpen, answers, watchers, stolen, initialized>>
  BY DEF RestartAll, serverVars, NewIds, OldIds
<1>3. /\ localToRemote \in [Locals -> Nat] /\ toRestartAll \in SUBSET Locals
      /\ watchParams \subseteq Locals /\ toStop \in [Handles -> SUBSET Locals]
      /\ watcherSequence \in Nat
      /\ \A l \in Locals : l \in Int
  BY Sizes DEF ClientOK, LocalTypes
<1>4. /\ \A l \in ToSet(NewIds) : l \in Int /\ l >= watcherSequence /\ l < watcherSequence'
      /\ watcherSequence' \in Nat /\ watcherSequence' >= watcherSequence
  BY RestartTakesIds
<1>5. \A c \in ToSet(us) : c.op = "unwatch" /\ c.by \in toRestartAll
  BY <1>3, UnwatchCallsSent
<1> HIDE DEF us
<1>6. \A l \in watchParams' :
           \/ l \in watchParams /\ localToRemote'[l] = localToRemote[l]
           \/ \E c \in Pending' : c.op = "watch" /\ c.local = l
  BY <1>1, <1>2, <1>3 DEF Unmapped
<1>7. Kept'
  BY <1>1, <1>2, <1>6, BrowserKeeps
<1>8. \A l \in Int : l < watcherSequence => l < watcherSequence' /\ l \notin ToSet(NewIds)
  BY <1>3, <1>4
<1>9. \A l \in toRestartAll : l < watcherSequence
  BY DEF ClientOK, OwnersOK, Current
<1>10. \A c \in Pending : c.op = "unwatch" => c.by \in Int
  <2>1. waiting \in Seq(Calls) /\ requests \in Seq(Calls)
    BY DEF ProxyOK, ProxyTypes
  <2>2. \A d \in Pending : d \in Calls
    BY <2>1, ToSetOf DEF Pending
  <2> QED BY <1>3, <2>2 DEF Calls
<1>11. \A l \in watchParams' : l < watcherSequence'
  BY <1>2, <1>3, <1>4, <1>8 DEF Given
<1>12. \A g \in Handles : \A l \in toStop'[g] : l < watcherSequence'
  <2>1. ASSUME NEW g \in Handles, NEW l \in toStop'[g] PROVE l < watcherSequence'
    <3>1. l \in toStop[g] /\ l \in Locals
      BY <1>2, <1>3, <2>1
    <3> QED BY <1>3, <1>8, <3>1 DEF Given
  <2> QED BY <2>1
<1>13. \A c \in Pending' : c.op = "unwatch" => c.by < watcherSequence' /\ c.by \notin watchParams'
  <2>1. ASSUME NEW c \in Pending, c.op = "unwatch"
        PROVE  c.by < watcherSequence' /\ c.by \notin watchParams'
    BY <1>2, <1>8, <1>10, <2>1 DEF Given
  <2>2. ASSUME NEW c \in ToSet(us) PROVE c.by < watcherSequence' /\ c.by \notin watchParams'
    BY <1>2, <1>3, <1>5, <1>8, <1>9, <2>2
  <2> QED BY <1>1, <2>1, <2>2
<1> QED BY <1>7, <1>11, <1>12, <1>13 DEF Given

LEMMA AnsweredKeeps ==
  ASSUME ProxyOK, ClientOK, Given, Kept, Answered
  PROVE  Given' /\ Kept'
<1> DEFINE a == Head(answers)
<1>1. /\ Pending' = Pending /\ a \in Answers /\ a \in ToSet(answers)
      /\ ToSet(answers) = {a} \cup ToSet(answers')
      /\ a.first => a.local \in Current
  BY AnsweredKeepsClient
<1>2. /\ connection' = connection /\ isOpen' = isOpen /\ watchers' = watchers
      /\ stolen' = stolen /\ initialized' = initialized /\ watchParams' = watchParams
      /\ watcherSequence' = watcherSequence /\ localToRemote' = Mapped(a)
      /\ toStop' = IF a.first THEN [toStop EXCEPT ![owner[a.local]] = @ \cup {a.local}]
                   ELSE toStop
  BY DEF Answered, serverVars, clientVars
<1>3. localToRemote \in [Locals -> Nat] /\ toStop \in [Handles -> SUBSET Locals]
  BY DEF ClientOK, LocalTypes
<1> HIDE DEF a
<1>4. a.local \in Locals
  BY <1>1 DEF Answers
<1>5. Given'
  <2>1. \A g \in Handles : \A l \in toStop'[g] : l \in toStop[g] \/ (a.first /\ l = a.local)
    BY <1>2, <1>3
  <2>2. a.first => a.local < watcherSequence
    BY <1>1 DEF ClientOK, OwnersOK
  <2> QED BY <1>1, <1>2, <2>1, <2>2 DEF Given
<1>6. /\ \A l : Registered(l)' <=> Registered(l)
      /\ OfConnection(connection)' = OfConnection(connection)
  BY <1>2 DEF Registered, OfConnection
<1>7. \A l : Asked(l)' <=> Asked(l)
  BY <1>1, AskedIs, AskedIsPrimed
<1>8. \A l : l # a.local => (Answering(l)' <=> Answering(l))
  BY <1>1 DEF Answering
<1>9. AskedAtFirst' /\ NoneForgotten' /\ ClosedServersSilent' /\ AnswersNameWatchers'
  BY <1>1, <1>2, <1>6, <1>7 DEF Kept, AskedAtFirst, NoneForgotten, ClosedServersSilent,
     AnswersNameWatchers
<1>10. MappedToOwn'
  <2> SUFFICES ASSUME isOpen', NEW l \in watchParams', localToRemote'[l] # 0, ~Asked(l)', ~Answering(l)'
               PROVE  \E w \in OfConnection(connection)' : w.id = localToRemote'[l] /\ w.local = l
    BY DEF MappedToOwn
  <2>1. CASE l = a.local
    <3>1. localToRemote'[l] = a.remote
      BY <1>2, <1>3, <1>4, <2>1 DEF Mapped
    <3> QED BY <1>1, <1>6, <2>1, <3>1 DEF Kept, AnswersNameWatchers
  <2>2. CASE l # a.local
    <3>1. localToRemote'[l] = localToRemote[l]
      BY <1>2, <1>3, <1>4, <2>2 DEF Mapped, ClientOK, LocalTypes
    <3> QED BY <1>2, <1>6, <1>7, <1>8, <2>2, <3>1 DEF Kept, MappedToOwn
  <2> QED BY <2>1, <2>2
<1> QED BY <1>5, <1>9, <1>10 DEF Kept

LEMMA ConnectKeeps ==
  ASSUME ProxyOK, ClientOK, Given, Kept, Connect
  PROVE  Given' /\ Kept'
<1>1. /\ Pending' = Pending \cup ToSet(ReconnectCalls) /\ isOpen'
      /\ initialized' = TRUE /\ ~isOpen
      /\ watchParams' = watchParams /\ localToRemote' = localToRemote /\ toStop' = toStop
      /\ watcherSequence' = watcherSequence /\ answers' = answers /\ watchers' = watchers
  BY ConnectKeepsClient DEF Connect, Listen, serverVars, clientVars
<1>2. answers = <<>>
  BY <1>1 DEF ProxyOK, LinkOK
<1>3. /\ \A c \in ToSet(ReconnectCalls) : c.op = "watch"
      /\ initialized => \A l \in watchParams :
           \E c \in ToSet(ReconnectCalls) : c.op = "watch" /\ c.local = l
  BY ReconnectCallsSent DEF ClientOK
<1>4. \A l \in watchParams' : Asked(l)'
  <2>1. ~initialized => \A l \in watchParams : \E c \in Pending : c.op = "watch" /\ c.local = l
    BY AskedIs DEF Kept, AskedAtFirst
  <2> QED BY <1>1, <1>3, <2>1, AskedIsPrimed
<1>5. Given'
  BY <1>1, <1>3 DEF Given
<1>6. AskedAtFirst' /\ NoneForgotten' /\ MappedToOwn'
  BY <1>4 DEF AskedAtFirst, NoneForgotten, MappedToOwn
<1>7. AnswersNameWatchers'
  BY <1>1, <1>2, Nothing DEF AnswersNameWatchers
<1>8. ClosedServersSilent'
  BY <1>1 DEF Kept, ClosedServersSilent
<1> QED BY <1>5, <1>6, <1>7, <1>8 DEF Kept

LEMMA ServeWatchRegisters ==
  ASSUME ProxyOK, ClientOK, WatchersOK, Given, Kept, ServeWatch
  PROVE  Given' /\ Kept'
<1> DEFINE c == Head(requests)
           w == [connection |-> connection, id |-> Cardinality(Ids) + 1, local |-> c.local,
                 state |-> StartState(c.local)]
           a == ServedAnswer
<1>1. /\ isOpen /\ c.op = "watch" /\ Pending = {c} \cup Pending'
      /\ ToSet(answers') = ToSet(answers) \cup {a}
  BY ServeWatchKeeps
<1>2. /\ connection' = connection /\ isOpen' = isOpen /\ initialized' = initialized
      /\ watchers' = watchers \cup {w} /\ watchParams' = watchParams
      /\ localToRemote' = localToRemote /\ stolen' = stolen /\ toStop' = toStop
      /\ watcherSequence' = watcherSequence
  BY DEF ServeWatch, Serve, clientVars, localVars
<1>3. /\ w.connection = connection /\ w.local = c.local /\ w.state \in {"polling", "starting"}
      /\ a.local = c.local /\ a.remote = w.id
  <2>1. StartState(c.local) \in {"polling", "starting"}
    BY DEF StartState
  <2>2. w.connection = connection /\ w.local = c.local /\ w.state = StartState(c.local)
    OBVIOUS
  <2>3. a.local = c.local /\ a.remote = w.id
    BY DEF ServedAnswer
  <2> QED BY <2>1, <2>2, <2>3
<1> HIDE DEF c, w, a
<1>4. \A l : Asked(l) => Asked(l)' \/ l = c.local
  BY <1>1, AskedIs, AskedIsPrimed
<1>5. OfConnection(connection)' = OfConnection(connection) \cup {w}
  BY <1>2, <1>3 DEF OfConnection
<1>6. \A l : Registered(l) \/ l = c.local => Registered(l)'
  <2>1. \A l : Registered(l) => Registered(l)'
    BY <1>5 DEF Registered
  <2>2. \A l : l = c.local => Registered(l)'
    <3>1. w \in OfConnection(connection)'
      BY <1>5
    <3>2. w.local = c.local /\ w.state \in {"polling", "starting", "running"}
      BY <1>3
    <3> QED BY <3>1, <3>2 DEF Registered
  <2> QED BY <2>1, <2>2
<1>7. /\ \A l : Answering(l)' <=> Answering(l) \/ l = c.local
  BY <1>1, <1>3 DEF Answering
<1>8. Given'
  BY <1>1, <1>2 DEF Given
<1>9. AskedAtFirst'
  <2>1. initialized
    BY <1>1 DEF ProxyOK, LinkOK
  <2> QED BY <1>2, <2>1 DEF AskedAtFirst
<1>10. AnswersNameWatchers'
  BY <1>1, <1>3, <1>5 DEF Kept, AnswersNameWatchers
<1>11. NoneForgotten'
  BY <1>2, <1>4, <1>6 DEF Kept, NoneForgotten
<1>12. MappedToOwn'
  <2>1. \A l : ~Asked(l)' /\ ~Answering(l)' => ~Asked(l) /\ ~Answering(l)
    BY <1>4, <1>7
  <2> QED BY <1>2, <1>5, <2>1 DEF Kept, MappedToOwn
<1>13. ClosedServersSilent'
  BY <1>1, <1>2, <1>3 DEF Kept, ClosedServersSilent
<1> QED BY <1>8, <1>9, <1>10, <1>11, <1>12, <1>13 DEF Kept

LEMMA ServeUnwatchKeepsOthers ==
  ASSUME ProxyOK, ClientOK, WatchersOK, Given, Kept, ServeUnwatch
  PROVE  Given' /\ Kept'
<1> DEFINE c == Head(requests)
           named == {w \in watchers : w.connection = connection /\ w.id = c.remote}
<1>1. /\ isOpen /\ c.op = "unwatch" /\ Pending = {c} \cup Pending'
      /\ ToSet(answers') = ToSet(answers)
  BY ServeUnwatchKeeps
<1>2. /\ connection' = connection /\ isOpen' = isOpen /\ initialized' = initialized
      /\ watchers' = (watchers \ named) \cup {Disposed(w) : w \in named}
      /\ stolen' = stolen \cup ({w.local : w \in named} \ {c.by})
      /\ watchParams' = watchParams /\ localToRemote' = localToRemote /\ toStop' = toStop
      /\ watcherSequence' = watcherSequence
  BY DEF ServeUnwatch, Serve, clientVars, localVars
<1>3. named \subseteq watchers /\ \A w \in watchers : w \in Watchers
  BY DEF WatchersOK
<1> HIDE DEF c, named
<1>4. \A w \in named : /\ SameButState(Disposed(w), w)
                       /\ Disposed(w).state \in {"disposing", "stopped"}
  BY <1>3, DisposedIs
<1>5. \A l : Asked(l)' <=> Asked(l)
  BY <1>1, AskedIs, AskedIsPrimed
<1>6. \A l : Answering(l)' <=> Answering(l)
  BY <1>1 DEF Answering
<1>7. ASSUME NEW w \in OfConnection(connection)
      PROVE  \E v \in OfConnection(connection)' : v.id = w.id /\ v.local = w.local
  <2>1. w \in watchers /\ w.connection = connection
    BY <1>7 DEF OfConnection
  <2>2. CASE w \in named
    <3>1. Disposed(w) \in watchers'
      BY <1>2, <2>2
    <3> QED BY <1>2, <1>4, <2>1, <2>2, <3>1 DEF OfConnection, SameButState
  <2>3. CASE w \notin named
    BY <1>2, <2>1, <2>3 DEF OfConnection
  <2> QED BY <2>2, <2>3
<1>8. \A l : Registered(l) => Registered(l)' \/ l \in stolen' \/ l = c.by
  <2>1. ASSUME NEW l, NEW w \in OfConnection(connection),
               w.local = l /\ w.state \in {"polling", "starting", "running"}
        PROVE  Registered(l)' \/ l \in stolen' \/ l = c.by
    <3>1. w \in watchers /\ w.connection = connection
      BY <2>1 DEF OfConnection
    <3>2. CASE w \in named
      BY <1>2, <2>1, <3>2
    <3>3. CASE w \notin named
      <4>1. w \in OfConnection(connection)'
        BY <1>2, <3>1, <3>3 DEF OfConnection
      <4> QED BY <2>1, <4>1 DEF Registered
    <3> QED BY <3>2, <3>3
  <2> QED BY <2>1 DEF Registered
<1>9. c.by \notin watchParams
  BY <1>1 DEF Given
<1>10. Given'
  BY <1>1, <1>2 DEF Given
<1>11. AskedAtFirst'
  BY <1>2, <1>5 DEF Kept, AskedAtFirst
<1>12. AnswersNameWatchers'
  <2>1. ASSUME NEW a \in ToSet(answers')
        PROVE  \E v \in OfConnection(connection)' : v.id = a.remote /\ v.local = a.local
    <3>1. PICK w \in OfConnection(connection) : w.id = a.remote /\ w.local = a.local
      BY <1>1, <2>1 DEF Kept, AnswersNameWatchers
    <3> QED BY <1>7, <3>1
  <2> QED BY <2>1 DEF AnswersNameWatchers
<1>13. NoneForgotten'
  BY <1>2, <1>5, <1>8, <1>9 DEF Kept, NoneForgotten
<1>14. MappedToOwn'
  <2> SUFFICES ASSUME isOpen', NEW l \in watchParams', localToRemote'[l] # 0, ~Asked(l)', ~Answering(l)'
               PROVE  \E w \in OfConnection(connection)' : w.id = localToRemote'[l] /\ w.local = l
    BY DEF MappedToOwn
  <2>1. PICK w \in OfConnection(connection) : w.id = localToRemote[l] /\ w.local = l
    BY <1>2, <1>5, <1>6 DEF Kept, MappedToOwn
  <2> QED BY <1>2, <1>7, <2>1
<1>15. ClosedServersSilent'
  <2>1. ASSUME NEW w \in watchers', w.state \in {"polling", "starting", "running"}
        PROVE  w \in watchers
    BY <1>2, <1>4, <2>1
  <2> QED BY <1>2, <2>1 DEF Kept, ClosedServersSilent
<1> QED BY <1>10, <1>11, <1>12, <1>13, <1>14, <1>15 DEF Kept

LEMMA WatcherMovesKeep ==
  ASSUME ProxyOK, ClientOK, WatchersOK, Given, Kept, NEW w \in watchers, Started(w) \/ Found(w)
  PROVE  Given' /\ Kept'
<1>1. PICK s \in {"starting", "running", "stopped"} :
              /\ watchers' = (watchers \ {w}) \cup {[w EXCEPT !.state = s]}
              /\ w.state \in {"polling", "starting"} => s \in {"starting", "running"}
              /\ w.state \notin {"polling", "starting"} => s = "stopped"
  BY WatcherMoves
<1> DEFINE v == [w EXCEPT !.state = s]
<1>2. w \in Watchers
  BY DEF WatchersOK
<1>3. SameButState(v, w) /\ v.state = s
  BY <1>2 DEF Watchers, SameButState
<1>4. watchers' = (watchers \ {w}) \cup {v}
  BY <1>1
<1> HIDE DEF v
<1>5. Pending' = Pending
  BY WatcherMoves
<1>6. /\ connection' = connection /\ isOpen' = isOpen /\ initialized' = initialized
      /\ answers' = answers /\ stolen' = stolen /\ toStop' = toStop
      /\ watchParams' = watchParams /\ localToRemote' = localToRemote
      /\ watcherSequence' = watcherSequence
  BY WatcherMoves DEF proxyVars, clientVars, localVars
<1>7. \A l : Asked(l)' <=> Asked(l)
  BY <1>5, AskedIs, AskedIsPrimed
<1>8. \A l : Answering(l)' <=> Answering(l)
  BY <1>6 DEF Answering
<1>9. w.state \in {"starting", "disposing", "polling"}
  BY DEF Started, Found
<1>10. ASSUME NEW u \in OfConnection(connection)
       PROVE  \E x \in OfConnection(connection)' :
                /\ x.id = u.id /\ x.local = u.local
                /\ u.state \in {"polling", "starting", "running"} =>
                     x.state \in {"polling", "starting", "running"}
  <2>1. u \in watchers /\ u.connection = connection
    BY <1>10 DEF OfConnection
  <2>2. CASE u = w
    <3>1. v \in OfConnection(connection)'
      BY <1>3, <1>4, <1>6, <2>1, <2>2 DEF OfConnection, SameButState
    <3> QED BY <1>1, <1>3, <1>9, <2>2, <3>1 DEF SameButState
  <2>3. CASE u # w
    <3>1. u \in OfConnection(connection)'
      BY <1>4, <1>6, <2>1, <2>3 DEF OfConnection
    <3> QED BY <3>1
  <2> QED BY <2>2, <2>3
<1>11. \A l : Registered(l) => Registered(l)'
  BY <1>10 DEF Registered
<1>12. Given'
  BY <1>5, <1>6 DEF Given
<1>13. AskedAtFirst' /\ NoneForgotten'
  BY <1>6, <1>7, <1>11 DEF Kept, AskedAtFirst, NoneForgotten
<1>14. AnswersNameWatchers'
  <2>1. ASSUME NEW a \in ToSet(answers')
        PROVE  \E x \in OfConnection(connection)' : x.id = a.remote /\ x.local = a.local
    <3>1. PICK u \in OfConnection(connection) : u.id = a.remote /\ u.local = a.local
      BY <1>6, <2>1 DEF Kept, AnswersNameWatchers
    <3> QED BY <1>10, <3>1
  <2> QED BY <2>1 DEF AnswersNameWatchers
<1>15. MappedToOwn'
  <2> SUFFICES ASSUME isOpen', NEW l \in watchParams', localToRemote'[l] # 0, ~Asked(l)', ~Answering(l)'
               PROVE  \E x \in OfConnection(connection)' : x.id = localToRemote'[l] /\ x.local = l
    BY DEF MappedToOwn
  <2>1. PICK u \in OfConnection(connection) : u.id = localToRemote[l] /\ u.local = l
    BY <1>6, <1>7, <1>8 DEF Kept, MappedToOwn
  <2> QED BY <1>6, <1>10, <2>1
<1>16. ClosedServersSilent'
  <2>1. ASSUME NEW x \in watchers', x.state \in {"polling", "starting", "running"}
        PROVE  isOpen /\ x.connection = connection
    <3>1. CASE x \in watchers
      BY <2>1, <3>1 DEF Kept, ClosedServersSilent
    <3>2. CASE x = v
      <4>1. w.state \in {"polling", "starting"}
        BY <1>1, <1>3, <2>1, <3>2
      <4> QED BY <1>3, <3>2, <4>1 DEF Kept, ClosedServersSilent, SameButState
    <3> QED BY <1>4, <3>1, <3>2
  <2> QED BY <1>6, <2>1 DEF ClosedServersSilent
<1> QED BY <1>12, <1>13, <1>14, <1>15, <1>16 DEF Kept

LEMMA ConnectionLostSilences ==
  ASSUME ProxyOK, ClientOK, WatchersOK, Given, Kept, ConnectionLost
  PROVE  Given' /\ Kept'
<1>1. /\ isOpen /\ ~isOpen' /\ connection > 0 /\ Pending' = {} /\ answers' = <<>>
      /\ watchers' = {IF w.connection = connection THEN Disposed(w) ELSE w : w \in watchers}
  BY ConnectionLostKeeps
<1>2. /\ watchParams' = watchParams /\ toStop' = toStop /\ initialized' = initialized
      /\ watcherSequence' = watcherSequence
  BY DEF ConnectionLost, localVars
<1>3. Given'
  BY <1>1, <1>2 DEF Given
<1>4. initialized
  BY <1>1 DEF ProxyOK, LinkOK
<1>5. AskedAtFirst' /\ NoneForgotten' /\ MappedToOwn'
  BY <1>1, <1>2, <1>4 DEF AskedAtFirst, NoneForgotten, MappedToOwn
<1>6. AnswersNameWatchers'
  BY <1>1, Nothing DEF AnswersNameWatchers
<1>7. ClosedServersSilent'
  <2>1. ASSUME NEW x \in watchers' PROVE x.state \notin {"polling", "starting", "running"}
    <3>1. PICK w \in watchers : x = IF w.connection = connection THEN Disposed(w) ELSE w
      BY <1>1, <2>1
    <3>2. w \in Watchers
      BY DEF WatchersOK
    <3>3. CASE w.connection = connection
      BY <3>1, <3>2, <3>3, DisposedIs
    <3>4. CASE w.connection # connection
      BY <3>1, <3>4 DEF Kept, ClosedServersSilent
    <3> QED BY <3>3, <3>4
  <2> QED BY <2>1 DEF ClosedServersSilent
<1> QED BY <1>3, <1>5, <1>6, <1>7 DEF Kept

-----------------------------------------------------------------------------
(* The theorems.                                                             *)

WatchingInv == ProxyOK /\ ClientOK /\ WatchersOK /\ Given /\ Kept

LEMMA NothingWatchedAtFirst == Init => WatchingInv
<1> SUFFICES ASSUME Init PROVE WatchingInv
  OBVIOUS
<1>1. /\ connection = 0 /\ isOpen = FALSE /\ connectionPromise = 0
      /\ waiting = <<>> /\ requests = <<>> /\ answers = <<>>
      /\ handle = [h \in Handles |-> "none"] /\ toStop = [h \in Handles |-> {}]
      /\ toRestartAll = {} /\ initialized = FALSE /\ watcherSequence = 1 /\ watchParams = {}
      /\ localToRemote = [l \in Locals |-> 0] /\ owner = [l \in Locals |-> NoHandle]
      /\ watchers = {} /\ exists = [h \in Handles |-> h \notin Missing]
      /\ restarts = 0 /\ stolen = {}
  BY DEF Init, ProxyInit
<1>2. FirstCalls = {} /\ Pending = {} /\ AskedOnce
  BY <1>1, Nothing DEF FirstCalls, Pending, AskedOnce
<1>3. ProxyTypes /\ LinkOK
  <2>1. /\ connection \in 0 .. MaxConnections /\ isOpen \in BOOLEAN
        /\ connectionPromise \in {0, connection} /\ initialized \in BOOLEAN
    <3>1. MaxConnections \in Nat
      BY ProxyAssumption DEF ProxyAssumption
    <3>2. 0 \in 0 .. MaxConnections
      BY <3>1
    <3>3. connection \in 0 .. MaxConnections
      BY <1>1, <3>2
    <3>4. isOpen \in BOOLEAN /\ initialized \in BOOLEAN
      BY <1>1
    <3>5. connectionPromise \in {0, connection}
      BY <1>1
    <3> QED BY <3>3, <3>4, <3>5
  <2>2. waiting \in Seq(Calls) /\ requests \in Seq(Calls) /\ answers \in Seq(Answers)
    BY <1>1, Nothing
  <2>3. LinkOK
    BY <1>1 DEF LinkOK
  <2> QED BY <2>1, <2>2, <2>3 DEF ProxyTypes
<1>4. LocalTypes
  BY <1>1, Sizes DEF LocalTypes
<1>5. OwnersOK
  BY <1>1, <1>2 DEF OwnersOK, Current
<1>6. Counted
  <2>1. Cardinality(UsedHandles) \in Nat
    BY <1>4, UsedSize
  <2>2. Retaken(0) \in Nat
    BY RetakenGrows
  <2> QED BY <1>1, <2>1, <2>2 DEF Counted
<1>7. WatchersOK
  BY <1>1, FS_EmptySet DEF WatchersOK
<1>8. Given /\ Kept
  BY <1>1, <1>2, Nothing DEF Given, Kept, AskedAtFirst, AnswersNameWatchers, NoneForgotten,
     MappedToOwn, ClosedServersSilent
<1> QED BY <1>2, <1>3, <1>4, <1>5, <1>6, <1>7, <1>8 DEF WatchingInv, ProxyOK, ClientOK

LEMMA WatchingInvKept == WatchingInv /\ [Next]_vars => WatchingInv'
<1> SUFFICES ASSUME ProxyOK, ClientOK, WatchersOK, Given, Kept, [Next]_vars PROVE WatchingInv'
  BY DEF WatchingInv
<1> USE DEF WatchingInv
<1>1. WatchersOK /\ watchers' = watchers /\ stolen' = stolen => WatchersOK'
  BY DEF WatchersOK
<1>2. ASSUME NEW h \in Handles, Watch(h) PROVE WatchingInv'
  <2>1. watchers' = watchers /\ stolen' = stolen
    BY <1>2 DEF Watch, serverVars
  <2> QED BY <1>1, <1>2, <2>1, WatchKeepsClient, WatchKeeps
<1>3. ASSUME NEW h \in Handles, Dispose(h) PROVE WatchingInv'
  <2>1. watchers' = watchers /\ stolen' = stolen
    BY <1>3 DEF Dispose, serverVars
  <2> QED BY <1>1, <1>3, <2>1, DisposeKeepsClient, DisposeKeeps
<1>4. ASSUME NEW h \in Handles, PathAppears(h) PROVE WatchingInv'
  <2>1. /\ UNCHANGED <<proxyVars, clientVars, localVars, restarts>>
        /\ watchers' = watchers /\ stolen' = stolen /\ exists' \in [Handles -> BOOLEAN]
    BY <1>4 DEF PathAppears, ClientOK, LocalTypes
  <2>2. ProxyOK' /\ ClientOK' /\ Pending' = Pending
    BY <2>1, SilentStep
  <2>3. /\ connection' = connection /\ isOpen' = isOpen /\ answers' = answers
        /\ initialized' = initialized /\ watchParams' = watchParams /\ toStop' = toStop
        /\ localToRemote' = localToRemote /\ watcherSequence' = watcherSequence
    BY <2>1 DEF proxyVars, clientVars, localVars
  <2>4. Given'
    BY <2>2, <2>3 DEF Given
  <2>5. Kept'
    BY <2>1, <2>2, <2>3, BrowserKeeps
  <2> QED BY <1>1, <2>1, <2>2, <2>4, <2>5
<1>5. CASE RestartAll
  <2>1. watchers' = watchers /\ stolen' = stolen
    BY <1>5 DEF RestartAll, serverVars
  <2> QED BY <1>1, <1>5, <2>1, RestartKeepsClient, RestartKeeps
<1>6. CASE Answered
  <2>1. watchers' = watchers /\ stolen' = stolen
    BY <1>6 DEF Answered, serverVars
  <2> QED BY <1>1, <1>6, <2>1, AnsweredKeepsClient, AnsweredKeeps
<1>7. CASE Connect
  <2>1. watchers' = watchers /\ stolen' = stolen
    BY <1>7 DEF Connect, serverVars
  <2> QED BY <1>1, <1>7, <2>1, ConnectKeepsClient, ConnectKeeps
<1>8. CASE ServeWatch
  BY <1>8, ServeWatchKeeps, ServeWatchRegisters
<1>9. CASE ServeUnwatch
  BY <1>9, ServeUnwatchKeeps, ServeUnwatchKeepsOthers
<1>10. CASE ConnectionLost
  BY <1>10, ConnectionLostKeeps, ConnectionLostSilences
<1>11. ASSUME NEW w \in watchers, Started(w) \/ Found(w) PROVE WatchingInv'
  BY <1>11, WatcherMoves, WatcherMovesKeep
<1>12. CASE UNCHANGED vars
  <2>1. /\ UNCHANGED <<proxyVars, clientVars, localVars, restarts>>
        /\ watchers' = watchers /\ stolen' = stolen /\ exists' = exists
    BY <1>12 DEF vars, serverVars
  <2>2. ProxyOK' /\ ClientOK' /\ Pending' = Pending
    BY <2>1, SilentStep DEF ClientOK, LocalTypes
  <2>3. /\ connection' = connection /\ isOpen' = isOpen /\ answers' = answers
        /\ initialized' = initialized /\ watchParams' = watchParams /\ toStop' = toStop
        /\ localToRemote' = localToRemote /\ watcherSequence' = watcherSequence
    BY <2>1 DEF proxyVars, clientVars, localVars
  <2>4. Given'
    BY <2>2, <2>3 DEF Given
  <2>5. Kept'
    BY <2>1, <2>2, <2>3, BrowserKeeps
  <2> QED BY <1>1, <2>1, <2>2, <2>4, <2>5
<1> QED BY <1>2, <1>3, <1>4, <1>5, <1>6, <1>7, <1>8, <1>9, <1>10, <1>11, <1>12 DEF Next

LEMMA WatchingInvHolds == Spec => []WatchingInv
<1>1. Init => WatchingInv
  BY NothingWatchedAtFirst
<1>2. WatchingInv /\ [Next]_vars => WatchingInv'
  BY WatchingInvKept
<1> QED BY <1>1, <1>2, PTL DEF Spec

\* Every variable of FileWatching keeps its type.  In particular the local ids
\* that watches and restarts take never run out: each handle that is restarted
\* has exactly one id to restart.
THEOREM TypeCorrect == Spec => []TypeOK
<1>1. WatchingInv => TypeOK
  BY DEF WatchingInv, ProxyOK, ProxyTypes, ClientOK, LocalTypes, WatchersOK, TypeOK, Answers, Watchers
<1> QED BY <1>1, WatchingInvHolds, PTL

\* Over any breaks, reconnections, restarts and disposals, all that is watched is
\* registered with the server of the open connection or asked for, but for a
\* watcher that an unwatch by a stale id stopped.
THEOREM NothingForgotten == Spec => []NoneForgotten
<1>1. WatchingInv => NoneForgotten
  BY DEF WatchingInv, Kept
<1> QED BY <1>1, WatchingInvHolds, PTL

\* Once no call of a watcher is under way, the id the browser keeps for it is that
\* of its own watcher on the present server, and not one of a server that is gone.
THEOREM IdsAreOfThePresentServer == Spec => []MappedToOwn
<1>1. WatchingInv => MappedToOwn
  BY DEF WatchingInv, Kept
<1> QED BY <1>1, WatchingInvHolds, PTL

\* No watcher polls or runs for a connection that is closed, however the disposal
\* of its server crosses the start of nsfw.
THEOREM GoneServersAreSilent == Spec => []ClosedServersSilent
<1>1. WatchingInv => ClosedServersSilent
  BY DEF WatchingInv, Kept
<1> QED BY <1>1, WatchingInvHolds, PTL-----------------------------------------------------------------------------
(* Debug sessions: how many elements of a sequence are of a kind.            *)

Places(q, S) == {i \in DOMAIN q : q[i] \in S}
HowMany(q, S) == Cardinality(Places(q, S))

LEMMA PlacesCounted ==
  ASSUME NEW T, NEW q \in Seq(T), NEW S
  PROVE  IsFiniteSet(Places(q, S)) /\ HowMany(q, S) \in Nat
<1>1. Len(q) \in Nat /\ Places(q, S) \in SUBSET (1 .. Len(q))
  BY DEF Places
<1>2. IsFiniteSet(1 .. Len(q))
  BY <1>1, FS_Interval
<1>3. IsFiniteSet(Places(q, S))
  BY <1>1, <1>2, FS_Subset
<1> QED BY <1>3, FS_CardinalityType DEF HowMany

LEMMA FewerPlaces ==
  ASSUME NEW T, NEW q \in Seq(T), NEW S, NEW R, \A e \in T : e \in S => e \in R
  PROVE  HowMany(q, S) <= HowMany(q, R)
<1>1. Places(q, S) \in SUBSET Places(q, R)
  BY DEF Places
<1>2. IsFiniteSet(Places(q, R))
  BY PlacesCounted
<1> QED BY <1>1, <1>2, FS_Subset DEF HowMany

LEMMA NoPlaces ==
  ASSUME NEW T, NEW q \in Seq(T), NEW S, \A i \in DOMAIN q : q[i] \notin S
  PROVE  HowMany(q, S) = 0
<1>1. Places(q, S) = {}
  BY DEF Places
<1> QED BY <1>1, FS_EmptySet DEF HowMany

LEMMA PlacesJoined ==
  ASSUME NEW T, NEW q \in Seq(T), NEW r \in Seq(T), NEW S
  PROVE  HowMany(q \o r, S) = HowMany(q, S) + HowMany(r, S)
<1> DEFINE n == Len(q)
           A == Places(q, S)
           B == Places(r, S)
           C == {j + n : j \in B}
           f == [j \in B |-> j + n]
<1>1. n \in Nat /\ DOMAIN q = 1 .. n /\ B \in SUBSET Nat /\ \A j \in B : j >= 1
  BY DEF Places
<1>2. A \in SUBSET (1 .. n)
  BY <1>1 DEF Places
<1>3. Places(q \o r, S) = A \cup C
  <2>1. /\ \A k \in DOMAIN q : k \in DOMAIN (q \o r) /\ (q \o r)[k] = q[k]
        /\ \A j \in DOMAIN r : j + n \in DOMAIN (q \o r) /\ (q \o r)[j + n] = r[j]
        /\ \A k \in DOMAIN (q \o r) :
             \/ k \in DOMAIN q
             \/ k - n \in DOMAIN r /\ (q \o r)[k] = r[k - n]
    BY AppendedAt
  <2> DEFINE s == q \o r
  <2>2. DOMAIN s \subseteq Nat
    BY AppendedAt
  <2> HIDE DEF s, n
  <2>3. ASSUME NEW k \in Places(s, S) PROVE k \in A \cup C
    <3>1. k \in DOMAIN s /\ s[k] \in S /\ k \in Nat
      BY <2>2 DEF Places
    <3>2. CASE k \in DOMAIN q
      BY <2>1, <3>1, <3>2 DEF Places, s
    <3>3. CASE k - n \in DOMAIN r /\ s[k] = r[k - n]
      <4>1. k - n \in B
        BY <3>1, <3>3 DEF Places
      <4>2. k = (k - n) + n
        BY <1>1, <3>1
      <4> QED BY <4>1, <4>2
    <3> QED BY <2>1, <3>1, <3>2, <3>3 DEF s
  <2>4. ASSUME NEW k \in A PROVE k \in Places(s, S)
    BY <2>1 DEF Places, s
  <2>5. ASSUME NEW j \in B PROVE j + n \in Places(s, S)
    BY <2>1 DEF Places, s
  <2> QED BY <2>3, <2>4, <2>5 DEF s
<1>4. IsFiniteSet(A) /\ Cardinality(A) \in Nat /\ IsFiniteSet(B) /\ Cardinality(B) \in Nat
  BY PlacesCounted DEF HowMany
<1> HIDE DEF n, A, B
<1>5. f \in Bijection(B, C)
  <2>1. f \in [B -> C] /\ \A c \in C : \E j \in B : f[j] = c
    OBVIOUS
  <2>2. ASSUME NEW i \in B, NEW j \in B, f[i] = f[j] PROVE i = j
    <3>1. i + n = j + n /\ i \in Nat /\ j \in Nat
      BY <1>1, <2>2
    <3> QED BY <1>1, <3>1
  <2> QED BY <2>1, <2>2 DEF Bijection, Injection, Surjection, IsInjective
<1>6. IsFiniteSet(C) /\ Cardinality(C) = Cardinality(B)
  BY <1>4, <1>5, FS_Bijection DEF ExistsBijection
<1>7. A \cap C = {}
  <2>1. ASSUME NEW j \in B, j + n \in A PROVE FALSE
    <3>1. j + n \in 1 .. n /\ j \in Nat /\ j >= 1
      BY <1>1, <1>2, <2>1
    <3> QED BY <1>1, <3>1
  <2> QED BY <2>1
<1> HIDE DEF C
<1>8. Cardinality(A \cup C) = Cardinality(A) + Cardinality(C) - Cardinality(A \cap C)
  BY <1>4, <1>6, FS_Union
<1>9. Cardinality(A \cap C) = 0
  BY <1>7, FS_EmptySet
<1>10. Cardinality(A \cup C) = Cardinality(A) + Cardinality(B)
  BY <1>4, <1>6, <1>8, <1>9
<1> QED BY <1>3, <1>10 DEF HowMany, A, B

LEMMA PlaceOfOne ==
  ASSUME NEW e, NEW S
  PROVE  HowMany(<<e>>, S) = One(e \in S)
<1>1. Places(<<e>>, S) = IF e \in S THEN {1} ELSE {}
  BY DEF Places
<1> QED BY <1>1, FS_EmptySet, FS_Singleton DEF HowMany, One

LEMMA PlacesTaken ==
  ASSUME NEW T, NEW q \in Seq(T), q # <<>>, NEW S
  PROVE  HowMany(q, S) = One(Head(q) \in S) + HowMany(Tail(q), S)
<1>1. /\ <<Head(q)>> \in Seq(T) /\ Tail(q) \in Seq(T)
      /\ q = <<Head(q)>> \o Tail(q)
  OBVIOUS
<1>2. HowMany(<<Head(q)>> \o Tail(q), S) = HowMany(<<Head(q)>>, S) + HowMany(Tail(q), S)
  BY <1>1, PlacesJoined
<1>3. HowMany(<<Head(q)>>, S) = One(Head(q) \in S)
  BY PlaceOfOne
<1> QED BY <1>1, <1>2, <1>3

LEMMA SetListed ==
  ASSUME NEW S, IsFiniteSet(S)
  PROVE  SetToSeq(S) \in Seq(S)
<1>1. Cardinality(S) \in Nat /\ ExistsBijection(1 .. Cardinality(S), S)
  BY FS_CardinalityType
<1>2. \E f \in [1 .. Cardinality(S) -> S] : IsInjective(f)
  BY <1>1 DEF ExistsBijection, Bijection, Injection, IsInjective
<1>3. SetToSeq(S) \in [1 .. Cardinality(S) -> S]
  BY <1>2 DEF SetToSeq
<1> QED BY <1>1, <1>3

-----------------------------------------------------------------------------
(* What becomes of a session.                                                *)

SessionTypes ==
  [state : {"none", "shown", "destroyed"}, channel : {"opening", "open", "closed"},
   capabilities : SUBSET {"terminate", "restart"}, terminated : BOOLEAN, sequence : Nat,
   pendingRequests : SUBSET [seq : Nat, command : Commands, again : BOOLEAN],
   waits : SUBSET [seq : Nat, time : {"500", "1000"}, again : BOOLEAN],
   unsent : Seq(Messages)]

Typed(x) == x \in SessionTypes /\ IsFiniteSet(x.pendingRequests) /\ IsFiniteSet(x.waits)

\* What session x waits for in order to be restarted.
AgainOf(x) == {p \in x.pendingRequests : p.again} \cup {w \in x.waits : w.again}
Firsts(x) == {p \in x.pendingRequests : p.command = "initialize"}
Blank(x) == x.capabilities = {} /\ x.pendingRequests = {} /\ x.waits = {}
\* The first request is answered before the capabilities are known.
FirstAlone(x) == \A p \in Firsts(x) : x.capabilities = {} /\ \A q \in Firsts(x) : q = p

LEMMA AgainFinite ==
  ASSUME NEW x, Typed(x)
  PROVE  IsFiniteSet(AgainOf(x)) /\ Cardinality(AgainOf(x)) \in Nat
<1> DEFINE P == {p \in x.pendingRequests : p.again}
           W == {w \in x.waits : w.again}
<1>1. P \in SUBSET x.pendingRequests /\ W \in SUBSET x.waits
  OBVIOUS
<1> HIDE DEF P, W
<1>2. IsFiniteSet(P) /\ IsFiniteSet(W)
  BY <1>1, FS_Subset DEF Typed
<1>3. IsFiniteSet(P \cup W)
  BY <1>2, FS_Union
<1>4. AgainOf(x) = P \cup W
  BY DEF AgainOf, P, W
<1> QED BY <1>3, <1>4, FS_CardinalityType

\* Session x becomes y without more capabilities or another first request, and with
\* at most n more to wait for.
Follows(x, y, n) ==
  /\ Typed(y) /\ y.state = x.state /\ y.capabilities = x.capabilities
  /\ Firsts(y) \subseteq Firsts(x)
  /\ Cardinality(AgainOf(y)) <= Cardinality(AgainOf(x)) + n

LEMMA RequestedIs ==
  ASSUME NEW x, Typed(x), NEW command \in Commands, NEW again \in BOOLEAN
  PROVE  LET y == Requested(x, command, again)
             p == [seq |-> x.sequence + 1, command |-> command, again |-> again]
         IN  /\ Typed(y) /\ y.state = x.state /\ y.capabilities = x.capabilities
             /\ y.pendingRequests = x.pendingRequests \cup {p} /\ y.waits = x.waits
             /\ Firsts(y) = Firsts(x) \cup (IF command = "initialize" THEN {p} ELSE {})
             /\ AgainOf(y) = AgainOf(x) \cup (IF again THEN {p} ELSE {})
             /\ Cardinality(AgainOf(y)) <= Cardinality(AgainOf(x)) + One(again)
<1> DEFINE y == Requested(x, command, again)
           p == [seq |-> x.sequence + 1, command |-> command, again |-> again]
           m == [seq |-> x.sequence + 1, command |-> command]
<1>1. x \in SessionTypes /\ IsFiniteSet(x.pendingRequests) /\ IsFiniteSet(x.waits)
  BY DEF Typed
<1>2. /\ p \in [seq : Nat, command : Commands, again : BOOLEAN] /\ m \in Messages
      /\ p.again = again /\ p.command = command
  BY <1>1 DEF SessionTypes, Messages
<1>3. y = [x EXCEPT !.sequence = x.sequence + 1,
                    !.pendingRequests = @ \cup {p}, !.unsent = Append(@, m)]
  BY DEF Requested
<1> HIDE DEF y, p, m
<1>4. /\ y \in SessionTypes
      /\ y.state = x.state /\ y.capabilities = x.capabilities
      /\ y.pendingRequests = x.pendingRequests \cup {p} /\ y.waits = x.waits
  <2>1. Append(x.unsent, m) \in Seq(Messages) /\ x.sequence + 1 \in Nat
    BY <1>1, <1>2 DEF SessionTypes
  <2>2. x.pendingRequests \cup {p} \in SUBSET [seq : Nat, command : Commands, again : BOOLEAN]
    BY <1>1, <1>2 DEF SessionTypes
  <2> QED BY <1>1, <1>3, <2>1, <2>2 DEF SessionTypes
<1>5. IsFiniteSet(y.pendingRequests) /\ IsFiniteSet(y.waits)
  BY <1>1, <1>4, FS_AddElement
<1>6. Firsts(y) = Firsts(x) \cup (IF command = "initialize" THEN {p} ELSE {})
  BY <1>2, <1>4 DEF Firsts
<1>7. AgainOf(y) = AgainOf(x) \cup (IF again THEN {p} ELSE {})
  BY <1>2, <1>4 DEF AgainOf
<1>8. IsFiniteSet(AgainOf(x)) /\ Cardinality(AgainOf(x)) \in Nat
  BY AgainFinite
<1>9. Cardinality(AgainOf(y)) <= Cardinality(AgainOf(x)) + One(again)
  <2>1. CASE again
    <3>1. AgainOf(y) = AgainOf(x) \cup {p} /\ One(again) = 1
      BY <1>7, <2>1 DEF One
    <3> QED BY <1>8, <3>1, FS_AddElement
  <2>2. CASE ~again
    <3>1. AgainOf(y) = AgainOf(x) /\ One(again) = 0
      BY <1>7, <2>2 DEF One
    <3> QED BY <1>8, <3>1
  <2> QED BY <2>1, <2>2
<1> QED BY <1>4, <1>5, <1>6, <1>7, <1>9 DEF Typed, y, p

LEMMA RequestFollows ==
  ASSUME NEW x, Typed(x), NEW command \in Commands \ {"initialize"}, NEW again \in BOOLEAN
  PROVE  Follows(x, Requested(x, command, again), One(again))
BY RequestedIs DEF Follows

LEMMA TerminateIs ==
  ASSUME NEW x, Typed(x), NEW again \in BOOLEAN
  PROVE  Follows(x, Terminate(x, again), One(again))
<1> DEFINE z == [x EXCEPT !.terminated = TRUE]
<1>1. /\ Typed(z) /\ z.state = x.state /\ z.capabilities = x.capabilities
      /\ Firsts(z) = Firsts(x) /\ AgainOf(z) = AgainOf(x)
  <2>1. /\ z \in SessionTypes /\ z.state = x.state /\ z.capabilities = x.capabilities
        /\ z.pendingRequests = x.pendingRequests /\ z.waits = x.waits
    BY DEF Typed, SessionTypes
  <2> HIDE DEF z
  <2> QED BY <2>1 DEF Typed, Firsts, AgainOf
<1> HIDE DEF z
<1>2. "terminate" \in Commands /\ "disconnect" \in Commands
  BY DEF Commands
<1>3. Follows(x, Requested(z, "terminate", again), One(again))
  BY <1>1, <1>2, RequestedIs DEF Follows
<1>4. Follows(x, Requested(x, "disconnect", again), One(again))
  BY <1>2, RequestedIs DEF Follows
<1> QED BY <1>3, <1>4 DEF Terminate, z

LEMMA RestartIs ==
  ASSUME NEW x, Typed(x)
  PROVE  Follows(x, Restart(x), One("restart" \notin x.capabilities))
<1>1. CASE "restart" \in x.capabilities
  <2> DEFINE z == [x EXCEPT !.terminated = FALSE]
  <2>1. /\ Typed(z) /\ z.state = x.state /\ z.capabilities = x.capabilities
        /\ Firsts(z) = Firsts(x) /\ AgainOf(z) = AgainOf(x)
    <3>1. /\ z \in SessionTypes /\ z.state = x.state /\ z.capabilities = x.capabilities
          /\ z.pendingRequests = x.pendingRequests /\ z.waits = x.waits
      BY DEF Typed, SessionTypes
    <3> HIDE DEF z
    <3> QED BY <3>1 DEF Typed, Firsts, AgainOf
  <2> HIDE DEF z
  <2>2. "restart" \in Commands
    BY DEF Commands
  <2>3. Follows(x, Requested(z, "restart", FALSE), One(FALSE))
    <3>1. ASSUME NEW b \in BOOLEAN PROVE Follows(x, Requested(z, "restart", b), One(b))
      BY <2>1, <2>2, RequestedIs DEF Follows
    <3> QED BY <3>1, Zenon
  <2>4. One("restart" \notin x.capabilities) = One(FALSE)
    BY <1>1 DEF One
  <2>5. Restart(x) = Requested(z, "restart", FALSE)
    BY <1>1 DEF Restart, z
  <2> QED BY <2>3, <2>4, <2>5
<1>2. CASE "restart" \notin x.capabilities
  <2>1. Restart(x) = Terminate(x, TRUE) /\ One("restart" \notin x.capabilities) = One(TRUE)
    BY <1>2 DEF Restart, One
  <2> QED BY <2>1, TerminateIs
<1> QED BY <1>1, <1>2

-----------------------------------------------------------------------------
(* No more sessions are owed than the bound lets be created.                 *)

DebugCalls ==
  [op : {"debugCreate"}] \cup [op : {"debugOpen", "debugTerminate"}, of : Sessions]
  \cup [op : {"debugData"}, of : Sessions, message : Messages]
DebugAnswers ==
  [op : {"debugCreated", "debugReady", "exited"}, of : Sessions]
  \cup [op : {"terminated"}, of : Sessions, restart : BOOLEAN]
  \cup [op : {"response"}, of : Sessions, seq : Nat, success : BOOLEAN,
        capabilities : SUBSET {"terminate", "restart"}]

Spawned == {s \in Sessions : adapters[s].state # "none"}
\* Answers that make the browser end a session in order to create it anew.
Recreating == {a \in DebugAnswers : /\ a.op = "terminated" /\ a.restart
                                    /\ "restart" \notin sessions[a.of].capabilities}
Creations == {CreateCall}
Restarting(ss) == UNION {{<<s, p>> : p \in AgainOf(ss[s])} : s \in Sessions}

\* Sessions created, asked for, and to be asked for by a restart that needs it.
Owed == Cardinality(Spawned) + HowMany(answers, Recreating)
        + HowMany(waiting, Creations) + HowMany(requests, Creations)
        + Cardinality(Restarting(sessions))

DebugTypes ==
  /\ DebugTypeOK /\ \A s \in Sessions : Typed(sessions[s])
  /\ waiting \in Seq(DebugCalls) /\ requests \in Seq(DebugCalls) /\ answers \in Seq(DebugAnswers)

LEMMA SessionsFinite ==
  /\ MaxSessions \in Nat /\ IsFiniteSet(Sessions) /\ Cardinality(Sessions) = MaxSessions
  /\ \A s \in Sessions : s \in Nat
BY DebugAssumption, FS_Interval DEF Sessions

LEMMA Paired ==
  ASSUME NEW s, NEW A, IsFiniteSet(A)
  PROVE  /\ IsFiniteSet({<<s, p>> : p \in A})
         /\ Cardinality({<<s, p>> : p \in A}) = Cardinality(A)
<1> DEFINE R == {<<s, p>> : p \in A}
           f == [p \in A |-> <<s, p>>]
<1>1. f \in [A -> R] /\ (\A r \in R : \E p \in A : f[p] = r)
      /\ \A p, q \in A : f[p] = f[q] => p = q
  OBVIOUS
<1> HIDE DEF R, f
<1>2. f \in Bijection(A, R)
  BY <1>1 DEF Bijection, Injection, Surjection, IsInjective
<1> QED BY <1>2, FS_Bijection DEF ExistsBijection, R

LEMMA RestartingCounted ==
  ASSUME NEW ss, \A s \in Sessions : Typed(ss[s])
  PROVE  IsFiniteSet(Restarting(ss)) /\ Cardinality(Restarting(ss)) \in Nat
<1> DEFINE family == [s \in Sessions |-> {<<s, p>> : p \in AgainOf(ss[s])}]
           F == {family[s] : s \in Sessions}
<1>1. \A s \in Sessions : IsFiniteSet(family[s])
  <2>1. ASSUME NEW s \in Sessions PROVE IsFiniteSet({<<s, p>> : p \in AgainOf(ss[s])})
    BY AgainFinite, Paired
  <2> QED BY <2>1
<1>2. Restarting(ss) = UNION F
  BY DEF Restarting
<1>3. DOMAIN family = Sessions
  OBVIOUS
<1> HIDE DEF family
<1>4. IsFiniteSet(F)
  BY <1>3, SessionsFinite, ImageFinite
<1>5. \A T \in F : IsFiniteSet(T)
  BY <1>1
<1> HIDE DEF F
<1>6. IsFiniteSet(UNION F)
  BY <1>4, <1>5, FS_UNION
<1> QED BY <1>2, <1>6, FS_CardinalityType

LEMMA RestartingChanged ==
  ASSUME NEW ss, \A t \in Sessions : Typed(ss[t]), NEW tt, \A t \in Sessions : Typed(tt[t]),
         NEW s \in Sessions, \A t \in Sessions \ {s} : AgainOf(tt[t]) = AgainOf(ss[t])
  PROVE  Cardinality(Restarting(tt)) + Cardinality(AgainOf(ss[s]))
         = Cardinality(Restarting(ss)) + Cardinality(AgainOf(tt[s]))
<1> DEFINE Of(u) == {<<s, p>> : p \in AgainOf(u[s])}
           rest == Restarting(ss) \ Of(ss)
<1>1. Restarting(ss) = rest \cup Of(ss) /\ rest \cap Of(ss) = {}
  BY DEF Restarting
<1>2. Restarting(tt) = rest \cup Of(tt) /\ rest \cap Of(tt) = {}
  <2>1. rest = UNION {{<<t, p>> : p \in AgainOf(ss[t])} : t \in Sessions \ {s}}
    BY DEF Restarting
  <2>2. UNION {{<<t, p>> : p \in AgainOf(ss[t])} : t \in Sessions \ {s}}
        = UNION {{<<t, p>> : p \in AgainOf(tt[t])} : t \in Sessions \ {s}}
    OBVIOUS
  <2> HIDE DEF rest
  <2>3. rest = UNION {{<<t, p>> : p \in AgainOf(tt[t])} : t \in Sessions \ {s}}
    BY <2>1, <2>2
  <2> QED BY <2>3 DEF Restarting
<1>3. IsFiniteSet(rest) /\ Cardinality(rest) \in Nat
  <2>1. IsFiniteSet(Restarting(ss)) /\ rest \in SUBSET Restarting(ss)
    BY RestartingCounted
  <2> HIDE DEF rest
  <2> QED BY <2>1, FS_Subset, FS_CardinalityType
<1>4. /\ IsFiniteSet(AgainOf(ss[s])) /\ Cardinality(AgainOf(ss[s])) \in Nat
      /\ IsFiniteSet(AgainOf(tt[s])) /\ Cardinality(AgainOf(tt[s])) \in Nat
  BY AgainFinite
<1>5. /\ IsFiniteSet(Of(ss)) /\ Cardinality(Of(ss)) = Cardinality(AgainOf(ss[s]))
      /\ IsFiniteSet(Of(tt)) /\ Cardinality(Of(tt)) = Cardinality(AgainOf(tt[s]))
  BY <1>4, Paired
<1> DEFINE P == Of(ss)
           Q == Of(tt)
<1> HIDE DEF rest, P, Q
<1>6. /\ Cardinality(rest \cup P) = Cardinality(rest) + Cardinality(P) - Cardinality(rest \cap P)
      /\ Cardinality(rest \cup Q) = Cardinality(rest) + Cardinality(Q) - Cardinality(rest \cap Q)
  BY <1>3, <1>5, FS_Union DEF P, Q
<1>7. Cardinality(rest \cap P) = 0 /\ Cardinality(rest \cap Q) = 0
  BY <1>1, <1>2, FS_EmptySet DEF P, Q
<1>8. Restarting(ss) = rest \cup P /\ Restarting(tt) = rest \cup Q
  BY <1>1, <1>2 DEF P, Q
<1>9. Cardinality(P) = Cardinality(AgainOf(ss[s])) /\ Cardinality(Q) = Cardinality(AgainOf(tt[s]))
  BY <1>5 DEF P, Q
<1> DEFINE a == Cardinality(AgainOf(ss[s]))
           b == Cardinality(AgainOf(tt[s]))
           r == Cardinality(rest)
<1>10. Cardinality(Restarting(ss)) = r + a /\ Cardinality(Restarting(tt)) = r + b
       /\ r \in Nat /\ a \in Nat /\ b \in Nat
  BY <1>3, <1>4, <1>6, <1>7, <1>8, <1>9
<1> HIDE DEF a, b, r
<1>11. Cardinality(Restarting(tt)) + a = Cardinality(Restarting(ss)) + b
  BY <1>10
<1> QED BY <1>11 DEF a, b

LEMMA SpawnedCounted ==
  /\ IsFiniteSet(Spawned) /\ Cardinality(Spawned) \in Nat
<1>1. Spawned \in SUBSET Sessions
  BY DEF Spawned
<1> QED BY <1>1, SessionsFinite, FS_Subset, FS_CardinalityType

\* Each part of what is owed is a number.
LEMMA OwedParts ==
  ASSUME DebugTypes
  PROVE  /\ Cardinality(Spawned) \in Nat /\ HowMany(answers, Recreating) \in Nat
         /\ HowMany(waiting, Creations) \in Nat /\ HowMany(requests, Creations) \in Nat
         /\ Cardinality(Restarting(sessions)) \in Nat
BY SpawnedCounted, PlacesCounted, RestartingCounted DEF DebugTypes

LEMMA OwedIsOrdered ==
  ASSUME DebugTypes
  PROVE  Owed <= Ordered /\ Owed \in Nat /\ Ordered \in Nat
<1> DEFINE Asks == {a \in DebugAnswers : a.op = "terminated" /\ a.restart}
           u == Cardinality({i \in DOMAIN answers : answers[i].op = "terminated" /\ answers[i].restart})
<1>1. answers \in Seq(DebugAnswers)
  BY DEF DebugTypes
<1>2. HowMany(answers, Asks) = u
  <2>1. {i \in DOMAIN answers : answers[i] \in Asks}
        = {i \in DOMAIN answers : answers[i].op = "terminated" /\ answers[i].restart}
    BY <1>1
  <2> QED BY <2>1 DEF HowMany, Places
<1>3. HowMany(answers, Recreating) <= HowMany(answers, Asks) /\ HowMany(answers, Asks) \in Nat
  <2>1. \A a \in DebugAnswers : a \in Recreating => a \in Asks
    BY DEF Recreating
  <2> HIDE DEF Asks
  <2> QED BY <1>1, <2>1, FewerPlaces, PlacesCounted
<1>4. Count(waiting, CreateCall) = HowMany(waiting, Creations)
      /\ Count(requests, CreateCall) = HowMany(requests, Creations)
  <2>1. \A q : {i \in DOMAIN q : q[i] = CreateCall} = Places(q, Creations)
    BY DEF Places, Creations
  <2> QED BY <2>1 DEF Count, HowMany
<1>5. Restarting(sessions) =
        UNION {{<<s, p>> : p \in {q \in sessions[s].pendingRequests : q.again}}
               \cup {<<s, w>> : w \in {v \in sessions[s].waits : v.again}} : s \in Sessions}
  <2> DEFINE A(s) == {p \in sessions[s].pendingRequests : p.again}
             B(s) == {v \in sessions[s].waits : v.again}
  <2>1. \A s : AgainOf(sessions[s]) = A(s) \cup B(s)
    BY DEF AgainOf
  <2> HIDE DEF A, B
  <2>2. Restarting(sessions)
        = UNION {{<<s, p>> : p \in A(s)} \cup {<<s, w>> : w \in B(s)} : s \in Sessions}
    BY <2>1 DEF Restarting
  <2> QED BY <2>2 DEF A, B
<1>6. Ordered = Cardinality(Spawned) + u
                + HowMany(waiting, Creations) + HowMany(requests, Creations)
                + Cardinality(Restarting(sessions))
  BY <1>4, <1>5 DEF Ordered, Spawned
<1> DEFINE c == Cardinality(Spawned)
           w == HowMany(waiting, Creations)
           q == HowMany(requests, Creations)
           r == Cardinality(Restarting(sessions))
           h == HowMany(answers, Recreating)
<1>7. /\ Owed = c + h + w + q + r /\ Ordered = c + u + w + q + r
      /\ h <= u /\ u \in Nat /\ c \in Nat /\ w \in Nat /\ q \in Nat /\ r \in Nat /\ h \in Nat
  BY <1>2, <1>3, <1>6, OwedParts DEF Owed
<1> HIDE DEF c, w, q, r, h, u
<1> QED BY <1>7

-----------------------------------------------------------------------------
(* What holds of the sessions, and what a step of the browser does.          *)

InOrder == Spawned = 1 .. Cardinality(Spawned)
SessionsKnown ==
  \A s \in Sessions : /\ adapters[s].state = "none" => sessions[s].state = "none"
                      /\ sessions[s].state = "none" => Blank(sessions[s])
                      /\ FirstAlone(sessions[s])
\* An adapter is told of only once, and its session begins with that.
CreatedOnce ==
  \A i \in DOMAIN answers : answers[i].op = "debugCreated" =>
    /\ adapters[answers[i].of].state # "none" /\ sessions[answers[i].of].state = "none"
    /\ \A j \in DOMAIN answers :
         answers[j].op = "debugCreated" /\ answers[j].of = answers[i].of => j = i

DebugInv == DebugTypes /\ Owed <= MaxSessions /\ InOrder /\ SessionsKnown /\ CreatedOnce

LEMMA CalledIs ==
  ASSUME DebugTypes, NEW calls \in Seq(DebugCalls), Call(calls)
  PROVE  /\ waiting' \in Seq(DebugCalls) /\ requests' \in Seq(DebugCalls)
         /\ HowMany(waiting', Creations) + HowMany(requests', Creations)
            = HowMany(waiting, Creations) + HowMany(requests, Creations) + HowMany(calls, Creations)
<1>1. waiting \in Seq(DebugCalls) /\ requests \in Seq(DebugCalls)
  BY DEF DebugTypes
<1>2. /\ HowMany(waiting, Creations) \in Nat /\ HowMany(requests, Creations) \in Nat
      /\ HowMany(calls, Creations) \in Nat
  BY <1>1, PlacesCounted
<1>3. CASE connectionPromise = 0
  <2>1. waiting' = waiting \o calls /\ requests' = requests
    BY <1>3 DEF Call
  <2>2. waiting' \in Seq(DebugCalls)
    BY <1>1, <2>1, AppendedAt
  <2>3. HowMany(waiting', Creations) = HowMany(waiting, Creations) + HowMany(calls, Creations)
    BY <1>1, <2>1, PlacesJoined
  <2>4. HowMany(requests', Creations) = HowMany(requests, Creations)
    BY <2>1
  <2> QED BY <1>1, <1>2, <2>1, <2>2, <2>3, <2>4
<1>4. CASE connectionPromise # 0
  <2>1. requests' = requests \o calls /\ waiting' = waiting
    BY <1>4 DEF Call
  <2>2. requests' \in Seq(DebugCalls)
    BY <1>1, <2>1, AppendedAt
  <2>3. HowMany(requests', Creations) = HowMany(requests, Creations) + HowMany(calls, Creations)
    BY <1>1, <2>1, PlacesJoined
  <2>4. HowMany(waiting', Creations) = HowMany(waiting, Creations)
    BY <2>1
  <2> QED BY <1>1, <1>2, <2>1, <2>2, <2>3, <2>4
<1> QED BY <1>3, <1>4

SameButUnsent(x, y) ==
  /\ Typed(y) /\ y.state = x.state /\ y.capabilities = x.capabilities
  /\ y.pendingRequests = x.pendingRequests /\ y.waits = x.waits

LEMMA BecomesIs ==
  ASSUME DebugTypes, NEW s \in Sessions, NEW x, Typed(x), NEW calls \in Seq(DebugCalls),
         Becomes(s, x, calls)
  PROVE  /\ \E y : SameButUnsent(x, y) /\ sessions' = [sessions EXCEPT ![s] = y]
         /\ waiting' \in Seq(DebugCalls) /\ requests' \in Seq(DebugCalls)
         /\ HowMany(waiting', Creations) + HowMany(requests', Creations)
            = HowMany(waiting, Creations) + HowMany(requests, Creations) + HowMany(calls, Creations)
<1> DEFINE data == [i \in DOMAIN x.unsent |-> [op |-> "debugData", of |-> s, message |-> x.unsent[i]]]
           z == [x EXCEPT !.unsent = <<>>]
<1>1. x \in SessionTypes /\ IsFiniteSet(x.pendingRequests) /\ IsFiniteSet(x.waits)
  BY DEF Typed
<1>2. CASE x.channel = "open"
  <2>1. sessions' = [sessions EXCEPT ![s] = z] /\ Call(data \o calls)
    BY <1>2 DEF Becomes
  <2>2. SameButUnsent(x, z)
    <3>1. /\ z \in SessionTypes /\ z.state = x.state /\ z.capabilities = x.capabilities
          /\ z.pendingRequests = x.pendingRequests /\ z.waits = x.waits
      <4>1. <<>> \in Seq(Messages)
        OBVIOUS
      <4> QED BY <1>1, <4>1 DEF SessionTypes
    <3> HIDE DEF z
    <3> QED BY <1>1, <3>1 DEF SameButUnsent, Typed
  <2>3. data \in Seq(DebugCalls) /\ \A i \in DOMAIN data : data[i] \notin Creations
    <3> DEFINE u == x.unsent
    <3>1. u \in Seq(Messages)
      BY <1>1 DEF SessionTypes
    <3> HIDE DEF u
    <3>2. Len(u) \in Nat /\ DOMAIN u = 1 .. Len(u) /\ \A i \in DOMAIN u : u[i] \in Messages
      BY <3>1
    <3> DEFINE d == [i \in DOMAIN u |-> [op |-> "debugData", of |-> s, message |-> u[i]]]
    <3>3. \A i \in DOMAIN u : /\ d[i] = [op |-> "debugData", of |-> s, message |-> u[i]]
                              /\ d[i] \in DebugCalls /\ d[i].op # "debugCreate"
      BY <3>2 DEF DebugCalls
    <3>4. DOMAIN d = 1 .. Len(u)
      BY <3>2
    <3>5. d = [i \in 1 .. Len(u) |-> d[i]]
      BY <3>2
    <3>6. d = data
      BY DEF u
    <3> HIDE DEF d
    <3>7. d \in [1 .. Len(u) -> DebugCalls]
      BY <3>2, <3>3, <3>5
    <3>8. d \in Seq(DebugCalls)
      BY <3>2, <3>7
    <3>9. \A i \in DOMAIN d : d[i] \notin Creations
      BY <3>2, <3>3, <3>4 DEF Creations, CreateCall
    <3> QED BY <3>6, <3>8, <3>9
  <2> HIDE DEF data
  <2>4. HowMany(data \o calls, Creations) = HowMany(calls, Creations) /\ data \o calls \in Seq(DebugCalls)
    <3>1. HowMany(data, Creations) = 0
      BY <2>3, NoPlaces
    <3>2. HowMany(data \o calls, Creations) = HowMany(data, Creations) + HowMany(calls, Creations)
      BY <2>3, PlacesJoined
    <3>3. HowMany(calls, Creations) \in Nat
      BY PlacesCounted
    <3>4. data \o calls \in Seq(DebugCalls)
      BY <2>3, AppendedAt
    <3> QED BY <3>1, <3>2, <3>3, <3>4
  <2> DEFINE joined == data \o calls
  <2>5. joined \in Seq(DebugCalls) /\ Call(joined) /\ HowMany(joined, Creations) = HowMany(calls, Creations)
    BY <2>1, <2>4
  <2> HIDE DEF joined, z
  <2>6. /\ waiting' \in Seq(DebugCalls) /\ requests' \in Seq(DebugCalls)
        /\ HowMany(waiting', Creations) + HowMany(requests', Creations)
           = HowMany(waiting, Creations) + HowMany(requests, Creations) + HowMany(joined, Creations)
    BY <2>5, CalledIs
  <2> QED BY <2>1, <2>2, <2>5, <2>6
<1>3. CASE x.channel # "open"
  <2>1. sessions' = [sessions EXCEPT ![s] = x] /\ Call(calls)
    BY <1>3 DEF Becomes
  <2>2. SameButUnsent(x, x)
    BY DEF SameButUnsent
  <2> QED BY <2>1, <2>2, CalledIs
<1> QED BY <1>2, <1>3

LEMMA SameAgain ==
  ASSUME NEW x, NEW y, SameButUnsent(x, y)
  PROVE  /\ AgainOf(y) = AgainOf(x) /\ Firsts(y) = Firsts(x)
         /\ Blank(x) => Blank(y)
         /\ FirstAlone(x) => FirstAlone(y)
BY DEF SameButUnsent, AgainOf, Firsts, Blank, FirstAlone

\* The sum of what is owed, when calls are made and a session waits for another
\* number of restarts.
LEMMA StillWithin ==
  ASSUME NEW c \in Nat, NEW w \in Nat, NEW q \in Nat, NEW r \in Nat, NEW ax \in Nat, NEW ay \in Nat,
         NEW wy \in Nat, NEW qy \in Nat, NEW ry \in Nat, NEW k \in Nat, NEW n \in Nat, NEW m \in Nat,
         NEW most \in Nat,
         ay <= ax, wy + qy = w + q + k, ry + m = r + n, ax + k + n + c + w + q + r <= m + most
  PROVE  c + ay + wy + qy + ry <= most
OBVIOUS

\* A session moves, and makes calls, while an answer may be taken: all is kept if
\* what is owed then is within the bound.
LEMMA BrowserMove ==
  ASSUME DebugInv, NEW s \in Sessions, NEW x, Typed(x), FirstAlone(x),
         x.state = "none" => Blank(x), adapters[s].state = "none" => x.state = "none",
         sessions[s].capabilities \subseteq x.capabilities,
         NEW calls \in Seq(DebugCalls), Becomes(s, x, calls),
         adapters' = adapters, stops' \in 0 .. MaxStops, orphans' \subseteq Sessions,
         stuck' \subseteq Sessions,
         answers' = answers \/ (answers # <<>> /\ answers' = Tail(answers)),
         \A i \in DOMAIN answers' :
           answers'[i].op = "debugCreated" /\ answers'[i].of = s => x.state = "none",
         HowMany(answers', Recreating) + HowMany(calls, Creations) + Cardinality(AgainOf(x)) + Owed
           <= HowMany(answers, Recreating) + Cardinality(AgainOf(sessions[s])) + MaxSessions
  PROVE  DebugInv'
<1>1. /\ DebugTypes /\ Owed <= MaxSessions /\ InOrder /\ SessionsKnown /\ CreatedOnce
      /\ DebugTypeOK /\ \A t \in Sessions : Typed(sessions[t])
      /\ answers \in Seq(DebugAnswers)
  BY DEF DebugInv, DebugTypes
<1>2. sessions \in [Sessions -> SessionTypes]
  BY <1>1 DEF DebugTypeOK, SessionTypes
<1>3. PICK y : SameButUnsent(x, y) /\ sessions' = [sessions EXCEPT ![s] = y]
  BY <1>1, BecomesIs
<1>4. /\ waiting' \in Seq(DebugCalls) /\ requests' \in Seq(DebugCalls)
      /\ HowMany(waiting', Creations) + HowMany(requests', Creations)
         = HowMany(waiting, Creations) + HowMany(requests, Creations) + HowMany(calls, Creations)
  BY <1>1, BecomesIs
<1>5. /\ sessions'[s] = y /\ Typed(y) /\ y \in SessionTypes
      /\ \A t \in Sessions \ {s} : sessions'[t] = sessions[t]
      /\ sessions' \in [Sessions -> SessionTypes]
      /\ y.state = x.state /\ y.capabilities = x.capabilities
      /\ AgainOf(y) = AgainOf(x) /\ (Blank(x) => Blank(y)) /\ FirstAlone(y)
  <2>1. Typed(y) /\ y.state = x.state /\ y.capabilities = x.capabilities
    BY <1>3 DEF SameButUnsent
  <2>2. y \in SessionTypes
    BY <2>1 DEF Typed
  <2>3. AgainOf(y) = AgainOf(x) /\ (Blank(x) => Blank(y)) /\ FirstAlone(y)
    BY <1>3, SameAgain
  <2> QED BY <1>2, <1>3, <2>1, <2>2, <2>3
<1>6. answers' \in Seq(DebugAnswers)
  BY <1>1, TailOf
<1>7. \A t \in Sessions : Typed(sessions'[t])
  BY <1>1, <1>5
<1>8. DebugTypes'
  <2>1. DebugTypeOK'
    <3>1. /\ sessions' \in [Sessions -> SessionTypes]
          /\ adapters' = adapters /\ stops' \in 0 .. MaxStops /\ orphans' \subseteq Sessions
          /\ stuck' \subseteq Sessions
      BY <1>5
    <3> QED BY <1>1, <3>1 DEF DebugTypeOK, SessionTypes
  <2> QED BY <1>4, <1>6, <1>7, <2>1 DEF DebugTypes
<1>9. Cardinality(Restarting(sessions)') + Cardinality(AgainOf(sessions[s]))
      = Cardinality(Restarting(sessions)) + Cardinality(AgainOf(x))
  <2> DEFINE tt == sessions'
  <2>1. Restarting(sessions)' = Restarting(tt)
    BY DEF Restarting
  <2>2. AgainOf(tt[s]) = AgainOf(x) /\ \A t \in Sessions \ {s} : AgainOf(tt[t]) = AgainOf(sessions[t])
    BY <1>5
  <2>3. \A t \in Sessions : Typed(tt[t])
    BY <1>7
  <2> HIDE DEF tt
  <2>4. Cardinality(Restarting(tt)) + Cardinality(AgainOf(sessions[s]))
        = Cardinality(Restarting(sessions)) + Cardinality(AgainOf(tt[s]))
    BY <1>1, <2>2, <2>3, RestartingChanged
  <2> QED BY <2>1, <2>2, <2>4
<1>10. HowMany(answers', Recreating') <= HowMany(answers', Recreating)
  <2>1. ASSUME NEW a \in DebugAnswers, a \in Recreating' PROVE a \in Recreating
    <3>1. a.of \in Sessions /\ a.op = "terminated" /\ a.restart
          /\ "restart" \notin sessions'[a.of].capabilities
      BY <2>1 DEF Recreating, DebugAnswers
    <3>2. "restart" \notin sessions[a.of].capabilities
      BY <1>5, <3>1
    <3> QED BY <3>1, <3>2 DEF Recreating
  <2> DEFINE R == Recreating'
             q == answers'
  <2>2. (\A a \in DebugAnswers : a \in R => a \in Recreating) /\ q \in Seq(DebugAnswers)
    BY <1>6, <2>1
  <2> HIDE DEF R, q
  <2>3. HowMany(q, R) <= HowMany(q, Recreating)
    BY <2>2, FewerPlaces
  <2> QED BY <2>3 DEF R, q
<1>11. (Owed <= MaxSessions)'
  <2>1. Cardinality(Spawned)' = Cardinality(Spawned)
    BY DEF Spawned
  <2>2. Owed' = Cardinality(Spawned)' + HowMany(answers', Recreating')
                + HowMany(waiting', Creations) + HowMany(requests', Creations)
                + Cardinality(Restarting(sessions)')
    BY DEF Owed, Creations, CreateCall
  <2>3. /\ Cardinality(Spawned) \in Nat /\ HowMany(answers, Recreating) \in Nat
        /\ HowMany(waiting, Creations) \in Nat /\ HowMany(requests, Creations) \in Nat
        /\ Cardinality(Restarting(sessions)) \in Nat
    BY <1>1, OwedParts
  <2>4. /\ HowMany(answers', Recreating') \in Nat /\ HowMany(answers', Recreating) \in Nat
        /\ HowMany(waiting', Creations) \in Nat /\ HowMany(requests', Creations) \in Nat
        /\ HowMany(calls, Creations) \in Nat
    BY <1>4, <1>6, PlacesCounted
  <2>5. /\ Cardinality(AgainOf(x)) \in Nat /\ Cardinality(AgainOf(sessions[s])) \in Nat
        /\ Cardinality(Restarting(sessions)') \in Nat
    <3> DEFINE tt == sessions'
    <3>1. \A t \in Sessions : Typed(tt[t])
      BY <1>7
    <3> HIDE DEF tt
    <3>2. Cardinality(Restarting(tt)) \in Nat
      BY <3>1, RestartingCounted
    <3>3. Restarting(sessions)' = Restarting(tt)
      BY DEF Restarting, tt
    <3> QED BY <1>1, <3>2, <3>3, AgainFinite
  <2> DEFINE c == Cardinality(Spawned)
             a == HowMany(answers, Recreating)
             w == HowMany(waiting, Creations)
             q == HowMany(requests, Creations)
             r == Cardinality(Restarting(sessions))
             ax == HowMany(answers', Recreating)
             ay == HowMany(answers', Recreating')
             wy == HowMany(waiting', Creations)
             qy == HowMany(requests', Creations)
             ry == Cardinality(Restarting(sessions)')
             k == HowMany(calls, Creations)
             n == Cardinality(AgainOf(x))
             m == Cardinality(AgainOf(sessions[s]))
  <2>6. /\ Owed = c + a + w + q + r /\ Owed' = c + ay + wy + qy + ry
        /\ ax + k + n + Owed <= a + m + MaxSessions
        /\ ay <= ax /\ wy + qy = w + q + k /\ ry + m = r + n
        /\ MaxSessions \in Nat
    <3>1. Owed = c + a + w + q + r
      BY DEF Owed
    <3>2. Owed' = c + ay + wy + qy + ry
      BY <2>1, <2>2 DEF Owed
    <3>3. ax + k + n + Owed <= a + m + MaxSessions
      OBVIOUS
    <3>4. ay <= ax /\ wy + qy = w + q + k
      BY <1>4, <1>10
    <3>5. ry + m = r + n
      BY <1>9
    <3>6. MaxSessions \in Nat
      BY SessionsFinite
    <3> HIDE DEF c, a, w, q, r, ax, ay, wy, qy, ry, k, n, m
    <3> QED BY <3>1, <3>2, <3>3, <3>4, <3>5, <3>6
  <2>7. /\ c \in Nat /\ a \in Nat /\ w \in Nat /\ q \in Nat /\ r \in Nat /\ ax \in Nat /\ ay \in Nat
        /\ wy \in Nat /\ qy \in Nat /\ ry \in Nat /\ k \in Nat /\ n \in Nat /\ m \in Nat
    BY <2>3, <2>4, <2>5
  <2> HIDE DEF c, a, w, q, r, ax, ay, wy, qy, ry, k, n, m
  <2>8. c + ay + wy + qy + ry <= MaxSessions
    <3> DEFINE o == Owed
    <3>1. o = c + a + w + q + r /\ ax + k + n + o <= a + m + MaxSessions
      BY <2>6
    <3> HIDE DEF o
    <3>2. ax + k + n + c + w + q + r <= m + MaxSessions
      BY <2>6, <2>7, <3>1
    <3> QED BY <2>6, <2>7, <3>2, StillWithin
  <2>9. Owed' <= MaxSessions
    BY <2>6, <2>8
  <2> QED BY <2>9
<1>12. InOrder'
  BY <1>1 DEF InOrder, Spawned
<1>13. SessionsKnown'
  <2>1. ASSUME NEW t \in Sessions
        PROVE  /\ adapters'[t].state = "none" => sessions'[t].state = "none"
               /\ sessions'[t].state = "none" => Blank(sessions'[t])
               /\ FirstAlone(sessions'[t])
    <3>1. CASE t = s
      BY <1>5, <3>1
    <3>2. CASE t # s
      BY <1>1, <1>5, <3>2 DEF SessionsKnown
    <3> QED BY <3>1, <3>2
  <2> QED BY <2>1 DEF SessionsKnown, Blank, FirstAlone, Firsts
<1>14. CreatedOnce'
  <2>1. PICK d \in {0, 1} : \A i \in DOMAIN answers' : /\ i \in Nat /\ i + d \in DOMAIN answers
                                                      /\ answers'[i] = answers[i + d]
    <3>1. CASE answers' = answers
      <4>1. \A i \in DOMAIN answers' : i \in Nat /\ i + 0 \in DOMAIN answers /\ answers'[i] = answers[i + 0]
        BY <1>1, <3>1
      <4> QED BY <4>1
    <3>2. CASE answers # <<>> /\ answers' = Tail(answers)
      <4>1. \A i \in DOMAIN answers' : i \in Nat /\ i + 1 \in DOMAIN answers /\ answers'[i] = answers[i + 1]
        BY <1>1, <3>2, TailOf
      <4> QED BY <4>1
    <3> QED BY <3>1, <3>2
  <2>2. ASSUME NEW i \in DOMAIN answers', answers'[i].op = "debugCreated"
        PROVE  /\ adapters'[answers'[i].of].state # "none" /\ sessions'[answers'[i].of].state = "none"
               /\ \A j \in DOMAIN answers' :
                    answers'[j].op = "debugCreated" /\ answers'[j].of = answers'[i].of => j = i
    <3>1. i \in Nat /\ i + d \in DOMAIN answers /\ answers'[i] = answers[i + d]
      BY <2>1
    <3>2. /\ adapters[answers[i + d].of].state # "none"
          /\ sessions[answers[i + d].of].state = "none"
          /\ \A j \in DOMAIN answers :
               answers[j].op = "debugCreated" /\ answers[j].of = answers[i + d].of => j = i + d
      BY <1>1, <2>2, <3>1 DEF CreatedOnce
    <3>3. answers'[i].of \in Sessions
      <4>1. answers'[i] \in DebugAnswers
        BY <1>6
      <4> QED BY <4>1 DEF DebugAnswers
    <3>4. sessions'[answers'[i].of].state = "none"
      <4>1. CASE answers'[i].of = s
        BY <1>5, <2>2, <4>1
      <4>2. CASE answers'[i].of # s
        BY <1>5, <3>1, <3>2, <3>3, <4>2
      <4> QED BY <4>1, <4>2
    <3>5. ASSUME NEW j \in DOMAIN answers', answers'[j].op = "debugCreated",
                 answers'[j].of = answers'[i].of
          PROVE  j = i
      <4>1. j \in Nat /\ j + d \in DOMAIN answers /\ answers'[j] = answers[j + d]
        BY <2>1
      <4>2. j + d = i + d
        BY <3>1, <3>2, <3>5, <4>1
      <4> QED BY <3>1, <4>1, <4>2
    <3> QED BY <3>1, <3>2, <3>4, <3>5
  <2> QED BY <2>2 DEF CreatedOnce
<1> QED BY <1>8, <1>11, <1>12, <1>13, <1>14 DEF DebugInv

LEMMA FollowsIs ==
  ASSUME NEW x, NEW y, NEW n, Follows(x, y, n), FirstAlone(x)
  PROVE  FirstAlone(y)
BY DEF Follows, FirstAlone

\* Requests and waits are told apart by their fields.
LEMMA RequestIsNoWait ==
  ASSUME NEW x, Typed(x)
  PROVE  x.pendingRequests \cap x.waits = {}
<1>1. /\ x.pendingRequests \subseteq [seq : Nat, command : Commands, again : BOOLEAN]
      /\ x.waits \subseteq [seq : Nat, time : {"500", "1000"}, again : BOOLEAN]
  BY DEF Typed, SessionTypes
<1>2. ASSUME NEW p \in [seq : Nat, command : Commands, again : BOOLEAN],
             p \in [seq : Nat, time : {"500", "1000"}, again : BOOLEAN]
      PROVE  FALSE
  <2>1. DOMAIN p = {"seq", "command", "again"} /\ DOMAIN p = {"seq", "time", "again"}
    BY <1>2
  <2> QED BY <2>1
<1> QED BY <1>1, <1>2

LEMMA AnsweredIs ==
  ASSUME NEW x, Typed(x), NEW p \in x.pendingRequests
  PROVE  LET y == [x EXCEPT !.pendingRequests = @ \ {p}]
         IN  /\ Typed(y) /\ y.state = x.state /\ y.capabilities = x.capabilities
             /\ y.waits = x.waits /\ Firsts(y) = Firsts(x) \ {p}
             /\ Cardinality(AgainOf(y)) + One(p.again) <= Cardinality(AgainOf(x))
             /\ p.again \in BOOLEAN /\ p.seq \in Nat /\ p.command \in Commands
<1> DEFINE y == [x EXCEPT !.pendingRequests = @ \ {p}]
<1>1. x \in SessionTypes /\ IsFiniteSet(x.pendingRequests) /\ IsFiniteSet(x.waits)
  BY DEF Typed
<1>2. p \in [seq : Nat, command : Commands, again : BOOLEAN]
  BY <1>1 DEF SessionTypes
<1>3. /\ y \in SessionTypes /\ y.state = x.state /\ y.capabilities = x.capabilities
      /\ y.waits = x.waits /\ y.pendingRequests = x.pendingRequests \ {p}
  BY <1>1 DEF SessionTypes
<1> HIDE DEF y
<1>4. Typed(y)
  BY <1>1, <1>3, FS_RemoveElement DEF Typed
<1>5. Firsts(y) = Firsts(x) \ {p}
  BY <1>3 DEF Firsts
<1>6. IsFiniteSet(AgainOf(x)) /\ Cardinality(AgainOf(x)) \in Nat
  BY AgainFinite
<1>7. Cardinality(AgainOf(y)) + One(p.again) <= Cardinality(AgainOf(x))
  <2>1. CASE p.again
    <3>1. p \in AgainOf(x) /\ AgainOf(y) = AgainOf(x) \ {p}
      BY <1>3, <2>1, RequestIsNoWait DEF AgainOf
    <3>2. Cardinality(AgainOf(x) \ {p}) = Cardinality(AgainOf(x)) - 1
      BY <1>6, <3>1, FS_RemoveElement
    <3>3. One(p.again) = 1
      BY <2>1 DEF One
    <3> QED BY <1>6, <3>1, <3>2, <3>3
  <2>2. CASE ~p.again
    <3>1. AgainOf(y) = AgainOf(x)
      BY <1>3, <2>2 DEF AgainOf
    <3>2. One(p.again) = 0
      BY <2>2 DEF One
    <3> QED BY <1>6, <3>1, <3>2
  <2> QED BY <2>1, <2>2
<1> QED BY <1>2, <1>3, <1>4, <1>5, <1>7 DEF y

LEMMA WaitTaken ==
  ASSUME NEW x, Typed(x), NEW w \in x.waits
  PROVE  LET y == [x EXCEPT !.waits = @ \ {w}]
         IN  /\ Typed(y) /\ y.state = x.state /\ y.capabilities = x.capabilities
             /\ Firsts(y) = Firsts(x)
             /\ Cardinality(AgainOf(y)) + One(w.again) <= Cardinality(AgainOf(x))
             /\ w.again \in BOOLEAN
<1> DEFINE y == [x EXCEPT !.waits = @ \ {w}]
<1>1. x \in SessionTypes /\ IsFiniteSet(x.pendingRequests) /\ IsFiniteSet(x.waits)
  BY DEF Typed
<1>2. w \in [seq : Nat, time : {"500", "1000"}, again : BOOLEAN]
  BY <1>1 DEF SessionTypes
<1>3. /\ y \in SessionTypes /\ y.state = x.state /\ y.capabilities = x.capabilities
      /\ y.waits = x.waits \ {w} /\ y.pendingRequests = x.pendingRequests
  BY <1>1 DEF SessionTypes
<1> HIDE DEF y
<1>4. Typed(y)
  BY <1>1, <1>3, FS_RemoveElement DEF Typed
<1>5. Firsts(y) = Firsts(x)
  BY <1>3 DEF Firsts
<1>6. IsFiniteSet(AgainOf(x)) /\ Cardinality(AgainOf(x)) \in Nat
  BY AgainFinite
<1>7. Cardinality(AgainOf(y)) + One(w.again) <= Cardinality(AgainOf(x))
  <2>1. CASE w.again
    <3>1. w \in AgainOf(x) /\ AgainOf(y) = AgainOf(x) \ {w}
      BY <1>3, <2>1, RequestIsNoWait DEF AgainOf
    <3>2. Cardinality(AgainOf(x) \ {w}) = Cardinality(AgainOf(x)) - 1
      BY <1>6, <3>1, FS_RemoveElement
    <3>3. One(w.again) = 1
      BY <2>1 DEF One
    <3> QED BY <1>6, <3>1, <3>2, <3>3
  <2>2. CASE ~w.again
    <3>1. AgainOf(y) = AgainOf(x)
      BY <1>3, <2>2 DEF AgainOf
    <3>2. One(w.again) = 0
      BY <2>2 DEF One
    <3> QED BY <1>6, <3>1, <3>2
  <2> QED BY <2>1, <2>2
<1> QED BY <1>2, <1>3, <1>4, <1>5, <1>7 DEF y

LEMMA WaitAdded ==
  ASSUME NEW x, Typed(x), NEW w \in [seq : Nat, time : {"500", "1000"}, again : BOOLEAN]
  PROVE  Follows(x, [x EXCEPT !.waits = @ \cup {w}], One(w.again))
<1> DEFINE y == [x EXCEPT !.waits = @ \cup {w}]
<1>1. x \in SessionTypes /\ IsFiniteSet(x.pendingRequests) /\ IsFiniteSet(x.waits)
  BY DEF Typed
<1>2. /\ y \in SessionTypes /\ y.state = x.state /\ y.capabilities = x.capabilities
      /\ y.waits = x.waits \cup {w} /\ y.pendingRequests = x.pendingRequests
  BY <1>1 DEF SessionTypes
<1> HIDE DEF y
<1>3. Typed(y)
  BY <1>1, <1>2, FS_AddElement DEF Typed
<1>4. Firsts(y) = Firsts(x)
  BY <1>2 DEF Firsts
<1>5. IsFiniteSet(AgainOf(x)) /\ Cardinality(AgainOf(x)) \in Nat
  BY AgainFinite
<1>6. Cardinality(AgainOf(y)) <= Cardinality(AgainOf(x)) + One(w.again)
  <2>1. CASE w.again
    <3>1. AgainOf(y) = AgainOf(x) \cup {w} /\ One(w.again) = 1
      BY <1>2, <2>1 DEF AgainOf, One
    <3> DEFINE A == AgainOf(x)
    <3> HIDE DEF A
    <3>2. Cardinality(A \cup {w}) = IF w \in A THEN Cardinality(A) ELSE Cardinality(A) + 1
      BY <1>5, FS_AddElement DEF A
    <3>3. Cardinality(A \cup {w}) <= Cardinality(A) + 1
      BY <1>5, <3>2 DEF A
    <3> QED BY <3>1, <3>3 DEF A
  <2>2. CASE ~w.again
    <3>1. AgainOf(y) = AgainOf(x) /\ One(w.again) = 0
      BY <1>2, <2>2 DEF AgainOf, One
    <3> QED BY <1>5, <3>1
  <2> QED BY <2>1, <2>2
<1> QED BY <1>2, <1>3, <1>4, <1>6 DEF Follows, y

LEMMA ManyCreations ==
  ASSUME NEW n \in Nat
  PROVE  Again(n) \in Seq(DebugCalls) /\ HowMany(Again(n), Creations) = n
<1>1. CreateCall \in DebugCalls
  BY DEF CreateCall, DebugCalls
<1>2. Again(n) \in [1 .. n -> DebugCalls] /\ DOMAIN Again(n) = 1 .. n
      /\ \A i \in 1 .. n : Again(n)[i] = CreateCall
  BY <1>1 DEF Again
<1>3. Again(n) \in Seq(DebugCalls)
  BY <1>2
<1>4. Places(Again(n), Creations) = 1 .. n
  BY <1>2 DEF Places, Creations
<1>5. Cardinality(1 .. n) = n
  BY FS_Interval
<1> QED BY <1>3, <1>4, <1>5 DEF HowMany

LEMMA ExitIs ==
  ASSUME NEW s \in Sessions, NEW x, Typed(x), NEW n \in Nat
  PROVE  /\ Typed(Destroyed(x)) /\ Destroyed(x).state = "destroyed"
         /\ Destroyed(x).capabilities = x.capabilities
         /\ FirstAlone(Destroyed(x)) /\ Cardinality(AgainOf(Destroyed(x))) = 0
         /\ ExitCalls(s, x, n) \in Seq(DebugCalls)
         /\ HowMany(ExitCalls(s, x, n), Creations) <= n + Cardinality(AgainOf(x))
<1> DEFINE y == Destroyed(x)
           W == {w \in x.waits : w.again}
<1>1. x \in SessionTypes /\ IsFiniteSet(x.pendingRequests) /\ IsFiniteSet(x.waits)
  BY DEF Typed
<1>2. /\ y \in SessionTypes /\ y.state = "destroyed" /\ y.capabilities = x.capabilities
      /\ y.waits = {} /\ y.pendingRequests = {}
  BY <1>1 DEF SessionTypes, Destroyed
<1> HIDE DEF y
<1>3. Typed(y) /\ FirstAlone(y) /\ Cardinality(AgainOf(y)) = 0
  <2>1. AgainOf(y) = {} /\ Firsts(y) = {}
    BY <1>2 DEF AgainOf, Firsts
  <2> QED BY <1>2, <2>1, FS_EmptySet DEF Typed, FirstAlone
<1>4. Cardinality(W) \in Nat /\ Cardinality(W) <= Cardinality(AgainOf(x)) /\ Cardinality(AgainOf(x)) \in Nat
  <2>1. W \in SUBSET AgainOf(x)
    BY DEF AgainOf
  <2>2. IsFiniteSet(AgainOf(x)) /\ Cardinality(AgainOf(x)) \in Nat
    BY AgainFinite
  <2> HIDE DEF W
  <2> QED BY <2>1, <2>2, FS_Subset, FS_CardinalityType
<1> DEFINE m == n + Cardinality(W)
           c == <<TerminateCall(s)>>
           r == Again(m)
<1>5. ExitCalls(s, x, n) = c \o r
  BY DEF ExitCalls
<1>6. m \in Nat
  BY <1>4
<1>7. c \in Seq(DebugCalls) /\ HowMany(c, Creations) = 0
  <2>1. TerminateCall(s) \in DebugCalls /\ TerminateCall(s) \notin Creations
    BY DEF TerminateCall, DebugCalls, Creations, CreateCall
  <2>2. c \in Seq(DebugCalls) /\ \A i \in DOMAIN c : c[i] \notin Creations
    BY <2>1
  <2> HIDE DEF c
  <2> QED BY <2>2, NoPlaces
<1> HIDE DEF m, c
<1>8. r \in Seq(DebugCalls) /\ HowMany(r, Creations) = m
  BY <1>6, ManyCreations
<1> HIDE DEF r
<1>9. c \o r \in Seq(DebugCalls) /\ HowMany(c \o r, Creations) = m
  <2>1. HowMany(c \o r, Creations) = HowMany(c, Creations) + HowMany(r, Creations)
    BY <1>7, <1>8, PlacesJoined
  <2> QED BY <1>6, <1>7, <1>8, <2>1, AppendedAt
<1>10. m <= n + Cardinality(AgainOf(x))
  BY <1>4 DEF m
<1> QED BY <1>2, <1>3, <1>5, <1>9, <1>10 DEF y

LEMMA NoCalls == <<>> \in Seq(DebugCalls) /\ HowMany(<<>>, Creations) = 0
<1>1. <<>> \in Seq(DebugCalls) /\ \A i \in DOMAIN <<>> : <<>>[i] \notin Creations
  OBVIOUS
<1> QED BY <1>1, NoPlaces

-----------------------------------------------------------------------------
(* The browser's steps.                                                      *)

LEMMA StopKeeps ==
  ASSUME DebugInv, NEW s \in Sessions, StopDebugging(s)
  PROVE  DebugInv'
<1> DEFINE x == sessions[s]
<1>1. /\ DebugTypes /\ Owed <= MaxSessions /\ SessionsKnown /\ Typed(x) /\ CreatedOnce
      /\ orphans \subseteq Sessions /\ stuck \subseteq Sessions /\ stops \in 0 .. MaxStops
  BY DEF DebugInv, DebugTypes, DebugTypeOK
<1>2. /\ x.state = "shown" /\ stops < MaxStops /\ stops' = stops + 1
      /\ answers' = answers /\ adapters' = adapters /\ orphans' = orphans /\ stuck' = stuck
      /\ \/ Becomes(s, Terminate(x, FALSE), <<>>)
         \/ MayRestart(s) /\ Becomes(s, Restart(x), <<>>)
  BY DEF StopDebugging
<1>3. FirstAlone(x) /\ adapters[s].state # "none"
  BY <1>1, <1>2 DEF SessionsKnown
<1>4. /\ Owed <= Ordered /\ Owed \in Nat /\ Ordered \in Nat /\ MaxSessions \in Nat
      /\ Cardinality(AgainOf(x)) \in Nat /\ HowMany(answers, Recreating) \in Nat
  BY <1>1, OwedIsOrdered, SessionsFinite, AgainFinite, OwedParts
<1>5. PICK y, n : /\ n \in {0, 1} /\ Follows(x, y, n) /\ Becomes(s, y, <<>>)
                  /\ n = 1 => Owed < MaxSessions
  <2>1. ASSUME Becomes(s, Terminate(x, FALSE), <<>>)
        PROVE  Follows(x, Terminate(x, FALSE), 0)
    <3>1. \A b \in BOOLEAN : Follows(x, Terminate(x, b), One(b))
      BY <1>1, TerminateIs
    <3>2. Follows(x, Terminate(x, FALSE), One(FALSE))
      BY <3>1, Zenon
    <3> QED BY <3>2 DEF One
  <2>2. ASSUME MayRestart(s)
        PROVE  /\ Follows(x, Restart(x), One("restart" \notin x.capabilities))
               /\ "restart" \notin x.capabilities => Owed < MaxSessions
    BY <1>1, <1>4, <2>2, RestartIs DEF MayRestart
  <2>3. One("restart" \notin x.capabilities) \in {0, 1}
        /\ (One("restart" \notin x.capabilities) = 1 => "restart" \notin x.capabilities)
    BY DEF One
  <2>4. CASE Becomes(s, Terminate(x, FALSE), <<>>)
    <3> DEFINE y == Terminate(x, FALSE)
    <3>1. Follows(x, y, 0) /\ Becomes(s, y, <<>>)
      BY <2>1, <2>4
    <3> HIDE DEF x, y
    <3> QED BY <3>1
  <2>5. CASE MayRestart(s) /\ Becomes(s, Restart(x), <<>>)
    <3> DEFINE y == Restart(x)
               n == One("restart" \notin x.capabilities)
    <3>1. /\ Follows(x, y, n) /\ Becomes(s, y, <<>>) /\ n \in {0, 1}
          /\ n = 1 => Owed < MaxSessions
      BY <2>2, <2>3, <2>5
    <3> HIDE DEF x, y, n
    <3> QED BY <3>1
  <2> QED BY <1>2, <2>4, <2>5
<1>6. /\ Typed(y) /\ FirstAlone(y) /\ y.state = "shown" /\ y.capabilities = x.capabilities
      /\ Cardinality(AgainOf(y)) <= Cardinality(AgainOf(x)) + n
  BY <1>2, <1>3, <1>5, FollowsIs DEF Follows
<1>7. stops' \in 0 .. MaxStops
  BY <1>1, <1>2, DebugAssumption
<1>8. \A i \in DOMAIN answers' :
        answers'[i].op = "debugCreated" /\ answers'[i].of = s => y.state = "none"
  BY <1>1, <1>2 DEF CreatedOnce
<1>9. HowMany(answers', Recreating) + HowMany(<<>>, Creations) + Cardinality(AgainOf(y)) + Owed
      <= HowMany(answers, Recreating) + Cardinality(AgainOf(x)) + MaxSessions
  <2>1. Cardinality(AgainOf(y)) \in Nat
    BY <1>6, AgainFinite
  <2> DEFINE a == HowMany(answers, Recreating)
             j == Cardinality(AgainOf(x))
             k == Cardinality(AgainOf(y))
  <2> HIDE DEF a, j, k
  <2>2. k <= j + n /\ Owed + n <= MaxSessions /\ a \in Nat /\ j \in Nat /\ k \in Nat
    BY <1>1, <1>4, <1>5, <1>6, <2>1 DEF a, j, k
  <2>3. a + 0 + k + Owed <= a + j + MaxSessions
    BY <1>4, <1>5, <2>2
  <2> QED BY <1>2, <2>3, NoCalls DEF a, j, k
<1> HIDE DEF x
<1>10. sessions[s].capabilities \subseteq y.capabilities
  BY <1>6 DEF x
<1>11. orphans' \subseteq Sessions /\ stuck' \subseteq Sessions
  BY <1>1, <1>2
<1> QED BY <1>2, <1>3, <1>5, <1>6, <1>7, <1>8, <1>9, <1>10, <1>11, NoCalls, BrowserMove DEF x

LEMMA TimeoutKeeps ==
  ASSUME DebugInv, NEW s \in Sessions, ExitTimesOut(s)
  PROVE  DebugInv'
<1> DEFINE x == sessions[s]
<1>1. /\ DebugTypes /\ Owed <= MaxSessions /\ SessionsKnown /\ Typed(x) /\ CreatedOnce
      /\ orphans \subseteq Sessions /\ stuck \subseteq Sessions /\ stops \in 0 .. MaxStops
  BY DEF DebugInv, DebugTypes, DebugTypeOK
<1>2. PICK w \in x.waits : TimedOut(s, [x EXCEPT !.waits = @ \ {w}], w)
  BY DEF ExitTimesOut
<1>3. /\ answers' = answers /\ adapters' = adapters /\ orphans' = orphans /\ stuck' = stuck
      /\ stops' = stops
  BY DEF ExitTimesOut
<1>4. FirstAlone(x) /\ adapters[s].state # "none" /\ x.state # "none"
  BY <1>1, <1>2 DEF SessionsKnown, Blank
<1>5. /\ Owed \in Nat /\ MaxSessions \in Nat
      /\ Cardinality(AgainOf(x)) \in Nat /\ HowMany(answers, Recreating) \in Nat
  BY <1>1, OwedIsOrdered, SessionsFinite, AgainFinite, OwedParts
<1> DEFINE z == [x EXCEPT !.waits = @ \ {w}]
<1>6. /\ Typed(z) /\ z.state = x.state /\ z.capabilities = x.capabilities
      /\ FirstAlone(z) /\ w.again \in BOOLEAN
      /\ Cardinality(AgainOf(z)) + One(w.again) <= Cardinality(AgainOf(x))
      /\ Cardinality(AgainOf(z)) \in Nat
  <2>1. /\ Typed(z) /\ z.state = x.state /\ z.capabilities = x.capabilities
        /\ Firsts(z) = Firsts(x) /\ w.again \in BOOLEAN
        /\ Cardinality(AgainOf(z)) + One(w.again) <= Cardinality(AgainOf(x))
    BY <1>1, WaitTaken
  <2> HIDE DEF z, x
  <2> QED BY <1>4, <2>1, AgainFinite DEF FirstAlone
<1>7. One(w.again) \in {0, 1}
  BY DEF One
<1>8. TimedOut(s, z, w)
  BY <1>2
<1> HIDE DEF z
<1>9. \E y, calls :
         /\ calls \in Seq(DebugCalls)
         /\ Typed(y) /\ FirstAlone(y) /\ y.state # "none" /\ y.capabilities = x.capabilities
         /\ Becomes(s, y, calls)
         /\ HowMany(calls, Creations) + Cardinality(AgainOf(y)) <= Cardinality(AgainOf(x))
  <2>1. CASE w.time = "1000" /\ Becomes(s, Requested(z, "disconnect", w.again), <<>>)
    <3> DEFINE y == Requested(z, "disconnect", w.again)
    <3>1. "disconnect" \in Commands \ {"initialize"}
      BY DEF Commands
    <3>2. Follows(z, y, One(w.again))
      BY <1>6, <3>1, RequestFollows
    <3> HIDE DEF y
    <3>3. /\ Typed(y) /\ y.state = z.state /\ y.capabilities = z.capabilities
          /\ Cardinality(AgainOf(y)) <= Cardinality(AgainOf(z)) + One(w.again)
          /\ FirstAlone(y) /\ Cardinality(AgainOf(y)) \in Nat
      BY <1>6, <3>2, FollowsIs, AgainFinite DEF Follows
    <3>4. HowMany(<<>>, Creations) + Cardinality(AgainOf(y)) <= Cardinality(AgainOf(x))
      BY <1>5, <1>6, <1>7, <3>2, <3>3, NoCalls
    <3>5. Becomes(s, y, <<>>) /\ y.state # "none" /\ y.capabilities = x.capabilities
      BY <1>4, <1>6, <2>1, <3>3 DEF y
    <3> QED BY <3>2, <3>3, <3>4, <3>5, NoCalls
  <2>2. CASE w.time = "500" /\ Exited(s, z, One(w.again))
    <3> DEFINE y == Destroyed(z)
               calls == ExitCalls(s, z, One(w.again))
    <3>1. One(w.again) \in Nat
      BY <1>7
    <3>2. /\ Typed(y) /\ y.state = "destroyed" /\ y.capabilities = z.capabilities
          /\ FirstAlone(y) /\ Cardinality(AgainOf(y)) = 0 /\ calls \in Seq(DebugCalls)
          /\ HowMany(calls, Creations) <= One(w.again) + Cardinality(AgainOf(z))
      BY <1>6, <3>1, ExitIs
    <3>3. Becomes(s, y, calls)
      BY <2>2 DEF Exited
    <3> HIDE DEF y, calls
    <3>4. HowMany(calls, Creations) \in Nat
      BY <3>2, PlacesCounted
    <3>5. HowMany(calls, Creations) + Cardinality(AgainOf(y)) <= Cardinality(AgainOf(x))
      BY <1>5, <1>6, <1>7, <3>2, <3>4
    <3>6. y.state # "none" /\ y.capabilities = x.capabilities
      BY <1>6, <3>2
    <3> QED BY <3>2, <3>3, <3>5, <3>6
  <2> QED BY <1>8, <2>1, <2>2 DEF TimedOut
<1>10. PICK y, calls :
         /\ calls \in Seq(DebugCalls)
         /\ Typed(y) /\ FirstAlone(y) /\ y.state # "none" /\ y.capabilities = x.capabilities
         /\ Becomes(s, y, calls)
         /\ HowMany(calls, Creations) + Cardinality(AgainOf(y)) <= Cardinality(AgainOf(x))
  BY <1>9
<1>11. HowMany(answers', Recreating) + HowMany(calls, Creations) + Cardinality(AgainOf(y)) + Owed
       <= HowMany(answers, Recreating) + Cardinality(AgainOf(x)) + MaxSessions
  <2>1. Cardinality(AgainOf(y)) \in Nat /\ HowMany(calls, Creations) \in Nat
    BY <1>10, AgainFinite, PlacesCounted
  <2> DEFINE a == HowMany(answers, Recreating)
             j == Cardinality(AgainOf(x))
             k == Cardinality(AgainOf(y))
             h == HowMany(calls, Creations)
  <2> HIDE DEF a, j, k, h
  <2>2. h + k <= j /\ Owed <= MaxSessions /\ a \in Nat /\ j \in Nat /\ k \in Nat /\ h \in Nat
    BY <1>1, <1>5, <1>10, <2>1 DEF a, j, k, h
  <2>3. a + h + k + Owed <= a + j + MaxSessions
    BY <1>5, <2>2
  <2> QED BY <1>3, <2>3 DEF a, j, k, h
<1>12. \A i \in DOMAIN answers' :
        answers'[i].op = "debugCreated" /\ answers'[i].of = s => y.state = "none"
  BY <1>1, <1>3, <1>4 DEF CreatedOnce
<1>13. sessions[s].capabilities \subseteq y.capabilities
  BY <1>10
<1>14. orphans' \subseteq Sessions /\ stuck' \subseteq Sessions /\ stops' \in 0 .. MaxStops
  BY <1>1, <1>3
<1> HIDE DEF x
<1> QED BY <1>3, <1>4, <1>10, <1>11, <1>12, <1>13, <1>14, BrowserMove DEF x

\* An answer other than that a session is created moves its session.
LEMMA AnswerMove ==
  ASSUME DebugInv, answers # <<>>, answers' = Tail(answers), adapters' = adapters,
         stops' = stops, orphans' = orphans, stuck' \subseteq Sessions,
         Head(answers).op # "debugCreated",
         NEW x, Typed(x), FirstAlone(x), x.state = "none" => Blank(x),
         \/ x.state = sessions[Head(answers).of].state
         \/ x.state = "destroyed" /\ sessions[Head(answers).of].state # "none",
         sessions[Head(answers).of].capabilities \subseteq x.capabilities,
         NEW calls \in Seq(DebugCalls), Becomes(Head(answers).of, x, calls),
         HowMany(calls, Creations) + Cardinality(AgainOf(x))
           <= Cardinality(AgainOf(sessions[Head(answers).of])) + One(Head(answers) \in Recreating)
  PROVE  DebugInv'
<1> DEFINE e == Head(answers)
           s == e.of
<1>1. /\ DebugTypes /\ Owed <= MaxSessions /\ SessionsKnown /\ CreatedOnce
      /\ orphans \subseteq Sessions /\ stops \in 0 .. MaxStops
      /\ answers \in Seq(DebugAnswers) /\ \A t \in Sessions : Typed(sessions[t])
  BY DEF DebugInv, DebugTypes, DebugTypeOK
<1>2. s \in Sessions
  <2>1. e \in DebugAnswers
    BY <1>1, TailOf
  <2> QED BY <2>1 DEF DebugAnswers
<1>3. adapters[s].state = "none" => x.state = "none"
  BY <1>1, <1>2 DEF SessionsKnown
<1>4. \A i \in DOMAIN answers' :
        answers'[i].op = "debugCreated" /\ answers'[i].of = s => x.state = "none"
  <2>1. ASSUME NEW i \in DOMAIN answers', answers'[i].op = "debugCreated", answers'[i].of = s
        PROVE  x.state = "none"
    <3>1. i + 1 \in DOMAIN answers /\ answers'[i] = answers[i + 1]
      BY <1>1, TailOf
    <3>2. sessions[s].state = "none"
      BY <1>1, <2>1, <3>1 DEF CreatedOnce
    <3> QED BY <3>2
  <2> QED BY <2>1
<1>5. HowMany(answers', Recreating) + HowMany(calls, Creations) + Cardinality(AgainOf(x)) + Owed
      <= HowMany(answers, Recreating) + Cardinality(AgainOf(sessions[s])) + MaxSessions
  <2>1. HowMany(answers, Recreating) = One(e \in Recreating) + HowMany(Tail(answers), Recreating)
    BY <1>1, PlacesTaken
  <2>2. HowMany(Tail(answers), Recreating) \in Nat
    <3>1. Tail(answers) \in Seq(DebugAnswers)
      BY <1>1, TailOf
    <3> QED BY <3>1, PlacesCounted
  <2>3. /\ Cardinality(AgainOf(x)) \in Nat /\ HowMany(calls, Creations) \in Nat
        /\ Cardinality(AgainOf(sessions[s])) \in Nat /\ Owed \in Nat /\ MaxSessions \in Nat
    BY <1>1, <1>2, AgainFinite, PlacesCounted, OwedIsOrdered, SessionsFinite
  <2>4. One(e \in Recreating) \in {0, 1}
    BY DEF One
  <2> DEFINE a == HowMany(answers, Recreating)
             t == HowMany(Tail(answers), Recreating)
             j == Cardinality(AgainOf(sessions[s]))
             k == Cardinality(AgainOf(x))
             h == HowMany(calls, Creations)
             o == One(e \in Recreating)
  <2>5. h + k <= j + o /\ Owed <= MaxSessions /\ a = o + t
    BY <1>1, <2>1
  <2>6. t \in Nat /\ k \in Nat /\ h \in Nat /\ j \in Nat /\ o \in {0, 1} /\ Owed \in Nat /\ MaxSessions \in Nat
    BY <2>2, <2>3, <2>4
  <2> HIDE DEF a, t, j, k, h, o
  <2>7. t + h + k + Owed <= a + j + MaxSessions
    BY <2>5, <2>6
  <2> QED BY <2>7 DEF a, t, j, k, h
<1>6. stops' \in 0 .. MaxStops /\ orphans' \subseteq Sessions
  BY <1>1
<1>7. Becomes(s, x, calls) /\ sessions[s].capabilities \subseteq x.capabilities
  OBVIOUS
<1> HIDE DEF s
<1> QED BY <1>2, <1>3, <1>4, <1>5, <1>6, <1>7, BrowserMove

\* The session is destroyed by an answer.
LEMMA ExitMove ==
  ASSUME DebugInv, answers # <<>>, answers' = Tail(answers), adapters' = adapters,
         stops' = stops, orphans' = orphans, stuck' \subseteq Sessions,
         Head(answers).op # "debugCreated",
         NEW x, Typed(x), sessions[Head(answers).of].state # "none",
         x.capabilities = sessions[Head(answers).of].capabilities,
         NEW n \in Nat, Exited(Head(answers).of, x, n),
         Cardinality(AgainOf(x)) + n <= Cardinality(AgainOf(sessions[Head(answers).of]))
  PROVE  DebugInv'
<1> DEFINE e == Head(answers)
           s == e.of
           y == Destroyed(x)
           calls == ExitCalls(s, x, n)
<1>1. /\ DebugTypes /\ answers \in Seq(DebugAnswers) /\ \A t \in Sessions : Typed(sessions[t])
  BY DEF DebugInv, DebugTypes
<1>2. s \in Sessions
  <2>1. e \in DebugAnswers
    BY <1>1, TailOf
  <2> QED BY <2>1 DEF DebugAnswers
<1>3. /\ Typed(y) /\ y.state = "destroyed" /\ y.capabilities = x.capabilities
      /\ FirstAlone(y) /\ Cardinality(AgainOf(y)) = 0 /\ calls \in Seq(DebugCalls)
      /\ HowMany(calls, Creations) <= n + Cardinality(AgainOf(x))
  BY <1>2, ExitIs
<1>4. Becomes(s, y, calls)
  BY DEF Exited
<1>5. /\ Cardinality(AgainOf(x)) \in Nat /\ HowMany(calls, Creations) \in Nat
      /\ Cardinality(AgainOf(sessions[s])) \in Nat
  BY <1>1, <1>2, <1>3, AgainFinite, PlacesCounted
<1>6. One(e \in Recreating) \in {0, 1}
  BY DEF One
<1> HIDE DEF y, calls
<1>7. HowMany(calls, Creations) + Cardinality(AgainOf(y))
      <= Cardinality(AgainOf(sessions[s])) + One(e \in Recreating)
  BY <1>3, <1>5, <1>6
<1> QED BY <1>3, <1>4, <1>7, AnswerMove

LEMMA CreatedKeeps ==
  ASSUME DebugInv, answers # <<>>, answers' = Tail(answers), adapters' = adapters,
         stops' = stops, orphans' = orphans, stuck' \subseteq Sessions,
         Head(answers).op = "debugCreated",
         Becomes(Head(answers).of, Requested(NewSession("shown"), "initialize", FALSE),
                 <<OpenCall(Head(answers).of)>>)
  PROVE  DebugInv'
<1> DEFINE e == Head(answers)
           s == e.of
           n == NewSession("shown")
           x == Requested(n, "initialize", FALSE)
           calls == <<OpenCall(s)>>
<1>1. /\ DebugTypes /\ Owed <= MaxSessions /\ SessionsKnown /\ CreatedOnce
      /\ orphans \subseteq Sessions /\ stops \in 0 .. MaxStops
      /\ answers \in Seq(DebugAnswers) /\ \A t \in Sessions : Typed(sessions[t])
  BY DEF DebugInv, DebugTypes, DebugTypeOK
<1>2. s \in Sessions /\ e = answers[1] /\ 1 \in DOMAIN answers
  <2>1. e \in DebugAnswers /\ e = answers[1] /\ 1 \in DOMAIN answers
    BY <1>1, TailOf
  <2> QED BY <2>1 DEF DebugAnswers
<1>3. /\ adapters[s].state # "none" /\ sessions[s].state = "none" /\ Blank(sessions[s])
      /\ \A j \in DOMAIN answers : answers[j].op = "debugCreated" /\ answers[j].of = s => j = 1
  BY <1>1, <1>2 DEF CreatedOnce, SessionsKnown
<1>4. Typed(n) /\ Blank(n) /\ n.state = "shown"
  <2>1. n \in SessionTypes
    BY DEF NewSession, SessionTypes
  <2> QED BY <2>1, FS_EmptySet DEF Typed, Blank, NewSession
<1> HIDE DEF n
<1>5. /\ Typed(x) /\ x.state = "shown" /\ x.capabilities = {} /\ AgainOf(x) = {}
      /\ \E p : Firsts(x) = {p}
  <2>1. "initialize" \in Commands
    BY DEF Commands
  <2>2. ASSUME NEW b \in BOOLEAN, b = FALSE
        PROVE  LET z == Requested(n, "initialize", b)
                   p == [seq |-> n.sequence + 1, command |-> "initialize", again |-> b]
               IN  /\ Typed(z) /\ z.state = "shown" /\ z.capabilities = {}
                   /\ Firsts(z) = Firsts(n) \cup {p} /\ AgainOf(z) = AgainOf(n)
    <3> DEFINE z == Requested(n, "initialize", b)
               p == [seq |-> n.sequence + 1, command |-> "initialize", again |-> b]
    <3>1. /\ Typed(z) /\ z.state = n.state /\ z.capabilities = n.capabilities
          /\ Firsts(z) = Firsts(n) \cup (IF "initialize" = "initialize" THEN {p} ELSE {})
          /\ AgainOf(z) = AgainOf(n) \cup (IF b THEN {p} ELSE {})
      BY <1>4, <2>1, RequestedIs
    <3> HIDE DEF z, p
    <3>2. /\ Typed(z) /\ z.state = "shown" /\ z.capabilities = {}
          /\ Firsts(z) = Firsts(n) \cup {p} /\ AgainOf(z) = AgainOf(n)
      BY <1>4, <2>2, <3>1 DEF Blank
    <3> QED BY <3>2 DEF z, p
  <2>3. AgainOf(n) = {} /\ Firsts(n) = {}
    BY <1>4 DEF Blank, AgainOf, Firsts
  <2>4. \E b \in BOOLEAN : b = FALSE
    OBVIOUS
  <2>5. PICK b \in BOOLEAN : b = FALSE
    BY <2>4
  <2> DEFINE z == Requested(n, "initialize", b)
             p == [seq |-> n.sequence + 1, command |-> "initialize", again |-> b]
  <2>6. /\ Typed(z) /\ z.state = "shown" /\ z.capabilities = {}
        /\ Firsts(z) = Firsts(n) \cup {p} /\ AgainOf(z) = AgainOf(n)
    BY <2>2, <2>5
  <2>7. x = z
    BY <2>5, Zenon
  <2> HIDE DEF x, z, p
  <2> QED BY <2>3, <2>6, <2>7
<1>6. FirstAlone(x)
  BY <1>5 DEF FirstAlone
<1>7. calls \in Seq(DebugCalls) /\ HowMany(calls, Creations) = 0
  <2>1. OpenCall(s) \in DebugCalls /\ OpenCall(s) \notin Creations
    BY <1>2 DEF OpenCall, DebugCalls, Creations, CreateCall
  <2>2. calls \in Seq(DebugCalls) /\ \A i \in DOMAIN calls : calls[i] \notin Creations
    BY <2>1
  <2> HIDE DEF calls
  <2> QED BY <2>2, NoPlaces
<1>8. Becomes(s, x, calls)
  BY DEF n
<1>9. \A i \in DOMAIN answers' :
        answers'[i].op = "debugCreated" /\ answers'[i].of = s => x.state = "none"
  <2>1. ASSUME NEW i \in DOMAIN answers', answers'[i].op = "debugCreated", answers'[i].of = s
        PROVE  FALSE
    <3>1. i \in Nat /\ i >= 1 /\ i + 1 \in DOMAIN answers /\ answers'[i] = answers[i + 1]
      BY <1>1, TailOf
    <3>2. i + 1 = 1
      BY <1>3, <2>1, <3>1
    <3> QED BY <3>1, <3>2
  <2> QED BY <2>1
<1> HIDE DEF x, calls
<1>10. HowMany(answers', Recreating) + HowMany(calls, Creations) + Cardinality(AgainOf(x)) + Owed
       <= HowMany(answers, Recreating) + Cardinality(AgainOf(sessions[s])) + MaxSessions
  <2>1. HowMany(answers, Recreating) = One(e \in Recreating) + HowMany(Tail(answers), Recreating)
    BY <1>1, PlacesTaken
  <2>2. HowMany(Tail(answers), Recreating) \in Nat
    <3>1. Tail(answers) \in Seq(DebugAnswers)
      BY <1>1, TailOf
    <3> QED BY <3>1, PlacesCounted
  <2>3. /\ Cardinality(AgainOf(sessions[s])) \in Nat /\ Owed \in Nat /\ MaxSessions \in Nat
    BY <1>1, <1>2, AgainFinite, OwedIsOrdered, SessionsFinite
  <2>4. One(e \in Recreating) \in {0, 1}
    BY DEF One
  <2>5. Cardinality(AgainOf(x)) = 0
    BY <1>5, FS_EmptySet
  <2> HIDE DEF s, e
  <2> QED BY <1>1, <1>7, <2>1, <2>2, <2>3, <2>4, <2>5
<1>11. /\ stops' \in 0 .. MaxStops /\ orphans' \subseteq Sessions
       /\ sessions[s].capabilities \subseteq x.capabilities
  BY <1>1, <1>3 DEF Blank
<1> HIDE DEF s
<1> QED BY <1>2, <1>3, <1>5, <1>6, <1>7, <1>8, <1>9, <1>10, <1>11, BrowserMove

LEMMA ResponseKeeps ==
  ASSUME DebugInv, answers # <<>>, answers' = Tail(answers), adapters' = adapters,
         stops' = stops, orphans' = orphans, stuck' \subseteq Sessions,
         Head(answers).op = "response",
         NEW p \in sessions[Head(answers).of].pendingRequests,
         Response(Head(answers).of, sessions[Head(answers).of], p, Head(answers))
  PROVE  DebugInv'
<1> DEFINE e == Head(answers)
           s == e.of
           x == sessions[s]
           y == [x EXCEPT !.pendingRequests = @ \ {p}]
           o == One(e \in Recreating)
<1>1. /\ DebugTypes /\ SessionsKnown /\ \A t \in Sessions : Typed(sessions[t])
      /\ answers \in Seq(DebugAnswers)
  BY DEF DebugInv, DebugTypes
<1>2. s \in Sessions /\ e.capabilities \in SUBSET {"terminate", "restart"}
  <2>1. e \in DebugAnswers
    BY <1>1, TailOf
  <2> QED BY <2>1 DEF DebugAnswers
<1>3. Typed(x) /\ FirstAlone(x) /\ x.state # "none"
  BY <1>1, <1>2 DEF SessionsKnown, Blank
<1>4. /\ Typed(y) /\ y.state = x.state /\ y.capabilities = x.capabilities
      /\ y.waits = x.waits /\ Firsts(y) = Firsts(x) \ {p}
      /\ Cardinality(AgainOf(y)) + One(p.again) <= Cardinality(AgainOf(x))
      /\ p.again \in BOOLEAN /\ p.seq \in Nat /\ p.command \in Commands
  BY <1>3, AnsweredIs
<1>5. FirstAlone(y)
  <2> HIDE DEF y, x
  <2> QED BY <1>3, <1>4 DEF FirstAlone
<1>6. /\ Cardinality(AgainOf(x)) \in Nat /\ Cardinality(AgainOf(y)) \in Nat
      /\ One(p.again) \in {0, 1} /\ o \in {0, 1} /\ HowMany(<<>>, Creations) = 0
  BY <1>3, <1>4, AgainFinite, NoCalls DEF One
<1>7. ASSUME NEW z, Follows(y, z, One(p.again)), Becomes(s, z, <<>>) PROVE DebugInv'
  <2>1. /\ Typed(z) /\ z.state = x.state /\ z.capabilities = x.capabilities /\ FirstAlone(z)
        /\ Cardinality(AgainOf(z)) <= Cardinality(AgainOf(y)) + One(p.again)
    <3> HIDE DEF x, y
    <3> QED BY <1>4, <1>5, <1>7, FollowsIs DEF Follows
  <2>2. Cardinality(AgainOf(z)) \in Nat
    BY <2>1, AgainFinite
  <2>3. HowMany(<<>>, Creations) + Cardinality(AgainOf(z)) <= Cardinality(AgainOf(x)) + o
    <3> HIDE DEF x, y, o
    <3> QED BY <1>4, <1>6, <2>1, <2>2
  <2>4. z.state # "none" /\ sessions[s].capabilities \subseteq z.capabilities
    BY <1>3, <2>1
  <2> QED BY <1>7, <2>1, <2>3, <2>4, NoCalls, AnswerMove
<1>8. Follows(y, y, One(p.again))
  <2> HIDE DEF y
  <2> QED BY <1>4, <1>6 DEF Follows
<1>9. ASSUME p.command = "initialize",
             Becomes(s, Requested([y EXCEPT !.capabilities = e.capabilities], "launch", FALSE), <<>>)
      PROVE  DebugInv'
  <2> DEFINE u == [y EXCEPT !.capabilities = e.capabilities]
             z == Requested(u, "launch", FALSE)
  <2>1. p \in Firsts(x) /\ x.capabilities = {} /\ Firsts(y) = {}
    <3>1. p \in Firsts(x)
      BY <1>9 DEF Firsts
    <3> HIDE DEF x, y
    <3> QED BY <1>3, <1>4, <3>1 DEF FirstAlone
  <2>2. /\ Typed(u) /\ u.state = x.state /\ Firsts(u) = {} /\ AgainOf(u) = AgainOf(y)
    <3>1. /\ u \in SessionTypes /\ u.pendingRequests = y.pendingRequests /\ u.waits = y.waits
          /\ u.state = y.state
      <4> HIDE DEF y, e
      <4> QED BY <1>2, <1>4 DEF Typed, SessionTypes
    <3> HIDE DEF u, y
    <3> QED BY <1>4, <2>1, <3>1 DEF Typed, Firsts, AgainOf
  <2>3. "launch" \in Commands \ {"initialize"}
    BY DEF Commands
  <2> HIDE DEF u
  <2>4. Follows(u, z, 0)
    <3>1. \A b \in BOOLEAN : Follows(u, Requested(u, "launch", b), One(b))
      BY <2>2, <2>3, RequestFollows
    <3>2. Follows(u, Requested(u, "launch", FALSE), One(FALSE))
      BY <3>1, Zenon
    <3> QED BY <3>2 DEF One
  <2>5. Becomes(s, z, <<>>)
    BY <1>9 DEF u
  <2> HIDE DEF z
  <2>6. /\ Typed(z) /\ z.state = x.state /\ FirstAlone(z)
        /\ Cardinality(AgainOf(z)) <= Cardinality(AgainOf(y)) + 0
    <3> HIDE DEF x, y
    <3> QED BY <2>2, <2>4 DEF Follows, FirstAlone
  <2>7. Cardinality(AgainOf(z)) \in Nat
    BY <2>6, AgainFinite
  <2>8. HowMany(<<>>, Creations) + Cardinality(AgainOf(z)) <= Cardinality(AgainOf(x)) + o
    <3> HIDE DEF x, y, o
    <3> QED BY <1>4, <1>6, <2>6, <2>7
  <2>9. z.state # "none" /\ sessions[s].capabilities \subseteq z.capabilities
    BY <1>3, <2>1, <2>6
  <2> QED BY <2>5, <2>6, <2>8, <2>9, NoCalls, AnswerMove
<1>10. ASSUME NEW n \in Nat, n <= One(p.again), Exited(s, y, n) PROVE DebugInv'
  <2>1. Cardinality(AgainOf(y)) + n <= Cardinality(AgainOf(x))
    <3> HIDE DEF x, y
    <3> QED BY <1>4, <1>6, <1>10
  <2>2. y.capabilities = sessions[s].capabilities /\ sessions[s].state # "none"
    BY <1>3, <1>4
  <2> HIDE DEF y
  <2> QED BY <1>4, <1>10, <2>1, <2>2, ExitMove
<1>11. ASSUME NEW t \in {"500", "1000"} PROVE
         Follows(y, [y EXCEPT !.waits = @ \cup {[seq |-> p.seq, time |-> t, again |-> p.again]}],
                 One(p.again))
  <2> DEFINE w == [seq |-> p.seq, time |-> t, again |-> p.again]
  <2>1. w \in [seq : Nat, time : {"500", "1000"}, again : BOOLEAN] /\ w.again = p.again
    BY <1>4
  <2> HIDE DEF w, y
  <2>2. Follows(y, [y EXCEPT !.waits = @ \cup {w}], One(w.again))
    BY <1>4, <2>1, WaitAdded
  <2> QED BY <2>1, <2>2 DEF w
<1>12. ASSUME Becomes(s, y, <<>>) PROVE DebugInv'
  BY <1>7, <1>8, <1>12
<1>13. ASSUME NEW t \in {"500", "1000"},
              Becomes(s, [y EXCEPT !.waits = @ \cup {[seq |-> p.seq, time |-> t, again |-> p.again]}],
                      <<>>)
       PROVE  DebugInv'
  BY <1>7, <1>11, <1>13
<1>14. 0 \in Nat /\ 0 <= One(p.again) /\ One(p.again) \in Nat /\ One(p.again) <= One(p.again)
  BY <1>6
<1>15. ASSUME Exited(s, y, 0) PROVE DebugInv'
  BY <1>10, <1>14, <1>15
<1>16. ASSUME Exited(s, y, One(p.again)) PROVE DebugInv'
  BY <1>10, <1>14, <1>16
<1>17. \/ /\ p.command = "initialize"
          /\ Becomes(s, Requested([y EXCEPT !.capabilities = e.capabilities], "launch", FALSE), <<>>)
       \/ Becomes(s, y, <<>>) \/ Exited(s, y, 0) \/ Exited(s, y, One(p.again))
       \/ Becomes(s, [y EXCEPT !.waits = @ \cup {[seq |-> p.seq, time |-> "1000", again |-> p.again]}],
                  <<>>)
       \/ Becomes(s, [y EXCEPT !.waits = @ \cup {[seq |-> p.seq, time |-> "500", again |-> p.again]}],
                  <<>>)
  BY Zenon DEF Response
<1> QED BY <1>9, <1>12, <1>13, <1>15, <1>16, <1>17

LEMMA TerminatedKeeps ==
  ASSUME DebugInv, answers # <<>>, answers' = Tail(answers), adapters' = adapters,
         stops' = stops, orphans' = orphans, stuck' \subseteq Sessions,
         Head(answers).op = "terminated", sessions[Head(answers).of].state = "shown",
         Terminated(Head(answers).of, sessions[Head(answers).of], Head(answers).restart)
  PROVE  DebugInv'
<1> DEFINE e == Head(answers)
           s == e.of
           x == sessions[s]
           y == [x EXCEPT !.terminated = TRUE]
           o == One(e \in Recreating)
<1>1. /\ DebugTypes /\ SessionsKnown /\ \A t \in Sessions : Typed(sessions[t])
      /\ answers \in Seq(DebugAnswers)
  BY DEF DebugInv, DebugTypes
<1>2. s \in Sessions /\ e \in DebugAnswers /\ e.restart \in BOOLEAN
  <2>1. e \in DebugAnswers
    BY <1>1, TailOf
  <2> QED BY <2>1 DEF DebugAnswers
<1>3. Typed(x) /\ FirstAlone(x) /\ x.state = "shown"
  BY <1>1, <1>2 DEF SessionsKnown
<1>4. /\ Typed(y) /\ y.state = x.state /\ y.capabilities = x.capabilities
      /\ FirstAlone(y) /\ AgainOf(y) = AgainOf(x)
  <2>1. /\ y \in SessionTypes /\ y.state = x.state /\ y.capabilities = x.capabilities
        /\ y.pendingRequests = x.pendingRequests /\ y.waits = x.waits
    <3> HIDE DEF x
    <3> QED BY <1>3 DEF Typed, SessionTypes
  <2> HIDE DEF y, x
  <2> QED BY <1>3, <2>1 DEF Typed, FirstAlone, Firsts, AgainOf
<1>5. o \in {0, 1} /\ Cardinality(AgainOf(x)) \in Nat
  BY <1>3, AgainFinite DEF One
<1>6. PICK z, n : /\ n \in {0, 1} /\ n <= o /\ Follows(y, z, n) /\ Becomes(s, z, <<>>)
  <2>1. CASE e.restart
    <3> DEFINE z == Restart(y)
               n == One("restart" \notin y.capabilities)
    <3>1. Follows(y, z, n)
      <4> HIDE DEF y
      <4> QED BY <1>4, RestartIs
    <3>2. Becomes(s, z, <<>>)
      BY <2>1 DEF Terminated
    <3>3. n \in {0, 1} /\ n <= o
      <4>1. "restart" \notin y.capabilities => e \in Recreating
        BY <1>2, <1>4, <2>1 DEF Recreating
      <4> HIDE DEF y, e
      <4> QED BY <4>1 DEF One
    <3> HIDE DEF y, z, n, o
    <3> QED BY <3>1, <3>2, <3>3
  <2>2. CASE ~e.restart
    <3> DEFINE z == Terminate(y, FALSE)
    <3>1. Follows(y, z, 0)
      <4> HIDE DEF y
      <4>1. \A b \in BOOLEAN : Follows(y, Terminate(y, b), One(b))
        BY <1>4, TerminateIs
      <4>2. Follows(y, Terminate(y, FALSE), One(FALSE))
        BY <4>1, Zenon
      <4> QED BY <4>2 DEF One
    <3>2. Becomes(s, z, <<>>)
      BY <2>2 DEF Terminated
    <3> HIDE DEF y, z
    <3>3. 0 \in {0, 1} /\ 0 <= o
      BY <1>5
    <3> HIDE DEF o
    <3> QED BY <3>1, <3>2, <3>3
  <2> QED BY <2>1, <2>2
<1>7. /\ Typed(z) /\ z.state = x.state /\ z.capabilities = x.capabilities /\ FirstAlone(z)
      /\ Cardinality(AgainOf(z)) <= Cardinality(AgainOf(x)) + n
  <2> HIDE DEF x, y
  <2> QED BY <1>4, <1>6, FollowsIs DEF Follows
<1>8. HowMany(<<>>, Creations) + Cardinality(AgainOf(z)) <= Cardinality(AgainOf(x)) + o
  <2>1. Cardinality(AgainOf(z)) \in Nat /\ HowMany(<<>>, Creations) = 0
    BY <1>7, AgainFinite, NoCalls
  <2> HIDE DEF x, y, o
  <2> QED BY <1>5, <1>6, <1>7, <2>1
<1>9. z.state # "none" /\ sessions[s].capabilities \subseteq z.capabilities
  BY <1>3, <1>7
<1> QED BY <1>6, <1>7, <1>8, <1>9, NoCalls, AnswerMove

LEMMA AnswerKeeps ==
  ASSUME DebugInv, DebugAnswer
  PROVE  DebugInv'
<1> DEFINE e == Head(answers)
           s == e.of
           x == sessions[s]
<1>1. /\ DebugTypes /\ SessionsKnown /\ \A t \in Sessions : Typed(sessions[t])
      /\ answers \in Seq(DebugAnswers) /\ stuck \subseteq Sessions
  BY DEF DebugInv, DebugTypes, DebugTypeOK
<1>2. /\ answers # <<>> /\ answers' = Tail(answers) /\ adapters' = adapters
      /\ stops' = stops /\ orphans' = orphans
      /\ stuck' = stuck \/ stuck' = stuck \cup {s}
  BY DEF DebugAnswer
<1>3. s \in Sessions
  <2>1. e \in DebugAnswers
    BY <1>1, <1>2, TailOf
  <2> QED BY <2>1 DEF DebugAnswers
<1>4. stuck' \subseteq Sessions
  BY <1>1, <1>2, <1>3
<1>5. Typed(x) /\ FirstAlone(x) /\ (x.state = "none" => Blank(x))
  BY <1>1, <1>3 DEF SessionsKnown
<1>6. ASSUME NEW y, Typed(y), FirstAlone(y), y.state = x.state, y.capabilities = x.capabilities,
             AgainOf(y) = AgainOf(x), Blank(x) => Blank(y), e.op # "debugCreated",
             Becomes(s, y, <<>>)
      PROVE  DebugInv'
  <2>1. One(e \in Recreating) \in {0, 1} /\ Cardinality(AgainOf(x)) \in Nat
    BY <1>5, AgainFinite DEF One
  <2>2. HowMany(<<>>, Creations) + Cardinality(AgainOf(y))
        <= Cardinality(AgainOf(x)) + One(e \in Recreating)
    BY <1>6, <2>1, NoCalls
  <2>3. sessions[s].capabilities \subseteq y.capabilities /\ (y.state = "none" => Blank(y))
    BY <1>5, <1>6
  <2> QED BY <1>2, <1>4, <1>6, <2>2, <2>3, NoCalls, AnswerMove
<1>7. ASSUME e.op # "debugCreated", Becomes(s, x, <<>>) PROVE DebugInv'
  <2> HIDE DEF x
  <2> QED BY <1>5, <1>6, <1>7
<1>8. CASE /\ e.op = "debugCreated"
           /\ Becomes(s, Requested(NewSession("shown"), "initialize", FALSE), <<OpenCall(s)>>)
  BY <1>2, <1>4, <1>8, CreatedKeeps
<1>9. CASE e.op = "debugReady" /\ Becomes(s, [x EXCEPT !.channel = "open"], <<>>)
  <2> DEFINE y == [x EXCEPT !.channel = "open"]
  <2> HIDE DEF x
  <2>1. /\ y \in SessionTypes /\ y.state = x.state /\ y.capabilities = x.capabilities
        /\ y.pendingRequests = x.pendingRequests /\ y.waits = x.waits
    BY <1>5 DEF Typed, SessionTypes
  <2>2. Becomes(s, y, <<>>)
    BY <1>9
  <2> HIDE DEF y
  <2>3. Typed(y) /\ FirstAlone(y) /\ AgainOf(y) = AgainOf(x) /\ (Blank(x) => Blank(y))
    BY <1>5, <2>1 DEF Typed, FirstAlone, Firsts, AgainOf, Blank
  <2> QED BY <1>6, <1>9, <2>1, <2>2, <2>3
<1>10. CASE /\ e.op = "response"
            /\ \/ \E p \in x.pendingRequests : Response(s, x, p, e)
               \/ Becomes(s, x, <<>>)
  <2>1. ASSUME NEW p \in x.pendingRequests, Response(s, x, p, e) PROVE DebugInv'
    BY <1>2, <1>4, <1>10, <2>1, ResponseKeeps
  <2> QED BY <1>7, <1>10, <2>1
<1>11. CASE e.op = "terminated" /\ x.state = "shown" /\ Terminated(s, x, e.restart)
  BY <1>2, <1>4, <1>11, TerminatedKeeps
<1>12. CASE e.op = "exited" /\ x.state = "shown" /\ Exited(s, x, 0)
  <2>1. Cardinality(AgainOf(x)) + 0 <= Cardinality(AgainOf(x))
    BY <1>5, AgainFinite
  <2>2. 0 \in Nat
    OBVIOUS
  <2> QED BY <1>2, <1>4, <1>5, <1>12, <2>1, <2>2, ExitMove
<1>13. CASE e.op \in {"terminated", "exited"} /\ x.state # "shown" /\ Becomes(s, x, <<>>)
  BY <1>7, <1>13
<1> HIDE DEF s, x, e
<1>14. \/ /\ e.op = "debugCreated"
          /\ Becomes(s, Requested(NewSession("shown"), "initialize", FALSE), <<OpenCall(s)>>)
       \/ e.op = "debugReady" /\ Becomes(s, [x EXCEPT !.channel = "open"], <<>>)
       \/ /\ e.op = "response"
          /\ (\E p \in x.pendingRequests : Response(s, x, p, e)) \/ Becomes(s, x, <<>>)
       \/ e.op = "terminated" /\ x.state = "shown" /\ Terminated(s, x, e.restart)
       \/ e.op = "exited" /\ x.state = "shown" /\ Exited(s, x, 0)
       \/ e.op \in {"terminated", "exited"} /\ x.state # "shown" /\ Becomes(s, x, <<>>)
  BY Zenon DEF DebugAnswer, s, x, e
<1> QED BY <1>8, <1>9, <1>10, <1>11, <1>12, <1>13, <1>14

-----------------------------------------------------------------------------
(* The other steps.                                                          *)

AdapterTypes ==
  [state : {"none", "running", "exited"}, channel : {"none", "open", "closed"},
   registered : BOOLEAN, signalled : BOOLEAN, input : Seq(Messages),
   said : SUBSET {"terminated", "exited"}]

LEMMA BackendMove ==
  ASSUME DebugInv, sessions' = sessions, DebugTypes', InOrder', CreatedOnce',
         \A t \in Sessions : adapters[t].state # "none" => adapters'[t].state # "none",
         Cardinality(Spawned)' + HowMany(answers', Recreating) + HowMany(waiting', Creations)
           + HowMany(requests', Creations) + Cardinality(Restarting(sessions)) <= MaxSessions
  PROVE  DebugInv'
<1>1. Recreating' = Recreating /\ Restarting(sessions)' = Restarting(sessions)
  BY DEF Recreating, Restarting
<1>2. (Owed <= MaxSessions)'
  BY <1>1 DEF Owed, Creations, CreateCall
<1>3. SessionsKnown'
  BY DEF DebugInv, SessionsKnown, Blank, FirstAlone, Firsts
<1> QED BY <1>2, <1>3 DEF DebugInv

\* Answers are added none of which is that a session is created.
LEMMA CreatedStays ==
  ASSUME DebugInv, sessions' = sessions, NEW sent \in Seq(DebugAnswers),
         answers' = answers \o sent, \A i \in DOMAIN sent : sent[i].op # "debugCreated",
         \A t \in Sessions : adapters[t].state # "none" => adapters'[t].state # "none"
  PROVE  CreatedOnce'
<1>1. answers \in Seq(DebugAnswers) /\ CreatedOnce
  BY DEF DebugInv, DebugTypes
<1>2. \A k \in DOMAIN answers' :
        answers'[k].op = "debugCreated" => k \in DOMAIN answers /\ answers'[k] = answers[k]
  <2>1. /\ \A k \in DOMAIN answers : answers'[k] = answers[k]
        /\ \A k \in DOMAIN answers' :
             \/ k \in DOMAIN answers
             \/ k - Len(answers) \in DOMAIN sent /\ answers'[k] = sent[k - Len(answers)]
    BY <1>1, AppendedAt
  <2> QED BY <2>1
<1>3. \A k \in DOMAIN answers : answers[k].of \in Sessions
  <2>1. \A k \in DOMAIN answers : answers[k] \in DebugAnswers
    BY <1>1
  <2> QED BY <2>1 DEF DebugAnswers
<1> QED BY <1>1, <1>2, <1>3 DEF CreatedOnce

LEMMA StartKeeps ==
  ASSUME DebugInv, StartDebugging
  PROVE  DebugInv'
<1>1. /\ DebugTypes /\ DebugTypeOK /\ InOrder /\ CreatedOnce
      /\ \A t \in Sessions : Typed(sessions[t])
      /\ answers \in Seq(DebugAnswers)
  BY DEF DebugInv, DebugTypes
<1>2. /\ Ordered < MaxSessions /\ Call(<<CreateCall>>)
      /\ answers' = answers /\ sessions' = sessions /\ adapters' = adapters
      /\ stops' = stops /\ orphans' = orphans /\ stuck' = stuck
  BY DEF StartDebugging, debugVars
<1>3. <<CreateCall>> \in Seq(DebugCalls) /\ HowMany(<<CreateCall>>, Creations) = 1
  <2>1. CreateCall \in DebugCalls /\ CreateCall \in Creations
    BY DEF CreateCall, DebugCalls, Creations
  <2>2. HowMany(<<CreateCall>>, Creations) = One(CreateCall \in Creations)
    BY PlaceOfOne
  <2> QED BY <2>1, <2>2 DEF One
<1>4. /\ waiting' \in Seq(DebugCalls) /\ requests' \in Seq(DebugCalls)
      /\ HowMany(waiting', Creations) + HowMany(requests', Creations)
         = HowMany(waiting, Creations) + HowMany(requests, Creations) + 1
  <2> DEFINE calls == <<CreateCall>>
  <2>1. calls \in Seq(DebugCalls) /\ HowMany(calls, Creations) = 1 /\ Call(calls)
    BY <1>2, <1>3
  <2> HIDE DEF calls
  <2> QED BY <1>1, <2>1, CalledIs
<1>5. DebugTypes'
  BY <1>1, <1>2, <1>4 DEF DebugTypes, DebugTypeOK, Typed
<1>6. InOrder' /\ CreatedOnce' /\ Cardinality(Spawned)' = Cardinality(Spawned)
  BY <1>1, <1>2 DEF InOrder, Spawned, CreatedOnce
<1>7. /\ Owed <= Ordered /\ Owed \in Nat /\ Ordered \in Nat /\ MaxSessions \in Nat
      /\ Cardinality(Spawned) \in Nat /\ HowMany(answers, Recreating) \in Nat
      /\ HowMany(waiting, Creations) \in Nat /\ HowMany(requests, Creations) \in Nat
      /\ Cardinality(Restarting(sessions)) \in Nat
      /\ HowMany(waiting', Creations) \in Nat /\ HowMany(requests', Creations) \in Nat
  BY <1>1, <1>4, OwedIsOrdered, SessionsFinite, OwedParts, PlacesCounted
<1>8. Cardinality(Spawned)' + HowMany(answers', Recreating) + HowMany(waiting', Creations)
        + HowMany(requests', Creations) + Cardinality(Restarting(sessions)) <= MaxSessions
  <2>1. HowMany(answers', Recreating) = HowMany(answers, Recreating)
    BY <1>2
  <2> DEFINE c == Cardinality(Spawned)
             a == HowMany(answers, Recreating)
             w == HowMany(waiting, Creations)
             q == HowMany(requests, Creations)
             wy == HowMany(waiting', Creations)
             qy == HowMany(requests', Creations)
             r == Cardinality(Restarting(sessions))
  <2>2. Owed = c + a + w + q + r /\ wy + qy = w + q + 1
    BY <1>4 DEF Owed
  <2>3. /\ c \in Nat /\ a \in Nat /\ w \in Nat /\ q \in Nat /\ wy \in Nat /\ qy \in Nat /\ r \in Nat
        /\ Owed < MaxSessions
    BY <1>2, <1>7
  <2> HIDE DEF c, a, w, q, wy, qy, r
  <2>4. c + a + wy + qy + r = Owed + 1
    BY <2>2, <2>3
  <2>5. c + a + wy + qy + r <= MaxSessions
    BY <1>7, <2>3, <2>4
  <2> QED BY <1>6, <2>1, <2>5 DEF c, a, wy, qy, r
<1> QED BY <1>2, <1>5, <1>6, <1>8, BackendMove

LEMMA ConnectsKeeps ==
  ASSUME DebugInv, DebugConnect
  PROVE  DebugInv'
<1>1. /\ DebugTypes /\ DebugTypeOK /\ InOrder /\ CreatedOnce /\ Owed <= MaxSessions
      /\ \A t \in Sessions : Typed(sessions[t])
      /\ waiting \in Seq(DebugCalls) /\ answers \in Seq(DebugAnswers)
  BY DEF DebugInv, DebugTypes
<1>2. /\ requests' = waiting \o <<>> /\ waiting' = <<>> /\ answers' = answers
      /\ sessions' = sessions /\ adapters' = adapters
      /\ stops' = stops /\ orphans' = orphans /\ stuck' = stuck
  BY DEF DebugConnect, Listen, debugVars
<1>3. /\ requests' = waiting /\ waiting' \in Seq(DebugCalls)
      /\ HowMany(waiting', Creations) = 0
  BY <1>1, <1>2, NoCalls
<1>4. DebugTypes'
  BY <1>1, <1>2, <1>3 DEF DebugTypes, DebugTypeOK, Typed
<1>5. InOrder' /\ CreatedOnce' /\ Cardinality(Spawned)' = Cardinality(Spawned)
  BY <1>1, <1>2 DEF InOrder, Spawned, CreatedOnce
<1>6. Cardinality(Spawned)' + HowMany(answers', Recreating) + HowMany(waiting', Creations)
        + HowMany(requests', Creations) + Cardinality(Restarting(sessions)) <= MaxSessions
  <2>1. /\ HowMany(answers', Recreating) = HowMany(answers, Recreating)
        /\ HowMany(requests', Creations) = HowMany(waiting, Creations)
    BY <1>2, <1>3
  <2>2. MaxSessions \in Nat
    BY SessionsFinite
  <2> QED BY <1>1, <1>3, <1>5, <2>1, <2>2, OwedParts DEF Owed
<1> QED BY <1>2, <1>4, <1>5, <1>6, BackendMove

LEMMA SaysKeeps ==
  ASSUME DebugInv, NEW s \in Sessions, adapters[s].state = "running",
         NEW a \in AdapterTypes, a.state # "none", NEW m \in DebugAnswers, m.op # "debugCreated",
         m \in Recreating => Owed < MaxSessions, Says(s, a, m)
  PROVE  DebugInv'
<1>1. /\ DebugTypes /\ DebugTypeOK /\ InOrder /\ CreatedOnce /\ Owed <= MaxSessions
      /\ \A t \in Sessions : Typed(sessions[t])
      /\ answers \in Seq(DebugAnswers)
      /\ adapters \in [Sessions -> AdapterTypes]
  BY DEF DebugInv, DebugTypes, DebugTypeOK, AdapterTypes
<1>2. /\ adapters' = [adapters EXCEPT ![s] = a]
      /\ waiting' = waiting /\ requests' = requests /\ sessions' = sessions
      /\ stops' = stops /\ orphans' = orphans /\ stuck' = stuck
      /\ answers' = answers \/ answers' = Append(answers, m)
  BY DEF Says
<1>3. PICK sent \in Seq(DebugAnswers) :
        /\ answers' = answers \o sent
        /\ sent = <<>> \/ sent = <<m>>
  <2>1. <<>> \in Seq(DebugAnswers) /\ <<m>> \in Seq(DebugAnswers)
        /\ answers \o <<>> = answers /\ answers \o <<m>> = Append(answers, m)
    BY <1>1
  <2>2. CASE answers' = answers
    BY <2>1, <2>2
  <2>3. CASE answers' = Append(answers, m)
    BY <2>1, <2>3
  <2> QED BY <1>2, <2>2, <2>3
<1>4. /\ answers' \in Seq(DebugAnswers)
      /\ HowMany(answers', Recreating) = HowMany(answers, Recreating) + HowMany(sent, Recreating)
      /\ HowMany(sent, Recreating) \in {0, 1}
      /\ HowMany(sent, Recreating) = 1 => Owed < MaxSessions
      /\ \A i \in DOMAIN sent : sent[i].op # "debugCreated"
  <2>1. answers' \in Seq(DebugAnswers)
    BY <1>1, <1>3, AppendedAt
  <2>2. HowMany(answers', Recreating) = HowMany(answers, Recreating) + HowMany(sent, Recreating)
    BY <1>1, <1>3, PlacesJoined
  <2>3. CASE sent = <<>>
    <3>1. HowMany(sent, Recreating) = 0
      <4>1. \A i \in DOMAIN sent : sent[i] \notin Recreating
        BY <2>3
      <4> QED BY <1>3, <4>1, NoPlaces
    <3>2. \A i \in DOMAIN sent : sent[i].op # "debugCreated"
      BY <2>3
    <3> QED BY <2>1, <2>2, <3>1, <3>2
  <2>4. CASE sent = <<m>>
    <3>1. HowMany(sent, Recreating) = One(m \in Recreating)
      BY <2>4, PlaceOfOne
    <3>2. One(m \in Recreating) \in {0, 1} /\ (One(m \in Recreating) = 1 => m \in Recreating)
      BY DEF One
    <3>3. \A i \in DOMAIN sent : sent[i].op # "debugCreated"
      BY <2>4
    <3> QED BY <2>1, <2>2, <3>1, <3>2, <3>3
  <2> QED BY <1>3, <2>3, <2>4
<1>5. /\ adapters' \in [Sessions -> AdapterTypes] /\ Spawned' = Spawned
      /\ \A t \in Sessions : adapters[t].state # "none" => adapters'[t].state # "none"
  BY <1>1, <1>2 DEF Spawned
<1>6. DebugTypes'
  BY <1>1, <1>2, <1>4, <1>5 DEF DebugTypes, DebugTypeOK, Typed, AdapterTypes
<1>7. CreatedOnce'
  BY <1>2, <1>3, <1>4, <1>5, CreatedStays
<1>8. InOrder' /\ Cardinality(Spawned)' = Cardinality(Spawned)
  BY <1>1, <1>5 DEF InOrder
<1>9. Cardinality(Spawned)' + HowMany(answers', Recreating) + HowMany(waiting', Creations)
        + HowMany(requests', Creations) + Cardinality(Restarting(sessions)) <= MaxSessions
  <2>1. /\ HowMany(waiting', Creations) = HowMany(waiting, Creations)
        /\ HowMany(requests', Creations) = HowMany(requests, Creations)
    BY <1>2
  <2>2. MaxSessions \in Nat /\ Owed \in Nat
    BY <1>1, SessionsFinite, OwedIsOrdered
  <2>3. Cardinality(Spawned)' + HowMany(answers', Recreating) + HowMany(waiting', Creations)
          + HowMany(requests', Creations) + Cardinality(Restarting(sessions))
        = Owed + HowMany(sent, Recreating)
    BY <1>1, <1>4, <1>8, <2>1, OwedParts DEF Owed
  <2> QED BY <1>1, <1>4, <2>2, <2>3
<1> QED BY <1>2, <1>5, <1>6, <1>7, <1>8, <1>9, BackendMove

\* A call handled by the backend, which spawns n adapters and answers with sent.
LEMMA ServeMove ==
  ASSUME DebugInv, NEW sent \in Seq(DebugAnswers), Serve(sent), sessions' = sessions,
         stops' = stops, orphans' = orphans, stuck' \subseteq Sessions,
         adapters' \in [Sessions -> AdapterTypes], InOrder', CreatedOnce',
         \A t \in Sessions : adapters[t].state # "none" => adapters'[t].state # "none",
         \A i \in DOMAIN sent : sent[i].op # "terminated",
         Cardinality(Spawned)' <= Cardinality(Spawned) + One(Head(requests) \in Creations)
  PROVE  DebugInv'
<1>1. /\ DebugTypes /\ DebugTypeOK /\ Owed <= MaxSessions
      /\ \A t \in Sessions : Typed(sessions[t])
      /\ requests \in Seq(DebugCalls) /\ answers \in Seq(DebugAnswers)
  BY DEF DebugInv, DebugTypes
<1>2. /\ requests # <<>> /\ requests' = Tail(requests) /\ answers' = answers \o sent
      /\ waiting' = waiting
  BY DEF Serve
<1>3. requests' \in Seq(DebugCalls) /\ answers' \in Seq(DebugAnswers)
  BY <1>1, <1>2, TailOf, AppendedAt
<1>4. HowMany(requests, Creations) = One(Head(requests) \in Creations) + HowMany(requests', Creations)
  BY <1>1, <1>2, PlacesTaken
<1>5. HowMany(answers', Recreating) = HowMany(answers, Recreating) + 0
  <2>1. \A i \in DOMAIN sent : sent[i] \notin Recreating
    BY DEF Recreating
  <2>2. HowMany(sent, Recreating) = 0
    BY <2>1, NoPlaces
  <2> QED BY <1>1, <1>2, <2>2, PlacesJoined
<1>6. DebugTypes'
  BY <1>1, <1>2, <1>3 DEF DebugTypes, DebugTypeOK, Typed, AdapterTypes
<1>7. Cardinality(Spawned)' \in Nat
  <2>1. IsFiniteSet(Spawned) /\ Cardinality(Spawned) \in Nat
    BY SpawnedCounted
  <2>2. (IsFiniteSet(Spawned) /\ Cardinality(Spawned) \in Nat)'
    BY SpawnedCounted, PTL
  <2> QED BY <2>2
<1>8. Cardinality(Spawned)' + HowMany(answers', Recreating) + HowMany(waiting', Creations)
        + HowMany(requests', Creations) + Cardinality(Restarting(sessions)) <= MaxSessions
  <2> DEFINE c == Cardinality(Spawned)
             cy == Cardinality(Spawned)'
             a == HowMany(answers, Recreating)
             w == HowMany(waiting, Creations)
             q == HowMany(requests, Creations)
             qy == HowMany(requests', Creations)
             r == Cardinality(Restarting(sessions))
             o == One(Head(requests) \in Creations)
  <2>1. Owed = c + a + w + q + r /\ q = o + qy /\ cy <= c + o /\ Owed <= MaxSessions
    BY <1>1, <1>4 DEF Owed
  <2>2. /\ c \in Nat /\ a \in Nat /\ w \in Nat /\ q \in Nat /\ r \in Nat /\ cy \in Nat
        /\ qy \in Nat /\ o \in {0, 1} /\ MaxSessions \in Nat
    BY <1>1, <1>3, <1>7, OwedParts, PlacesCounted, SessionsFinite DEF One
  <2>3. HowMany(answers', Recreating) = a /\ HowMany(waiting', Creations) = w
    BY <1>2, <1>5, <2>2
  <2> HIDE DEF c, cy, a, w, q, qy, r, o
  <2>4. cy + a + w + qy + r <= MaxSessions
    <3>1. c + a + w + (o + qy) + r <= MaxSessions
      BY <2>1
    <3>2. o \in Nat /\ cy <= c + o
      BY <2>1, <2>2
    <3> QED BY <2>2, <3>1, <3>2
  <2> QED BY <2>3, <2>4 DEF cy, qy, r
<1> QED BY <1>6, <1>8, BackendMove

LEMMA ServesKeeps ==
  ASSUME DebugInv, ServeDebug
  PROVE  DebugInv'
<1> DEFINE c == Head(requests)
           n == Cardinality(Spawned)
           new == 1 + n
<1>1. /\ DebugTypes /\ DebugTypeOK /\ InOrder /\ CreatedOnce /\ SessionsKnown /\ Owed <= MaxSessions
      /\ requests \in Seq(DebugCalls) /\ answers \in Seq(DebugAnswers)
      /\ adapters \in [Sessions -> AdapterTypes] /\ stuck \subseteq Sessions
      /\ Spawned = 1 .. n
  BY DEF DebugInv, DebugTypes, DebugTypeOK, AdapterTypes, InOrder
<1>2. /\ requests # <<>> /\ sessions' = sessions /\ stops' = stops /\ orphans' = orphans
      /\ \/ /\ c.op = "debugCreate"
            /\ adapters' = [adapters EXCEPT ![new] = NewAdapter("running")]
            /\ Serve(<<[op |-> "debugCreated", of |-> new]>>)
            /\ stuck' = stuck
         \/ /\ c.op = "debugOpen"
            /\ adapters' = [adapters EXCEPT ![c.of].channel = "open"]
            /\ Serve(<<[op |-> "debugReady", of |-> c.of]>>)
            /\ stuck' = stuck \/ stuck' = stuck \cup {c.of}
         \/ /\ c.op = "debugData"
            /\ adapters' = [adapters EXCEPT ![c.of].input = Append(@, c.message)]
            /\ Serve(<<>>) /\ stuck' = stuck
         \/ /\ c.op = "debugTerminate"
            /\ adapters' = [adapters EXCEPT ![c.of] =
                 IF @.registered THEN [Stopped(@) EXCEPT !.registered = FALSE] ELSE @]
            /\ Serve(<<>>) /\ stuck' = stuck
  BY DEF ServeDebug, Spawned
<1>3. n \in Nat /\ MaxSessions \in Nat /\ \A s \in Sessions : s \in Nat
  BY SpawnedCounted, SessionsFinite
<1>4. c \in DebugCalls
  BY <1>1, <1>2, TailOf
<1>5. CASE /\ c.op = "debugCreate"
           /\ adapters' = [adapters EXCEPT ![new] = NewAdapter("running")]
           /\ Serve(<<[op |-> "debugCreated", of |-> new]>>)
           /\ stuck' = stuck
  <2> DEFINE m == [op |-> "debugCreated", of |-> new]
             sent == <<m>>
  <2>1. c \in Creations
    BY <1>4, <1>5 DEF Creations, CreateCall, DebugCalls
  <2>2. One(c \in Creations) = 1
    BY <2>1 DEF One
  <2>3. new \in Sessions /\ new \notin Spawned /\ new \in Nat
    <3>1. HowMany(requests, Creations) = 1 + HowMany(Tail(requests), Creations)
      BY <1>1, <1>2, <2>2, PlacesTaken
    <3>2. HowMany(Tail(requests), Creations) \in Nat
      <4>1. Tail(requests) \in Seq(DebugCalls)
        BY <1>1, <1>2, TailOf
      <4> QED BY <4>1, PlacesCounted
    <3> DEFINE a == HowMany(answers, Recreating)
               w == HowMany(waiting, Creations)
               q == HowMany(requests, Creations)
               r == Cardinality(Restarting(sessions))
    <3>3. /\ Owed = n + a + w + q + r /\ a \in Nat /\ w \in Nat /\ q \in Nat /\ r \in Nat /\ q >= 1
      BY <1>1, <3>1, <3>2, OwedParts DEF Owed
    <3> HIDE DEF a, w, q, r, n
    <3>4. n + 1 <= MaxSessions
      BY <1>1, <1>3, <3>3
    <3> QED BY <1>1, <1>3, <3>4 DEF Sessions
  <2>4. m \in DebugAnswers /\ sent \in Seq(DebugAnswers) /\ \A i \in DOMAIN sent : sent[i].op # "terminated"
    BY <2>3 DEF DebugAnswers
  <2>5. adapters' \in [Sessions -> AdapterTypes] /\ NewAdapter("running").state # "none"
    <3>1. NewAdapter("running") \in AdapterTypes /\ NewAdapter("running").state # "none"
      <4>1. <<>> \in Seq(Messages)
        OBVIOUS
      <4> QED BY <4>1 DEF NewAdapter, AdapterTypes
    <3> DEFINE A == NewAdapter("running")
    <3> HIDE DEF A, new, m, sent
    <3>2. [adapters EXCEPT ![new] = A] \in [Sessions -> AdapterTypes]
      BY <1>1, <3>1 DEF A
    <3> QED BY <1>5, <3>1, <3>2 DEF A
  <2>6. /\ \A t \in Sessions : t # new => adapters'[t] = adapters[t]
        /\ adapters'[new].state # "none" /\ adapters[new].state = "none"
    <3>1. adapters[new].state = "none"
      BY <2>3 DEF Spawned
    <3> HIDE DEF new, m, sent
    <3> QED BY <1>1, <1>5, <2>3, <2>5, <3>1
  <2>7. \A t \in Sessions : adapters[t].state # "none" => adapters'[t].state # "none"
    BY <2>6
  <2>8. Spawned' = Spawned \cup {new}
    BY <2>3, <2>6 DEF Spawned
  <2>9. Spawned' = 1 .. new /\ Cardinality(Spawned)' = new
    <3>1. Spawned' = 1 .. new
      BY <1>1, <1>3, <2>8
    <3>2. Cardinality(1 .. new) = new
      BY <2>3, FS_Interval
    <3> QED BY <3>1, <3>2
  <2>10. InOrder'
    BY <2>9 DEF InOrder
  <2>11. /\ \A k \in DOMAIN answers : k \in DOMAIN answers' /\ answers'[k] = answers[k] /\ k \in Nat
         /\ \A k \in DOMAIN answers' : k \in DOMAIN answers \/ (answers'[k] = m /\ k = Len(answers) + 1)
    <3> HIDE DEF m
    <3>1. answers' = Append(answers, m)
      BY <1>1, <1>5, <2>4 DEF Serve, m
    <3> QED BY <1>1, <2>4, <3>1
  <2>12. \A k \in DOMAIN answers : answers[k].op = "debugCreated" => answers[k].of # new
    BY <1>1, <2>6 DEF CreatedOnce
  <2>13. sessions[new].state = "none"
    BY <1>1, <2>3, <2>6 DEF SessionsKnown
  <2>14. \A k \in DOMAIN answers : answers[k].of \in Sessions
    <3>1. \A k \in DOMAIN answers : answers[k] \in DebugAnswers
      BY <1>1
    <3> QED BY <3>1 DEF DebugAnswers
  <2>15. CreatedOnce'
    <3>1. m.of = new
      OBVIOUS
    <3> HIDE DEF m, new, n
    <3>2. ASSUME NEW i \in DOMAIN answers', answers'[i].op = "debugCreated"
          PROVE  /\ adapters'[answers'[i].of].state # "none"
                 /\ sessions'[answers'[i].of].state = "none"
                 /\ \A j \in DOMAIN answers' : answers'[j].op = "debugCreated"
                      /\ answers'[j].of = answers'[i].of => j = i
      <4>1. CASE i \in DOMAIN answers
        <5>1. /\ adapters[answers[i].of].state # "none" /\ sessions[answers[i].of].state = "none"
              /\ \A j \in DOMAIN answers :
                   answers[j].op = "debugCreated" /\ answers[j].of = answers[i].of => j = i
              /\ answers[i].of # new /\ answers'[i] = answers[i] /\ answers[i].of \in Sessions
          BY <1>1, <2>11, <2>12, <2>14, <3>2, <4>1 DEF CreatedOnce
        <5>2. ASSUME NEW j \in DOMAIN answers', answers'[j].op = "debugCreated",
                     answers'[j].of = answers'[i].of
              PROVE  j = i
          BY <2>11, <3>1, <5>1, <5>2
        <5> QED BY <1>2, <2>7, <5>1, <5>2
      <4>2. CASE answers'[i] = m /\ i = Len(answers) + 1
        <5>1. ASSUME NEW j \in DOMAIN answers', answers'[j].op = "debugCreated",
                     answers'[j].of = answers'[i].of
              PROVE  j = i
          BY <2>11, <2>12, <3>1, <4>2, <5>1
        <5> QED BY <1>2, <2>6, <2>13, <3>1, <4>2, <5>1
      <4> QED BY <2>11, <4>1, <4>2
    <3> QED BY <3>2 DEF CreatedOnce
  <2>16. Cardinality(Spawned)' <= n + One(c \in Creations)
    BY <1>3, <2>2, <2>9
  <2>17. Serve(sent) /\ stuck' \subseteq Sessions
    BY <1>1, <1>5
  <2> HIDE DEF sent
  <2> QED BY <1>2, <2>4, <2>5, <2>7, <2>10, <2>15, <2>16, <2>17, ServeMove
<1>6. ASSUME NEW a \in AdapterTypes, NEW sent \in Seq(DebugAnswers), c.of \in Sessions,
             a.state = adapters[c.of].state, adapters' = [adapters EXCEPT ![c.of] = a],
             Serve(sent), \A i \in DOMAIN sent : sent[i].op = "debugReady",
             stuck' \subseteq Sessions
      PROVE  DebugInv'
  <2>1. /\ adapters' \in [Sessions -> AdapterTypes] /\ Spawned' = Spawned
        /\ \A t \in Sessions : adapters[t].state # "none" => adapters'[t].state # "none"
    <3> DEFINE s == c.of
    <3>1. s \in Sessions /\ a.state = adapters[s].state /\ adapters' = [adapters EXCEPT ![s] = a]
      BY <1>6
    <3> HIDE DEF s
    <3> QED BY <1>1, <3>1 DEF Spawned
  <2>2. InOrder'
    BY <1>1, <2>1 DEF InOrder
  <2>3. CreatedOnce'
    <3>1. answers' = answers \o sent
      BY <1>6 DEF Serve
    <3> QED BY <1>2, <1>6, <2>1, <3>1, CreatedStays
  <2>4. Cardinality(Spawned)' <= n + One(c \in Creations)
    <3>1. One(c \in Creations) \in {0, 1}
      BY DEF One
    <3> QED BY <1>3, <2>1, <3>1
  <2> QED BY <1>2, <1>6, <2>1, <2>2, <2>3, <2>4, ServeMove
<1>7. c.op # "debugCreate" => c.of \in Sessions /\ adapters[c.of] \in AdapterTypes
  BY <1>1, <1>4 DEF DebugCalls
<1>8. CASE /\ c.op = "debugOpen"
           /\ adapters' = [adapters EXCEPT ![c.of].channel = "open"]
           /\ Serve(<<[op |-> "debugReady", of |-> c.of]>>)
           /\ stuck' = stuck \/ stuck' = stuck \cup {c.of}
  <2> DEFINE s == c.of
             b == adapters[s]
             a == [b EXCEPT !.channel = "open"]
             sent == <<[op |-> "debugReady", of |-> s]>>
  <2>1. s \in Sessions /\ b \in AdapterTypes
    BY <1>7, <1>8
  <2>2. a \in AdapterTypes /\ a.state = b.state
    <3> HIDE DEF b
    <3> QED BY <2>1 DEF AdapterTypes
  <2>3. sent \in Seq(DebugAnswers) /\ \A i \in DOMAIN sent : sent[i].op = "debugReady"
    <3>1. [op |-> "debugReady", of |-> s] \in DebugAnswers
      BY <2>1 DEF DebugAnswers
    <3> QED BY <3>1
  <2>4. adapters' = [adapters EXCEPT ![c.of] = a]
    BY <1>8
  <2>5. Serve(sent) /\ stuck' \subseteq Sessions
    BY <1>1, <1>8, <2>1
  <2> HIDE DEF a, sent
  <2> QED BY <1>6, <2>1, <2>2, <2>3, <2>4, <2>5
<1>9. <<>> \in Seq(DebugAnswers) /\ \A i \in DOMAIN <<>> : <<>>[i].op = "debugReady"
  OBVIOUS
<1>10. CASE /\ c.op = "debugData"
            /\ adapters' = [adapters EXCEPT ![c.of].input = Append(@, c.message)]
            /\ Serve(<<>>) /\ stuck' = stuck
  <2> DEFINE b == adapters[c.of]
             a == [b EXCEPT !.input = Append(@, c.message)]
  <2>1. c.of \in Sessions /\ b \in AdapterTypes /\ c.message \in Messages
    <3>1. c.message \in Messages
      BY <1>4, <1>10 DEF DebugCalls
    <3> QED BY <1>7, <1>10, <3>1
  <2>2. a \in AdapterTypes /\ a.state = b.state
    <3> DEFINE x == c.message
    <3> HIDE DEF b, x
    <3>1. Append(b.input, x) \in Seq(Messages)
      BY <2>1 DEF AdapterTypes, x
    <3> QED BY <2>1, <3>1 DEF AdapterTypes, x
  <2>3. adapters' = [adapters EXCEPT ![c.of] = a]
    BY <1>10
  <2> HIDE DEF a
  <2> QED BY <1>1, <1>6, <1>9, <1>10, <2>1, <2>2, <2>3
<1>11. CASE /\ c.op = "debugTerminate"
            /\ adapters' = [adapters EXCEPT ![c.of] =
                 IF @.registered THEN [Stopped(@) EXCEPT !.registered = FALSE] ELSE @]
            /\ Serve(<<>>) /\ stuck' = stuck
  <2> DEFINE b == adapters[c.of]
             a == IF b.registered THEN [Stopped(b) EXCEPT !.registered = FALSE] ELSE b
  <2>1. c.of \in Sessions /\ b \in AdapterTypes
    BY <1>7, <1>11
  <2>2. a \in AdapterTypes /\ a.state = b.state
    <3> HIDE DEF b
    <3> QED BY <2>1 DEF AdapterTypes, Stopped
  <2>3. adapters' = [adapters EXCEPT ![c.of] = a]
    BY <1>11
  <2> HIDE DEF a
  <2> QED BY <1>1, <1>6, <1>9, <1>11, <2>1, <2>2, <2>3
<1> QED BY <1>2, <1>5, <1>8, <1>10, <1>11

LEMMA AdapterKeeps ==
  ASSUME DebugInv, NEW s \in Sessions,
         AdapterAnswers(s) \/ AdapterTerminates(s) \/ DebuggeeExits(s) \/ AdapterExits(s)
  PROVE  DebugInv'
<1> DEFINE a == adapters[s]
<1>1. a \in AdapterTypes /\ DebugTypes
  BY DEF DebugInv, DebugTypes, DebugTypeOK, AdapterTypes
<1>2. a.state = "running"
  BY DEF AdapterAnswers, AdapterTerminates, DebuggeeExits, AdapterExits
<1>3. ASSUME NEW b \in AdapterTypes, b.state # "none", NEW m \in DebugAnswers,
             m.op \notin {"debugCreated", "terminated"}, Says(s, b, m)
      PROVE  DebugInv'
  <2>1. m \notin Recreating
    BY <1>3 DEF Recreating
  <2> QED BY <1>2, <1>3, <2>1, SaysKeeps
<1>4. CASE AdapterAnswers(s)
  <2> DEFINE m == Head(a.input)
             b == [a EXCEPT !.input = Tail(@)]
  <2>1. PICK success, capabilities :
          /\ success \in BOOLEAN /\ capabilities \in Capabilities(m, success)
          /\ Says(s, b, [op |-> "response", of |-> s, seq |-> m.seq, success |-> success,
                         capabilities |-> capabilities])
    BY <1>4 DEF AdapterAnswers
  <2>2. a.input # <<>> /\ a.input \in Seq(Messages)
    BY <1>1, <1>4 DEF AdapterAnswers, AdapterTypes
  <2>3. Tail(a.input) \in Seq(Messages) /\ m.seq \in Nat
    <3> DEFINE q == a.input
    <3>1. q \in Seq(Messages) /\ q # <<>>
      BY <2>2
    <3> HIDE DEF q
    <3>2. Tail(q) \in Seq(Messages) /\ Head(q) \in Messages
      BY <3>1, TailOf
    <3> QED BY <3>2 DEF q, Messages
  <2>4. b \in AdapterTypes /\ b.state # "none"
    <3> HIDE DEF a
    <3> QED BY <1>1, <1>2, <2>3 DEF AdapterTypes
  <2> DEFINE r == [op |-> "response", of |-> s, seq |-> m.seq, success |-> success,
                   capabilities |-> capabilities]
  <2>5. success \in BOOLEAN /\ capabilities \in SUBSET {"terminate", "restart"}
    BY <2>1 DEF Capabilities
  <2>6. r \in DebugAnswers /\ r.op \notin {"debugCreated", "terminated"}
    BY <2>3, <2>5 DEF DebugAnswers
  <2> HIDE DEF r, b
  <2> QED BY <1>3, <2>1, <2>4, <2>6 DEF r
<1>5. CASE AdapterTerminates(s)
  <2> DEFINE b == [a EXCEPT !.said = @ \cup {"terminated"}]
  <2>1. PICK restart \in BOOLEAN :
          /\ restart => MayRestart(s)
          /\ Says(s, b, [op |-> "terminated", of |-> s, restart |-> restart])
    BY <1>5 DEF AdapterTerminates
  <2>2. b \in AdapterTypes /\ b.state # "none"
    <3> HIDE DEF a
    <3> QED BY <1>1, <1>2 DEF AdapterTypes
  <2> DEFINE m == [op |-> "terminated", of |-> s, restart |-> restart]
  <2>3. m \in DebugAnswers /\ m.op # "debugCreated" /\ m.of = s /\ m.restart = restart
    BY DEF DebugAnswers
  <2>4. Says(s, b, m)
    BY <2>1
  <2> HIDE DEF m, b
  <2>5. m \in Recreating => Owed < MaxSessions
    <3>1. ASSUME m \in Recreating PROVE Ordered < MaxSessions
      BY <2>1, <2>3, <3>1 DEF Recreating, MayRestart
    <3> QED BY <1>1, <3>1, OwedIsOrdered, SessionsFinite
  <2> QED BY <1>2, <2>2, <2>3, <2>4, <2>5, SaysKeeps
<1>6. [op |-> "exited", of |-> s] \in DebugAnswers
  BY DEF DebugAnswers
<1>7. CASE DebuggeeExits(s)
  <2> DEFINE b == [a EXCEPT !.said = @ \cup {"exited"}]
             m == [op |-> "exited", of |-> s]
  <2>1. b \in AdapterTypes /\ b.state # "none"
    <3> HIDE DEF a
    <3> QED BY <1>1, <1>2 DEF AdapterTypes
  <2>2. Says(s, b, m) /\ m \in DebugAnswers /\ m.op \notin {"debugCreated", "terminated"}
    BY <1>6, <1>7 DEF DebuggeeExits
  <2> HIDE DEF b, m
  <2> QED BY <1>3, <2>1, <2>2
<1>8. CASE AdapterExits(s)
  <2> DEFINE b == [a EXCEPT !.state = "exited", !.input = <<>>]
             m == [op |-> "exited", of |-> s]
  <2>1. b \in AdapterTypes /\ b.state # "none"
    <3>1. <<>> \in Seq(Messages)
      OBVIOUS
    <3> HIDE DEF a
    <3> QED BY <1>1, <3>1 DEF AdapterTypes
  <2>2. Says(s, b, m) /\ m \in DebugAnswers /\ m.op \notin {"debugCreated", "terminated"}
    BY <1>6, <1>8 DEF AdapterExits
  <2> HIDE DEF b, m
  <2> QED BY <1>3, <2>1, <2>2
<1> QED BY <1>4, <1>5, <1>7, <1>8

\* When the socket closes each session that is shown exits at once, and those that
\* wait to restart it ask for as many as they were owed.
LEMMA LostKeeps ==
  ASSUME DebugInv, DebugConnectionLost
  PROVE  DebugInv'
<1> DEFINE open == {s \in Sessions : sessions[s].channel = "open" /\ sessions[s].state # "none"}
           exits == {s \in open : sessions[s].state = "shown"}
           of == SetToSeq(exits)
           again == UNION {{<<s, w>> : w \in {v \in sessions[s].waits : v.again}} : s \in exits}
           told == [i \in DOMAIN of |-> TerminateCall(of[i])]
           anew == Again(Cardinality(again))
           Moved(x, exit) == [IF exit THEN Destroyed(x) ELSE x EXCEPT !.channel = "closed"]
<1>1. /\ DebugTypes /\ DebugTypeOK /\ Owed <= MaxSessions /\ InOrder /\ SessionsKnown
      /\ \A s \in Sessions : Typed(sessions[s])
      /\ waiting \in Seq(DebugCalls) /\ answers \in Seq(DebugAnswers)
      /\ sessions \in [Sessions -> SessionTypes] /\ adapters \in [Sessions -> AdapterTypes]
      /\ orphans \subseteq Sessions /\ stuck \subseteq Sessions
  BY DEF DebugInv, DebugTypes, DebugTypeOK, SessionTypes, AdapterTypes
<1>2. /\ requests' = <<>> /\ answers' = <<>> /\ waiting' = waiting \o told \o anew
      /\ sessions' = [s \in Sessions |-> IF s \in open THEN Moved(sessions[s], s \in exits)
                                         ELSE sessions[s]]
      /\ adapters' = [s \in Sessions |->
           IF adapters[s].channel = "open" THEN ChannelCloses(adapters[s]) ELSE adapters[s]]
      /\ stops' = stops
      /\ orphans' = orphans \cup {a.of : a \in {b \in ToSet(answers) : b.op = "debugCreated"}}
      /\ stuck' \subseteq stuck \cup Sessions
  BY DEF DebugConnectionLost
<1>3. ASSUME NEW x, Typed(x), NEW exit \in BOOLEAN
      PROVE  LET y == Moved(x, exit)
             IN  /\ Typed(y) /\ y.capabilities = x.capabilities
                 /\ y.state = (IF exit THEN "destroyed" ELSE x.state)
                 /\ y.pendingRequests = (IF exit THEN {} ELSE x.pendingRequests)
                 /\ y.waits = (IF exit THEN {} ELSE x.waits)
  <2> DEFINE y == Moved(x, exit)
  <2>1. x \in SessionTypes /\ IsFiniteSet(x.pendingRequests) /\ IsFiniteSet(x.waits)
    BY <1>3 DEF Typed
  <2>2. /\ y \in SessionTypes /\ y.capabilities = x.capabilities
        /\ y.state = (IF exit THEN "destroyed" ELSE x.state)
        /\ y.pendingRequests = (IF exit THEN {} ELSE x.pendingRequests)
        /\ y.waits = (IF exit THEN {} ELSE x.waits)
    <3>1. CASE exit
      <4>1. y = [Destroyed(x) EXCEPT !.channel = "closed"]
        BY <3>1
      <4> HIDE DEF y
      <4> QED BY <2>1, <3>1, <4>1 DEF SessionTypes, Destroyed
    <3>2. CASE ~exit
      <4>1. y = [x EXCEPT !.channel = "closed"]
        BY <3>2
      <4> HIDE DEF y
      <4> QED BY <2>1, <3>2, <4>1 DEF SessionTypes
    <3> QED BY <3>1, <3>2
  <2> HIDE DEF y
  <2> QED BY <2>1, <2>2, FS_EmptySet DEF Typed, y
<1>4. ASSUME NEW s \in Sessions
      PROVE  /\ Typed(sessions'[s]) /\ sessions'[s].capabilities = sessions[s].capabilities
             /\ sessions'[s].state = (IF s \in exits THEN "destroyed" ELSE sessions[s].state)
             /\ sessions'[s].pendingRequests = (IF s \in exits THEN {} ELSE sessions[s].pendingRequests)
             /\ sessions'[s].waits = (IF s \in exits THEN {} ELSE sessions[s].waits)
  <2> DEFINE b == s \in exits
             x == sessions[s]
             y == Moved(x, b)
  <2>1. CASE s \in open
    <3>1. sessions'[s] = y
      BY <1>2, <2>1
    <3>2. b \in BOOLEAN /\ Typed(x)
      BY <1>1
    <3> HIDE DEF x, b
    <3>3. /\ Typed(y) /\ y.capabilities = x.capabilities
          /\ y.state = (IF b THEN "destroyed" ELSE x.state)
          /\ y.pendingRequests = (IF b THEN {} ELSE x.pendingRequests)
          /\ y.waits = (IF b THEN {} ELSE x.waits)
      BY <1>3, <3>2
    <3> QED BY <3>1, <3>3 DEF x, b
  <2>2. CASE s \notin open
    <3>1. sessions'[s] = sessions[s] /\ s \notin exits
      BY <1>2, <2>2
    <3> QED BY <1>1, <3>1
  <2> QED BY <2>1, <2>2
<1>5. exits \subseteq Sessions /\ \A s \in exits : sessions[s].state = "shown"
  OBVIOUS
<1> HIDE DEF Moved, open, exits
<1>6. Spawned' = Spawned /\ adapters' \in [Sessions -> AdapterTypes]
      /\ \A s \in Sessions : adapters'[s].state = adapters[s].state
  <2>1. ASSUME NEW a \in AdapterTypes PROVE ChannelCloses(a) \in AdapterTypes /\ ChannelCloses(a).state = a.state
    BY DEF AdapterTypes, ChannelCloses, Stopped
  <2>2. \A s \in Sessions : adapters'[s] \in AdapterTypes /\ adapters'[s].state = adapters[s].state
    BY <1>1, <1>2, <2>1
  <2>3. adapters' = [s \in Sessions |-> adapters'[s]]
    BY <1>2
  <2> QED BY <2>2, <2>3 DEF Spawned
<1>7. InOrder'
  BY <1>1, <1>6 DEF InOrder
<1>8. SessionsKnown'
  <2>1. ASSUME NEW s \in Sessions
        PROVE  /\ adapters'[s].state = "none" => sessions'[s].state = "none"
               /\ sessions'[s].state = "none" => Blank(sessions'[s])
               /\ FirstAlone(sessions'[s])
    <3> DEFINE y == sessions'[s]
               x == sessions[s]
    <3>1. /\ adapters[s].state = "none" => x.state = "none"
          /\ x.state = "none" => Blank(x)
          /\ FirstAlone(x)
      BY <1>1 DEF SessionsKnown
    <3>2. CASE s \in exits
      <4>1. y.state = "destroyed" /\ y.pendingRequests = {} /\ x.state = "shown"
        BY <1>4, <1>5, <3>2
      <4>2. adapters'[s].state # "none"
        BY <1>6, <3>1, <4>1
      <4> HIDE DEF x, y
      <4>3. FirstAlone(y)
        BY <4>1 DEF FirstAlone, Firsts
      <4> QED BY <4>1, <4>2, <4>3 DEF y
    <3>3. CASE s \notin exits
      <4>1. /\ y.state = x.state /\ y.pendingRequests = x.pendingRequests
            /\ y.waits = x.waits /\ y.capabilities = x.capabilities
            /\ adapters'[s].state = adapters[s].state
        BY <1>4, <1>6, <3>3
      <4> HIDE DEF x, y
      <4>2. (Blank(x) => Blank(y)) /\ (FirstAlone(x) => FirstAlone(y))
        BY <4>1 DEF Blank, FirstAlone, Firsts
      <4> QED BY <3>1, <4>1, <4>2 DEF y
    <3> QED BY <3>2, <3>3
  <2> QED BY <2>1 DEF SessionsKnown, Blank, FirstAlone, Firsts
<1>9. CreatedOnce'
  BY <1>2 DEF CreatedOnce
<1>10. /\ IsFiniteSet(Restarting(sessions)) /\ Cardinality(Restarting(sessions)) \in Nat
       /\ IsFiniteSet(again) /\ Cardinality(again) \in Nat
       /\ Cardinality(Restarting(sessions)') \in Nat
       /\ Cardinality(Restarting(sessions)') + Cardinality(again) <= Cardinality(Restarting(sessions))
  <2> DEFINE P == Restarting(sessions)
             Q == Restarting(sessions)'
  <2>1. IsFiniteSet(P) /\ Cardinality(P) \in Nat
    BY <1>1, RestartingCounted
  <2>2. again \subseteq P
    BY <1>5 DEF Restarting, AgainOf
  <2>3. Q \subseteq P /\ Q \cap again = {}
    <3>1. ASSUME NEW s \in Sessions, NEW p \in AgainOf(sessions'[s])
          PROVE  s \notin exits /\ p \in AgainOf(sessions[s])
      BY <1>4, <3>1 DEF AgainOf
    <3>2. \A r \in Q : \E s, p : s \in Sessions /\ p \in AgainOf(sessions'[s]) /\ r = <<s, p>>
      BY DEF Restarting
    <3>3. ASSUME NEW r \in Q PROVE r \in P /\ r \notin again
      <4>1. PICK s, p : s \in Sessions /\ p \in AgainOf(sessions'[s]) /\ r = <<s, p>>
        BY <3>2
      <4>2. s \notin exits /\ p \in AgainOf(sessions[s])
        BY <3>1, <4>1
      <4>3. r \in P
        BY <4>1, <4>2 DEF Restarting
      <4>4. \A c : c \in again <=> \E t \in exits : c \in {<<t, v>> : v \in {u \in sessions[t].waits : u.again}}
        BY Zenon
      <4>5. ASSUME r \in again PROVE FALSE
        <5>1. PICK t \in exits : r \in {<<t, v>> : v \in {u \in sessions[t].waits : u.again}}
          BY <4>4, <4>5
        <5>2. PICK v : r = <<t, v>>
          BY <5>1
        <5> QED BY <4>1, <4>2, <5>2
      <4> QED BY <4>3, <4>5
    <3> QED BY <3>3
  <2> HIDE DEF P, Q, again
  <2>4. /\ IsFiniteSet(again) /\ IsFiniteSet(Q) /\ Cardinality(again) \in Nat /\ Cardinality(Q) \in Nat
    BY <2>1, <2>2, <2>3, FS_Subset, FS_CardinalityType
  <2>5. Cardinality(Q \cup again) = Cardinality(Q) + Cardinality(again) - Cardinality(Q \cap again)
    BY <2>4, FS_Union
  <2>6. Cardinality(Q \cap again) = 0
    BY <2>3, FS_EmptySet
  <2>7. Cardinality(Q \cup again) <= Cardinality(P)
    <3>1. Q \cup again \in SUBSET P
      BY <2>2, <2>3
    <3> QED BY <2>1, <3>1, FS_Subset
  <2>8. Cardinality(Q) + Cardinality(again) <= Cardinality(P)
    BY <2>1, <2>4, <2>5, <2>6, <2>7
  <2> QED BY <2>1, <2>4, <2>8 DEF P, Q
<1> HIDE DEF again
<1>11. told \in Seq(DebugCalls) /\ HowMany(told, Creations) = 0
  <2>1. IsFiniteSet(exits)
    BY <1>5, SessionsFinite, FS_Subset
  <2>2. of \in Seq(exits)
    BY <2>1, SetListed
  <2> HIDE DEF of
  <2>3. Len(of) \in Nat /\ DOMAIN of = 1 .. Len(of) /\ \A i \in DOMAIN of : of[i] \in Sessions
    BY <1>5, <2>2
  <2>4. \A s \in Sessions : TerminateCall(s) \in DebugCalls /\ TerminateCall(s) \notin Creations
    BY DEF TerminateCall, DebugCalls, Creations, CreateCall
  <2>5. DOMAIN told = 1 .. Len(of) /\ told \in [1 .. Len(of) -> DebugCalls]
        /\ \A i \in DOMAIN told : told[i] \notin Creations
    BY <2>3, <2>4
  <2> HIDE DEF told
  <2>6. told \in Seq(DebugCalls)
    BY <2>3, <2>5
  <2> QED BY <2>5, <2>6, NoPlaces
<1>12. anew \in Seq(DebugCalls) /\ HowMany(anew, Creations) = Cardinality(again)
  BY <1>10, ManyCreations
<1> HIDE DEF told, anew, of
<1>13. /\ waiting' \in Seq(DebugCalls)
       /\ HowMany(waiting', Creations) = HowMany(waiting, Creations) + Cardinality(again)
  <2> DEFINE first == waiting \o told
  <2>1. first \in Seq(DebugCalls) /\ HowMany(first, Creations) = HowMany(waiting, Creations) + 0
    BY <1>1, <1>11, AppendedAt, PlacesJoined
  <2>2. waiting' = first \o anew
    BY <1>2
  <2> HIDE DEF first
  <2>3. first \o anew \in Seq(DebugCalls)
        /\ HowMany(first \o anew, Creations) = HowMany(first, Creations) + HowMany(anew, Creations)
    BY <1>12, <2>1, AppendedAt, PlacesJoined
  <2>4. HowMany(waiting, Creations) \in Nat
    BY <1>1, PlacesCounted
  <2> QED BY <1>12, <2>1, <2>2, <2>3, <2>4
<1>14. DebugTypes'
  <2>1. \A s \in Sessions : Typed(sessions[s])'
    BY <1>4 DEF Typed
  <2>2. sessions' \in [Sessions -> SessionTypes]
    <3>1. sessions' = [s \in Sessions |-> sessions'[s]]
      BY <1>2
    <3>2. \A s \in Sessions : sessions'[s] \in SessionTypes
      BY <1>4 DEF Typed
    <3> QED BY <3>1, <3>2
  <2>3. orphans' \subseteq Sessions /\ stuck' \subseteq Sessions /\ stops' = stops
    <3>1. \A a \in ToSet(answers) : a.of \in Sessions
      <4>1. ToSet(answers) \subseteq DebugAnswers
        BY <1>1, ToSetOf
      <4> QED BY <4>1 DEF DebugAnswers
    <3> QED BY <1>1, <1>2, <3>1
  <2>4. DebugTypeOK'
    BY <1>1, <1>6, <2>2, <2>3 DEF DebugTypeOK, SessionTypes, AdapterTypes
  <2>5. requests' \in Seq(DebugCalls) /\ answers' \in Seq(DebugAnswers)
    BY <1>2
  <2> QED BY <1>13, <2>1, <2>4, <2>5 DEF DebugTypes
<1>15. (Owed <= MaxSessions)'
  <2>1. HowMany(answers', Recreating') = 0 /\ HowMany(requests', Creations) = 0
    <3> DEFINE R == Recreating'
    <3>1. HowMany(<<>>, R) = 0
      <4> HIDE DEF R
      <4>1. <<>> \in Seq(DebugAnswers) /\ \A i \in DOMAIN <<>> : <<>>[i] \notin R
        OBVIOUS
      <4> QED BY <4>1, NoPlaces
    <3> QED BY <1>2, <3>1, NoCalls
  <2>2. Owed' = Cardinality(Spawned)' + HowMany(answers', Recreating')
                + HowMany(waiting', Creations) + HowMany(requests', Creations)
                + Cardinality(Restarting(sessions)')
    BY DEF Owed, Creations, CreateCall
  <2> DEFINE c == Cardinality(Spawned)
             a == HowMany(answers, Recreating)
             w == HowMany(waiting, Creations)
             q == HowMany(requests, Creations)
             r == Cardinality(Restarting(sessions))
             ry == Cardinality(Restarting(sessions)')
             k == Cardinality(again)
             h == HowMany(waiting', Creations)
  <2>3. Owed = c + a + w + q + r /\ Owed <= MaxSessions /\ ry + k <= r /\ h = w + k
    BY <1>1, <1>10, <1>13 DEF Owed
  <2>4. /\ c \in Nat /\ a \in Nat /\ w \in Nat /\ q \in Nat /\ r \in Nat /\ ry \in Nat /\ k \in Nat
        /\ MaxSessions \in Nat
    BY <1>1, <1>10, OwedParts, SessionsFinite
  <2>5. Cardinality(Spawned)' = c
    BY <1>6
  <2> HIDE DEF c, a, w, q, r, ry, k, h
  <2>6. c + 0 + h + 0 + ry <= MaxSessions
    <3>1. c + w + r <= MaxSessions
      BY <2>3, <2>4
    <3> QED BY <2>3, <2>4, <3>1
  <2> QED BY <2>1, <2>2, <2>5, <2>6 DEF h, ry
<1> QED BY <1>7, <1>8, <1>9, <1>14, <1>15 DEF DebugInv

-----------------------------------------------------------------------------
(* What holds of the sessions always.                                        *)

LEMMA DebugStarts ==
  ASSUME DebugInit
  PROVE  DebugInv
<1>1. /\ sessions = [s \in Sessions |-> NewSession("none")]
      /\ adapters = [s \in Sessions |-> NewAdapter("none")]
      /\ stops = 0 /\ orphans = {} /\ stuck = {}
      /\ waiting = <<>> /\ requests = <<>> /\ answers = <<>>
  BY DEF DebugInit, ProxyInit
<1>2. /\ NewSession("none") \in SessionTypes /\ NewAdapter("none") \in AdapterTypes
      /\ NewSession("none").state = "none" /\ NewAdapter("none").state = "none"
      /\ NewSession("none").pendingRequests = {} /\ NewSession("none").waits = {}
      /\ NewSession("none").capabilities = {}
  <2>1. <<>> \in Seq(Messages)
    OBVIOUS
  <2> QED BY <2>1 DEF NewSession, NewAdapter, SessionTypes, AdapterTypes
<1>3. \A s \in Sessions : Typed(sessions[s]) /\ Blank(sessions[s]) /\ FirstAlone(sessions[s])
                          /\ AgainOf(sessions[s]) = {}
  BY <1>1, <1>2, FS_EmptySet DEF Typed, Blank, FirstAlone, Firsts, AgainOf
<1>4. MaxStops \in Nat
  BY DebugAssumption
<1>5. DebugTypes
  <2>1. sessions \in [Sessions -> SessionTypes] /\ adapters \in [Sessions -> AdapterTypes]
    BY <1>1, <1>2
  <2>2. DebugTypeOK
    BY <1>1, <1>4, <2>1 DEF DebugTypeOK, SessionTypes, AdapterTypes
  <2>3. /\ waiting \in Seq(DebugCalls) /\ requests \in Seq(DebugCalls)
        /\ answers \in Seq(DebugAnswers)
    BY <1>1
  <2> QED BY <1>3, <2>2, <2>3 DEF DebugTypes
<1>6. Spawned = {} /\ Cardinality(Spawned) = 0 /\ Restarting(sessions) = {}
  BY <1>1, <1>2, <1>3, FS_EmptySet DEF Spawned, Restarting
<1>7. Owed <= MaxSessions
  <2>1. HowMany(answers, Recreating) = 0
    <3>1. <<>> \in Seq(DebugAnswers) /\ \A i \in DOMAIN <<>> : <<>>[i] \notin Recreating
      OBVIOUS
    <3> QED BY <1>1, <3>1, NoPlaces
  <2>2. HowMany(waiting, Creations) = 0 /\ HowMany(requests, Creations) = 0
    BY <1>1, NoCalls
  <2> QED BY <1>6, <2>1, <2>2, FS_EmptySet, SessionsFinite DEF Owed
<1>8. InOrder
  BY <1>6 DEF InOrder
<1>9. SessionsKnown /\ CreatedOnce
  BY <1>1, <1>2, <1>3 DEF SessionsKnown, CreatedOnce
<1> QED BY <1>5, <1>7, <1>8, <1>9 DEF DebugInv

LEMMA DebugStutters ==
  ASSUME DebugInv, UNCHANGED <<sessions, adapters, stops, orphans, stuck,
                               waiting, requests, answers>>
  PROVE  DebugInv'
<1>1. DebugTypes'
  BY DEF DebugInv, DebugTypes, DebugTypeOK, Typed
<1>2. Owed' = Owed
  BY DEF Owed, Recreating, Creations, Spawned, Restarting, HowMany, Places
<1>3. InOrder' /\ SessionsKnown' /\ CreatedOnce'
  BY DEF DebugInv, InOrder, Spawned, SessionsKnown, CreatedOnce
<1> QED BY <1>1, <1>2, <1>3 DEF DebugInv

LEMMA DebugStepKeeps ==
  ASSUME DebugInv, [DebugNext]_allDebugVars
  PROVE  DebugInv'
<1>1. CASE UNCHANGED allDebugVars
  BY <1>1, DebugStutters DEF allDebugVars, proxyVars, debugVars
<1>2. CASE DebugNext
  <2>1. ASSUME NEW s \in Sessions,
               \/ AdapterAnswers(s) \/ AdapterTerminates(s)
               \/ DebuggeeExits(s) \/ AdapterExits(s)
        PROVE  DebugInv'
    BY <2>1, AdapterKeeps
  <2> QED BY <1>2, <2>1, StartKeeps, AnswerKeeps, ConnectsKeeps, ServesKeeps, LostKeeps,
             StopKeeps, TimeoutKeeps DEF DebugNext
<1> QED BY <1>1, <1>2

\* The debug sessions of a connection have their types: however restarts, timeouts
\* and lost connections cross, no more sessions are asked for than there is room
\* for, a new adapter takes the next number, and a session begins only once.
THEOREM DebugTypesCorrect == DebugSpec => []DebugTypeOK
<1>1. DebugInit => DebugInv
  BY DebugStarts
<1>2. DebugInv /\ [DebugNext]_allDebugVars => DebugInv'
  BY DebugStepKeeps
<1>3. DebugInv => DebugTypeOK
  BY DEF DebugInv, DebugTypes
<1> QED BY <1>1, <1>2, <1>3, PTL DEF DebugSpec

\* An adapter that is spawned takes the next number and is told of once, the session
\* of the browser begins with that, and its capabilities come with the answer to its
\* only first request.
THEOREM SessionsBeginOnce == DebugSpec => [](InOrder /\ SessionsKnown /\ CreatedOnce)
<1>1. DebugInit => DebugInv
  BY DebugStarts
<1>2. DebugInv /\ [DebugNext]_allDebugVars => DebugInv'
  BY DebugStepKeeps
<1>3. DebugInv => InOrder /\ SessionsKnown /\ CreatedOnce
  BY DEF DebugInv
<1> QED BY <1>1, <1>2, <1>3, PTL DEF DebugSpec

-----------------------------------------------------------------------------
(* Files or debug sessions over the connection.                              *)

ServicesInv == DebugTypeOK /\ IF uses = "files" THEN WatchingInv ELSE DebugInv

\* Whichever of the two services uses the connection, the variables of both and the
\* calls of the one in use keep their types.
THEOREM TypesCorrect == MCSpec => []TypesOK
<1>1. MCInit => ServicesInv
  <2> SUFFICES ASSUME MCInit PROVE ServicesInv
    OBVIOUS
  <2>1. WatchingInv
    BY NothingWatchedAtFirst DEF MCInit
  <2>2. DebugInv
    BY DebugStarts DEF MCInit
  <2> QED BY <2>1, <2>2 DEF ServicesInv, DebugInv, DebugTypes
<1>2. ServicesInv /\ [MCNext]_<<vars, debugVars, uses>> => ServicesInv'
  <2> SUFFICES ASSUME ServicesInv, [MCNext]_<<vars, debugVars, uses>> PROVE ServicesInv'
    OBVIOUS
  <2>1. uses' = uses
    BY DEF MCNext
  <2>2. CASE uses = "files"
    <3>1. [Next]_vars /\ UNCHANGED debugVars
      BY <2>2 DEF MCNext
    <3>2. WatchingInv'
      BY <2>2, <3>1, WatchingInvKept DEF ServicesInv
    <3>3. DebugTypeOK'
      BY <3>1 DEF ServicesInv, DebugTypeOK, debugVars
    <3> QED BY <2>1, <2>2, <3>2, <3>3 DEF ServicesInv
  <2>3. CASE uses # "files"
    <3>1. [DebugNext]_allDebugVars
      <4>1. CASE MCNext
        BY <2>3, <4>1 DEF MCNext
      <4>2. CASE UNCHANGED <<vars, debugVars, uses>>
        BY <4>2 DEF vars, allDebugVars
      <4> QED BY <4>1, <4>2
    <3>2. DebugInv'
      BY <2>3, <3>1, DebugStepKeeps DEF ServicesInv
    <3> QED BY <2>1, <2>3, <3>2 DEF ServicesInv, DebugInv, DebugTypes
  <2> QED BY <2>2, <2>3
<1>3. ServicesInv => TypesOK
  <2>1. WatchingInv => TypeOK
    BY DEF WatchingInv, ProxyOK, ProxyTypes, ClientOK, LocalTypes, WatchersOK, TypeOK, Answers, Watchers
  <2> QED BY <2>1 DEF ServicesInv, TypesOK
<1> QED BY <1>1, <1>2, <1>3, PTL DEF MCSpec
=============================================================================
