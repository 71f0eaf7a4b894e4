----------------------------- MODULE ServerProofs -----------------------------
(***************************************************************************)
(* Proofs about ConnPool and about Server, for any number of requests, any *)
(* limit and any of the handlers: the connections that are in use, what a  *)
(* request may find, and what may cut it.                                  *)
(***************************************************************************)
EXTENDS Server, SumLemmas, SequenceTheorems, TLAPS

---------------------------------------------------------------------------
(* The calls that are left to a handler *)

Calls == {"page", "get", "list", "update", "insert", "tx", "login"}

\* The gets of a handler come first; only editing a job has a late one.
EarlyGets(s) ==
  \/ \A i \in 1..Len(s) : s[i] = "get" => i \in {1, 2, 3, 4}
  \/ \A i \in 1..Len(s) : s[i] = "get" => i \in {1, 2, 3, 5}

Short == {s \in Seq(Calls) : Len(s) \in 1..7 /\ EarlyGets(s)}

\* No handler makes more than seven calls, four of them gets.
LEMMA ScriptsAreShort == Scripts \subseteq Short
<1>1. /\ <<"list">> \in Short
      /\ <<"get", "list">> \in Short
      /\ <<"list", "list">> \in Short
      /\ <<"page", "insert">> \in Short
      /\ <<"page", "update">> \in Short
      /\ <<"get", "page", "insert">> \in Short
      /\ <<"get", "page", "update">> \in Short
      /\ <<"list", "get", "list">> \in Short
      /\ <<"page", "login", "page">> \in Short
      /\ <<"get", "get", "page", "insert">> \in Short
      /\ <<"get", "get", "page", "update">> \in Short
      /\ <<"list", "get", "get", "list">> \in Short
      /\ <<"get", "get", "list", "page", "insert">> \in Short
      /\ <<"get", "get", "list", "page", "tx">> \in Short
      /\ <<"get", "get", "list", "page", "update">> \in Short
      /\ <<"get", "get", "list", "page", "get", "update">> \in Short
      /\ <<"list", "page", "get", "list", "page", "insert">> \in Short
      /\ <<"get", "get", "get", "get", "list", "page", "update">> \in Short
  BY DEF Short, Calls, EarlyGets
<1> QED
  BY <1>1, Zenon DEF
     Scripts, JobEdit, JobAdd, JobList, OrderEdit, OrderAdd, OrderList,
     GoodEdit, GoodAdd, GoodList, Pay, PaymentList, ClientPages,
     AddressEdit, AddressAdd, AddressList, AssetEdit, AssetAdd, AssetList,
     AssetFinder, EmployeePages, Login

\* That Peak is enough for every handler.
LEMMA FewGets ==
  ASSUME NEW s \in Scripts
  PROVE  Gets(s) \in Nat /\ Gets(s) < Peak
<1> DEFINE A == {i \in DOMAIN s : s[i] = "get"}
<1>1. DOMAIN s = 1..Len(s) /\ EarlyGets(s)
  BY ScriptsAreShort DEF Short
<1>2. A \subseteq {1, 2, 3, 4} \/ A \subseteq {1, 2, 3, 5}
  BY <1>1 DEF EarlyGets
<1>3. /\ IsFiniteSet({1, 2, 3, 4}) /\ Cardinality({1, 2, 3, 4}) = 4
      /\ IsFiniteSet({1, 2, 3, 5}) /\ Cardinality({1, 2, 3, 5}) = 4
  <2> DEFINE T == {1, 2, 3}
  <2>1. IsFiniteSet(T) /\ Cardinality(T) = 3
    <3>1. T = 1..3
      OBVIOUS
    <3> HIDE DEF T
    <3>2. \A n \in Nat : IsFiniteSet(1..n) /\ Cardinality(1..n) = n
      BY FS_Interval
    <3> QED
      BY <3>1, <3>2
  <2> HIDE DEF T
  <2>2. /\ 4 \notin T /\ T \cup {4} = {1, 2, 3, 4}
        /\ 5 \notin T /\ T \cup {5} = {1, 2, 3, 5}
    BY DEF T
  <2> QED
    BY <2>1, <2>2, FS_AddElement
<1> HIDE DEF A
<1>4. Cardinality(A) <= 4 /\ Cardinality(A) \in Nat
  BY <1>2, <1>3, FS_Subset, FS_CardinalityType
<1> QED
  BY <1>4 DEF A, Gets, Peak

LEMMA IsSuffix ==
  ASSUME NEW s \in Scripts, NEW i \in 1..8
  PROVE  SubSeq(s, i, Len(s)) \in Suffixes
  BY DEF Suffixes

LEMMA ScriptIsSuffix ==
  ASSUME NEW s \in Scripts
  PROVE  s \in Suffixes
<1>1. SubSeq(s, 1, Len(s)) = s
  BY ScriptsAreShort, SubSeqFull DEF Short
<1>2. 1 \in 1..8
  OBVIOUS
<1> QED
  BY <1>1, <1>2, IsSuffix, Zenon

LEMMA NothingIsSuffix == <<>> \in Suffixes
<1> DEFINE s == <<"list">>
<1>1. s \in Scripts
  BY DEF Scripts, AssetFinder
<1>2. SubSeq(s, 8, Len(s)) = <<>>
  <2>1. Len(s) \in Int /\ Len(s) < 8
    OBVIOUS
  <2> HIDE DEF s
  <2> QED
    BY <2>1, SubSeqEmpty
<1>3. 8 \in 1..8
  OBVIOUS
<1> HIDE DEF s
<1> QED
  BY <1>1, <1>2, <1>3, IsSuffix, Zenon

\* What is left after a call is what was left, without that call.
LEMMA TailIsSuffix ==
  ASSUME NEW t \in Suffixes, t # <<>>
  PROVE  t \in Seq(Calls) /\ Tail(t) \in Suffixes
<1>1. PICK s \in Scripts, i \in 1..8 : t = SubSeq(s, i, Len(s))
  BY DEF Suffixes
<1>2. s \in Seq(Calls) /\ Len(s) \in 1..7
  BY ScriptsAreShort DEF Short
<1>3. i <= Len(s)
  BY <1>1, <1>2, SubSeqEmpty
<1>4. t \in Seq(Calls)
  BY <1>1, <1>2
<1>5. Tail(t) = SubSeq(s, i + 1, Len(s))
  BY <1>1, <1>2, <1>3, HeadTailOfSubSeq
<1>6. i + 1 \in 1..8
  BY <1>1, <1>2, <1>3
<1>7. s \in Scripts
  BY <1>1
<1> QED
  BY <1>4, <1>5, <1>6, <1>7, IsSuffix, Zenon

\* A call that is a get is one of the gets that are left.
LEMMA GetsOfTail ==
  ASSUME NEW t \in Seq(Calls), t # <<>>
  PROVE  /\ Gets(t) \in Nat /\ Gets(Tail(t)) \in Nat
         /\ Gets(t) = Gets(Tail(t)) + (IF Head(t) = "get" THEN 1 ELSE 0)
<1> DEFINE n == Len(t)
           A == {i \in 1..n : t[i] = "get"}
           B == {i \in 1..n - 1 : Tail(t)[i] = "get"}
           C == A \ {1}
           up == [i \in B |-> i + 1]
<1>1. /\ n \in Nat \ {0} /\ Head(t) = t[1]
      /\ Tail(t) \in Seq(Calls) /\ Len(Tail(t)) = n - 1
      /\ \A i \in 1..n - 1 : Tail(t)[i] = t[i + 1]
  BY HeadTailProperties
<1>2. Gets(t) = Cardinality(A) /\ Gets(Tail(t)) = Cardinality(B)
  <2>1. DOMAIN t = 1..n /\ DOMAIN Tail(t) = 1..n - 1
    BY <1>1
  <2> QED
    BY <2>1, Zenon DEF Gets
<1>3. IsFiniteSet(A) /\ IsFiniteSet(B) /\ IsFiniteSet(C)
  <2>1. IsFiniteSet(1..n) /\ A \subseteq 1..n /\ B \subseteq 1..n /\ C \subseteq 1..n
    BY <1>1, FS_Interval
  <2> HIDE DEF A, B, C
  <2> QED
    BY <2>1, FS_Subset
<1>4. Cardinality(C) = Cardinality(B)
  <2>1. up \in Bijection(B, C)
    <3>1. up \in [B -> C]
      BY <1>1
    <3>2. \A i, j \in B : up[i] = up[j] => i = j
      BY <1>1
    <3>3. \A j \in C : \E i \in B : up[i] = j
      <4> SUFFICES ASSUME NEW j \in C PROVE \E i \in B : up[i] = j
        OBVIOUS
      <4>1. j - 1 \in 1..n - 1 /\ (j - 1) + 1 = j
        BY <1>1
      <4>2. j - 1 \in B /\ up[j - 1] = j
        BY <1>1, <4>1
      <4> QED
        BY <4>2
    <3> HIDE DEF up, B, C
    <3> QED
      BY <3>1, <3>2, <3>3 DEF Bijection, Injection, Surjection, IsInjective
  <2> HIDE DEF up, B, C
  <2>2. ExistsBijection(B, C)
    BY <2>1 DEF ExistsBijection
  <2> QED
    BY <1>3, <2>2, FS_Bijection
<1>5. CASE Head(t) = "get"
  <2>1. 1 \in A
    BY <1>1, <1>5
  <2> HIDE DEF A
  <2>2. Cardinality(C) = Cardinality(A) - 1
    BY <1>3, <2>1, FS_RemoveElement
  <2> HIDE DEF B, C
  <2> QED
    BY <1>2, <1>3, <1>4, <1>5, <2>2, FS_CardinalityType
<1>6. CASE Head(t) # "get"
  <2>1. A = C
    BY <1>1, <1>6
  <2> HIDE DEF A, B, C
  <2> QED
    BY <1>2, <1>3, <1>4, <1>6, <2>1, FS_CardinalityType
<1> QED
  BY <1>5, <1>6

---------------------------------------------------------------------------
(* What one request does to the pool *)

Stages == {"idle", "handling", "preparing", "prepared", "running"}
PoolAnswers == {"none", "given", "starved", "cut"}

\* Request r moves: the types and the thrift of the requests are kept, no other
\* request borrows or gives back, and r borrows, gives back or loses one
\* connection at most. It borrows only below the limit.
Moves(r) ==
  /\ todo' \in [Requests -> Suffixes]
  /\ stage' \in [Requests -> Stages]
  /\ held' \in [Requests -> 0..Peak]
  /\ gone' \in [Requests -> BOOLEAN]
  /\ answer' \in [Requests -> PoolAnswers]
  /\ \A q \in Requests : Frugal(q)'
  /\ \A q \in Requests \ {r} : Leased(q)' = Leased(q)
  /\ \/ kept' = kept /\ Leased(r)' = Leased(r)
     \/ kept' = kept /\ Leased(r)' = Leased(r) - 1
     \/ kept' = kept + 1 /\ Leased(r)' = Leased(r) - 1
     \/ /\ kept' = kept /\ Leased(r)' = Leased(r) + 1
        /\ InUse < Limit /\ Leased(r) < Peak

\* The calls that are left, and the next of them.
LEMMA NextCall ==
  ASSUME PoolInv, NEW r \in Requests
  PROVE  /\ todo[r] \in Suffixes
         /\ todo[r] # <<>> =>
              /\ Tail(todo[r]) \in Suffixes
              /\ Gets(todo[r]) \in Nat /\ Gets(Tail(todo[r])) \in Nat
              /\ Gets(todo[r]) = Gets(Tail(todo[r])) + (IF Call(r) = "get" THEN 1 ELSE 0)
<1>1. todo[r] \in Suffixes
  BY DEF PoolInv, PoolTypeOK
<1> QED
  BY <1>1, TailIsSuffix, GetsOfTail DEF Call

\* The handler returns, and it has left open no more than one row on the way.
LEMMA ReturnMoves ==
  ASSUME PoolInv, NEW r \in Requests, NEW a \in PoolAnswers, Return(r, a),
         \/ held' = held /\ kept' = kept
         \/ /\ stage[r] = "running" /\ held[r] < Peak
            /\ held' = [held EXCEPT ![r] = @ + 1] /\ kept' = kept
         \/ stage[r] = "running" /\ held' = held /\ kept' = kept + 1
  PROVE  Moves(r)
  BY NothingIsSuffix
  DEF PoolInv, PoolTypeOK, Return, Moves, Frugal, Active, Leased, Busy, Stages, PoolAnswers,
      Peak

\* A call is over.
LEMMA AdvanceMoves ==
  ASSUME PoolInv, NEW r \in Requests, Active(r), Advance(r), todo[r] # <<>>,
         \/ held' = held /\ kept' = kept
         \/ /\ stage[r] = "running" /\ Call(r) = "get"
            /\ held' = [held EXCEPT ![r] = @ + 1] /\ kept' = kept
         \/ stage[r] = "running" /\ held' = held /\ kept' = kept + 1
  PROVE  Moves(r)
  BY NextCall
  DEF PoolInv, PoolTypeOK, Advance, Moves, Frugal, Active, Leased, Busy, Stages, PoolAnswers,
      Peak

LEMMA GoesMoves ==
  ASSUME PoolInv, NEW r \in Requests, NEW to \in {"preparing", "prepared", "running"},
         Goes(r, to), UNCHANGED <<held, kept>>, todo[r] # <<>>,
         \/ stage[r] \in {"handling", "prepared"} /\ to # "prepared" /\ InUse < Limit
         \/ stage[r] = "preparing" /\ to = "prepared"
  PROVE  Moves(r)
<1>1. Active(r) => Gets(todo[r]) \in Nat
  BY NextCall
<1> QED
  BY <1>1 DEF PoolInv, PoolTypeOK, Goes, Moves, Frugal, Active, Leased, Busy, Stages,
     PoolAnswers, Peak

LEMMA GetsOfNothing == Gets(<<>>) = 0
<1>1. {i \in DOMAIN <<>> : <<>>[i] = "get"} = {}
  OBVIOUS
<1> QED
  BY <1>1, FS_EmptySet DEF Gets

LEMMA AcceptMoves ==
  ASSUME PoolInv, NEW r \in Requests, Accept(r)
  PROVE  Moves(r)
<1>1. PICK s \in Pages : todo' = [todo EXCEPT ![r] = s]
  BY DEF Accept
<1>2. s \in Suffixes /\ Gets(s) \in Nat /\ Gets(s) < Peak
  BY <1>1, PagesAssumption, ScriptIsSuffix, FewGets
<1> QED
  BY <1>1, <1>2
  DEF PoolInv, PoolTypeOK, Accept, Moves, Frugal, Active, Leased, Busy, Stages, PoolAnswers,
      Peak

LEMMA RowsMove ==
  ASSUME PoolInv, NEW r \in Requests, Leave(r) \/ CloseRows(r)
  PROVE  Moves(r)
<1>1. Active(r) => todo[r] = <<>> \/ Gets(todo[r]) \in Nat
  BY NextCall
<1>3. CASE Leave(r)
  BY <1>3
  DEF PoolInv, PoolTypeOK, Leave, Moves, Frugal, Active, Leased, Busy, Stages, PoolAnswers,
      Peak
<1>4. CASE CloseRows(r)
  BY <1>1, GetsOfNothing, <1>4
  DEF PoolInv, PoolTypeOK, CloseRows, Moves, Frugal, Active, Leased, Busy, Stages, PoolAnswers,
      Peak
<1> QED
  BY <1>3, <1>4

\* Every step of a request moves it so.
LEMMA StepMoves ==
  ASSUME PoolInv, NEW r \in Requests, Accept(r) \/ Step(r) \/ Leave(r) \/ CloseRows(r)
  PROVE  Moves(r)
<1>1. /\ stage[r] \in {"preparing", "prepared", "running"} => todo[r] # <<>>
      /\ stage[r] = "running" /\ Call(r) \in {"get", "list"} => held[r] < Peak
  BY NextCall DEF PoolInv, PoolTypeOK, Frugal, Active, Peak
<1>2. CASE Respond(r)
  BY <1>2, ReturnMoves, AdvanceMoves DEF Respond, PoolAnswers, Active
<1>3. CASE Prepare(r)
  BY <1>3, GoesMoves DEF Prepare, Wants
<1>4. CASE Prepared(r)
  BY <1>1, <1>4, GoesMoves, ReturnMoves DEF Prepared, PoolAnswers
<1>5. CASE Query(r)
  BY <1>1, <1>5, GoesMoves DEF Query
<1>6. CASE Starve(r) \/ GiveUp(r)
  BY <1>6, ReturnMoves DEF Starve, GiveUp, PoolAnswers
<1>7. CASE OneRow(r) \/ LoginRow(r) \/ Ends(r)
  BY <1>1, <1>7, AdvanceMoves DEF OneRow, LoginRow, Ends, Active
<1>8. CASE Fails(r) \/ ScanFails(r) \/ LoginScanFails(r)
  BY <1>1, <1>8, ReturnMoves DEF Fails, ScanFails, LoginScanFails, PoolAnswers
<1> QED
  BY <1>2, <1>3, <1>4, <1>5, <1>6, <1>7, <1>8, AcceptMoves, RowsMove DEF Step

---------------------------------------------------------------------------
(* The connections that are in use *)

Leases == [q \in Requests |-> Leased(q)]

LEMMA LeasedIs ==
  ASSUME PoolInv
  PROVE  /\ \A q \in Requests : Leased(q) \in 0..Peak
         /\ SumFunctionOnSet(Leases, Requests) \in Nat
         /\ InUse = SumFunctionOnSet(Leases, Requests) + kept
         /\ kept \in 0..Limit /\ Limit \in Nat
<1>1. ASSUME NEW q \in Requests PROVE Leased(q) \in 0..Peak
  <2>1. Active(q) => todo[q] = <<>> \/ Gets(todo[q]) \in Nat
    BY NextCall
  <2> QED
    BY <2>1, GetsOfNothing
    DEF PoolInv, PoolTypeOK, Frugal, Active, Leased, Busy, Peak
<1>2. SumFunctionOnSet(Leases, Requests) \in Nat
  <2>1. \A q \in Requests : Leases[q] \in 0..5
    BY <1>1 DEF Leases, Peak
  <2> QED
    BY <2>1, SumIsBounded, ConnPoolAssumption
<1>3. InUse = SumFunctionOnSet(Leases, Requests) + kept
  BY DEF InUse, SumFunction, Leases
<1> QED
  BY <1>1, <1>2, <1>3, ConnPoolAssumption DEF PoolInv, PoolTypeOK

\* A move of one request is a step of the leases, or none, and keeps the
\* invariant: what is in use changes as the lease of that request does.
LEMMA MovesLease ==
  ASSUME PoolInv, NEW r \in Requests, Moves(r)
  PROVE  /\ PoolInv'
         /\ Abstract!Next \/ (Leases' = Leases /\ kept' = kept)
<1> DEFINE sum == SumFunctionOnSet(Leases, Requests)
<1>1. /\ \A q \in Requests : Leased(q) \in 0..Peak /\ Leases[q] = Leased(q)
      /\ sum \in Nat /\ InUse = sum + kept /\ kept \in 0..Limit /\ Limit \in Nat
  BY LeasedIs DEF Leases
<1>2. /\ \A q \in Requests : Leased(q)' \in 0..6 /\ Leases'[q] = Leased(q)'
      /\ \A q \in Requests \ {r} : Leased(q)' = Leased(q)
  BY DEF Moves, Leased, Busy, Peak, Leases
<1>3. sum' \in Nat
  BY <1>2, SumIsBounded, ConnPoolAssumption
<1>4. sum' = sum - Leased(r) + Leased(r)'
  <2>1. \A q \in Requests : Leases[q] \in Int
    BY <1>1
  <2>2. Leases'[r] \in Int /\ \A q \in Requests \ {r} : Leases'[q] = Leases[q]
    BY <1>1, <1>2
  <2>3. sum' = sum - Leases[r] + Leases'[r]
    BY <2>1, <2>2, SumOfChanged, ConnPoolAssumption
  <2> QED
    BY <1>1, <1>2, <2>3
<1>5. InUse' = sum' + kept'
  BY DEF InUse, SumFunction, Leases
<1>6. InUse' <= Limit /\ kept' \in 0..Limit
  <2>1. InUse <= Limit
    BY DEF PoolInv
  <2> HIDE DEF sum
  <2> QED
    BY <1>1, <1>2, <1>3, <1>4, <1>5, <2>1 DEF Moves
<1>7. PoolInv'
  BY <1>6 DEF Moves, PoolInv, PoolTypeOK, Stages, PoolAnswers
<1>8. CASE Leased(r)' = Leased(r) /\ kept' = kept
  <2>1. Leases' = Leases
    BY <1>2, <1>8 DEF Leases
  <2> QED
    BY <1>7, <1>8, <2>1
<1>9. CASE Leased(r)' = Leased(r) - 1
  <2>1. Leases' = [Leases EXCEPT ![r] = @ - 1] /\ Leases[r] > 0
    BY <1>1, <1>2, <1>9 DEF Leases
  <2>2. kept' = kept \/ kept' = kept + 1
    BY DEF Moves
  <2>3. Abstract!Return(r) \/ Abstract!Lose(r)
    BY <2>1, <2>2 DEF Abstract!Return, Abstract!Lose, Leases
  <2> QED
    BY <1>7, <2>3 DEF Abstract!Next
<1>10. CASE kept' = kept /\ Leased(r)' = Leased(r) + 1 /\ InUse < Limit /\ Leased(r) < Peak
  <2>1. Leases' = [Leases EXCEPT ![r] = @ + 1] /\ Leases[r] < Peak
    BY <1>1, <1>2, <1>10 DEF Leases
  <2>2. Abstract!Out = InUse
    BY DEF Abstract!Out, Abstract!SumFunction, Abstract!SumFunctionOnSet,
       Abstract!FoldFunctionOnSet, Abstract!MapThenFoldSet,
       InUse, SumFunction, SumFunctionOnSet, FoldFunctionOnSet, MapThenFoldSet
  <2>3. Abstract!Borrow(r)
    BY <1>10, <2>1, <2>2 DEF Abstract!Borrow, Leases
  <2> QED
    BY <1>7, <2>3 DEF Abstract!Next
<1> QED
  BY <1>8, <1>9, <1>10 DEF Moves

LEMMA WaitTimeoutRecovers ==
  ASSUME PoolInv, WaitTimeout
  PROVE  PoolInv' /\ Abstract!Next
<1>1. Leases' = Leases /\ \A q \in Requests : Leased(q)' = Leased(q) /\ Frugal(q)' = Frugal(q)
  BY DEF WaitTimeout, Leases, Leased, Busy, Frugal, Active
<1>2. InUse' = InUse - 1 /\ InUse \in Int
  <2>1. InUse' = SumFunctionOnSet(Leases', Requests) + kept'
    BY DEF InUse, SumFunction, Leases
  <2> QED
    BY <1>1, <2>1, LeasedIs DEF WaitTimeout
<1>3. PoolInv'
  BY <1>1, <1>2, ConnPoolAssumption DEF PoolInv, PoolTypeOK, WaitTimeout
<1>4. Abstract!Recover
  BY <1>1 DEF Abstract!Recover, WaitTimeout, Leases
<1> QED
  BY <1>3, <1>4 DEF Abstract!Next

Empty ==
  /\ todo = [r \in Requests |-> <<>>] /\ stage = [r \in Requests |-> "idle"]
  /\ held = [r \in Requests |-> 0] /\ kept = 0
  /\ gone = [r \in Requests |-> FALSE] /\ answer \in [Requests -> PoolAnswers]

\* An empty pool satisfies the invariant: at the start, and after the end of the
\* process.
LEMMA EmptyPool == Empty => PoolInv
<1> SUFFICES ASSUME Empty PROVE PoolInv
  OBVIOUS
<1> USE DEF Empty
<1>1. \A q \in Requests : Leases[q] \in 0..0
  BY DEF Leases, Leased, Busy
<1>2. SumFunctionOnSet(Leases, Requests) <= 0 * Cardinality({q \in Requests : Leases[q] > 0})
      /\ SumFunctionOnSet(Leases, Requests) \in Nat
  BY <1>1, SumIsBounded, ConnPoolAssumption
<1>3. Cardinality({q \in Requests : Leases[q] > 0}) = 0
  <2>1. {q \in Requests : Leases[q] > 0} = {}
    BY <1>1
  <2> QED
    BY <2>1, FS_EmptySet
<1>4. InUse = 0
  BY <1>2, <1>3 DEF InUse, SumFunction, Leases
<1> QED
  BY <1>4, NothingIsSuffix, ConnPoolAssumption
  DEF PoolInv, PoolTypeOK, Frugal, Active, PoolAnswers, Peak

LEMMA InitPoolInv == PoolInit => PoolInv /\ Abstract!Init
<1> SUFFICES ASSUME PoolInit PROVE PoolInv /\ Abstract!Init
  OBVIOUS
<1>1. PoolInv
  BY EmptyPool DEF PoolInit, Empty, PoolAnswers
<1>2. Abstract!Init
  BY DEF PoolInit, Abstract!Init, Leased, Busy
<1> QED
  BY <1>1, <1>2

LEMMA StepPool ==
  PoolInv /\ [PoolNext]_pool =>
    PoolInv' /\ (Abstract!Next \/ (Leases' = Leases /\ kept' = kept))
<1>1. PoolInv /\ UNCHANGED pool => PoolInv' /\ Leases' = Leases /\ kept' = kept
  BY DEF pool, PoolInv, PoolTypeOK, InUse, Frugal, Active, Leased, Busy, Leases
<1> QED
  BY <1>1, StepMoves, MovesLease, WaitTimeoutRecovers DEF PoolNext

\* What is taken out never passes the limit of MySQL, and no handler runs out of
\* what it may take (jobs.go:241): the inductive invariant of the pool.
THEOREM PoolInvariance == PoolSpec => []PoolInv
  BY InitPoolInv, StepPool, PTL DEF PoolSpec

\* The variables of the pool keep their types.
THEOREM PoolTypeCorrect == PoolSpec => []PoolTypeOK
<1>1. PoolInv => PoolTypeOK
  BY DEF PoolInv
<1> QED
  BY <1>1, PoolInvariance, PTL

\* The pool implements the leases, step by step: a request takes one connection
\* at a time, below the limit, and gives back what it took; only the rows of a
\* login are lost (auth.go:33). That every debt is settled is left to TLC.
THEOREM PoolLeases == PoolSpec => Abstract!Safety
<1>1. PoolInv /\ [PoolNext]_pool => [Abstract!Next]_<<Leases, kept>>
  BY StepPool
<1>2. [Abstract!Next]_<<Leases, kept>> <=>
        [Abstract!Next]_<<[r \in Requests |-> Leased(r)], kept>>
  BY DEF Leases
<1> QED
  BY <1>1, <1>2, InitPoolInv, PoolInvariance, PTL DEF PoolSpec, Abstract!Safety

\* Nothing but Starve starves a request.
LEMMA OnlyStarveStarves ==
  ASSUME PoolInv, NEW r \in Requests, NEW q \in Requests,
         Accept(r) \/ Step(r) \/ Leave(r) \/ CloseRows(r),
         answer[q] = "none", answer'[q] = "starved"
  PROVE  r = q /\ Starve(q)
<1>1. answer \in [Requests -> PoolAnswers]
  BY DEF PoolInv, PoolTypeOK, PoolAnswers
<1> QED
  BY <1>1 DEF Accept, Step, Leave, CloseRows, Respond, Prepare, Prepared, Query, Starve,
     GiveUp, OneRow, LoginRow, Ends, Fails, ScanFails, LoginScanFails, Return, Advance, Goes

\* All that is in use, less than Peak by the request itself and no more than
\* Peak by any other one.
LEMMA StarvedIsCrowded ==
  ASSUME PoolInv, NEW r \in Requests, Starve(r)
  PROVE  Limit < Peak * Cardinality({q \in Requests : Leased(q) > 0 \/ q = r}) + kept
<1> DEFINE R == Requests \ {r}
           B == {q \in R : Leases[q] > 0}
           C == {q \in Requests : Leased(q) > 0 \/ q = r}
<1>1. /\ \A q \in Requests : Leased(q) \in 0..Peak /\ Leases[q] = Leased(q)
      /\ InUse = SumFunctionOnSet(Leases, Requests) + kept
      /\ kept \in 0..Limit /\ Limit \in Nat
  BY LeasedIs DEF Leases
<1>2. Leased(r) < Peak /\ InUse >= Limit
  <2>1. todo[r] = <<>> \/ Gets(todo[r]) \in Nat
    BY NextCall
  <2> QED
    BY <2>1, GetsOfNothing
    DEF PoolInv, PoolTypeOK, Frugal, Active, Leased, Busy, Peak, Starve, Wants
<1>3. IsFiniteSet(R) /\ IsFiniteSet(B)
  <2>1. R \subseteq Requests /\ B \subseteq Requests
    OBVIOUS
  <2> HIDE DEF R, B
  <2> QED
    BY <2>1, FS_Subset, ConnPoolAssumption
<1>4. SumFunctionOnSet(Leases, Requests) = Leases[r] + SumFunctionOnSet(Leases, R)
  BY <1>1, SumWithout, ConnPoolAssumption DEF Peak
<1>5. /\ SumFunctionOnSet(Leases, R) \in Nat
      /\ SumFunctionOnSet(Leases, R) <= 5 * Cardinality(B)
  <2>1. \A q \in R : Leases[q] \in 0..5
    BY <1>1 DEF Peak
  <2> HIDE DEF R
  <2> QED
    BY <1>3, <2>1, SumIsBounded
<1>6. Cardinality(C) = Cardinality(B) + 1 /\ Cardinality(B) \in Nat
  <2>1. C = B \cup {r} /\ r \notin B
    BY <1>1
  <2> HIDE DEF B, C
  <2> QED
    BY <1>3, <2>1, FS_AddElement, FS_CardinalityType
<1> HIDE DEF B, C, R
<1>7. Limit < 5 * Cardinality(C) + kept
  BY <1>1, <1>2, <1>4, <1>5, <1>6 DEF Peak
<1> QED
  BY <1>7 DEF C, Peak

\* A request that finds no connection is not starved by itself (jobs.go:241): the
\* limit is less than what the requests that hold any may have, Peak each, and
\* the rows of logins.
THEOREM Starvation == PoolSpec => StarvedOnlyWhenCrowded
<1> DEFINE Crowded == \A r \in Requests : answer[r] = "none" /\ answer'[r] = "starved" =>
              Limit < Peak * Cardinality({q \in Requests : Leased(q) > 0 \/ q = r}) + kept
<1>1. PoolInv /\ [PoolNext]_pool => [Crowded]_pool
  <2> SUFFICES ASSUME PoolInv, PoolNext, NEW r \in Requests,
                      answer[r] = "none", answer'[r] = "starved"
               PROVE  Starve(r)
    BY StarvedIsCrowded
  <2> QED
    BY OnlyStarveStarves DEF PoolNext, WaitTimeout
<1> QED
  BY <1>1, PoolInvariance, PTL DEF PoolSpec, StarvedOnlyWhenCrowded

---------------------------------------------------------------------------
(* A handler comes to its end *)

\* The steps that are left to the handler of r, at the most: four to a call, and
\* one to answer.
StepsLeft(r) ==
  CASE stage[r] = "idle" -> 0
    [] stage[r] = "handling" -> 4 * Len(todo[r]) + 1
    [] stage[r] = "preparing" -> 4 * Len(todo[r])
    [] stage[r] = "prepared" -> 4 * Len(todo[r]) - 1
    [] stage[r] = "running" -> 4 * Len(todo[r]) - 2

\* Only its own steps take a handler on, and each takes it nearer to its end.
Nearer(r) ==
  Active(r) =>
    IF Step(r) THEN StepsLeft(r)' < StepsLeft(r) ELSE StepsLeft(r)' = StepsLeft(r)

FewStepsLeft == \A r \in Requests : StepsLeft(r) \in 0..29

LEMMA LengthLeft ==
  ASSUME PoolInv, NEW r \in Requests
  PROVE  /\ Len(todo[r]) \in 0..7 /\ todo[r] \in Seq(Calls) /\ stage[r] \in Stages
         /\ todo[r] # <<>> => Len(todo[r]) > 0 /\ Len(Tail(todo[r])) = Len(todo[r]) - 1
<1>1. todo[r] \in Suffixes /\ stage[r] \in Stages
  BY DEF PoolInv, PoolTypeOK, Stages
<1>2. PICK s \in Scripts, i \in 1..8 : todo[r] = SubSeq(s, i, Len(s))
  BY <1>1 DEF Suffixes
<1>3. s \in Seq(Calls) /\ Len(s) \in 1..7 /\ i \in 1..8
  BY <1>2, ScriptsAreShort DEF Short
<1>4. \A j \in i..Len(s) : s[j] \in Calls
  BY <1>3
<1>5. todo[r] \in Seq(Calls) /\ Len(todo[r]) \in 0..7
  <2>1. /\ todo[r] \in Seq(Calls)
        /\ Len(todo[r]) = IF i <= Len(s) THEN Len(s) - i + 1 ELSE 0
    BY <1>2, <1>3, <1>4, SubSeqProperties
  <2> DEFINE n == Len(todo[r])
             m == Len(s)
  <2>2. n = IF i <= m THEN m - i + 1 ELSE 0
    BY <2>1
  <2>3. m \in 1..7 /\ i \in 1..8
    BY <1>3
  <2>4. n \in 0..7
    <3> HIDE DEF n, m
    <3> QED
      BY <2>2, <2>3
  <2> QED
    BY <2>1, <2>4
<1>6. ASSUME todo[r] # <<>> PROVE Len(todo[r]) > 0 /\ Len(Tail(todo[r])) = Len(todo[r]) - 1
  BY <1>5, <1>6, HeadTailProperties
<1> QED
  BY <1>1, <1>5, <1>6

\* After any step of its own, a handler is over, or done with a call, or at the
\* next stage of the call.
LEMMA StepIsNearer ==
  ASSUME PoolInv, NEW r \in Requests, Active(r), Step(r)
  PROVE  StepsLeft(r)' < StepsLeft(r)
<1> USE LengthLeft DEF Active, StepsLeft, Stages
<1>1. /\ todo \in [Requests -> Suffixes] /\ stage \in [Requests -> Stages]
      /\ stage[r] \in {"preparing", "prepared", "running"} => todo[r] # <<>>
  BY DEF PoolInv, PoolTypeOK, Frugal
<1>2. ASSUME NEW a, Return(r, a) PROVE StepsLeft(r)' < StepsLeft(r)
  BY <1>1, <1>2 DEF Return
<1>3. ASSUME Advance(r), stage[r] \in {"handling", "running"}, todo[r] # <<>>
      PROVE  StepsLeft(r)' < StepsLeft(r)
  BY <1>1, <1>3 DEF Advance
<1>4. ASSUME NEW to, Goes(r, to), todo[r] # <<>>,
             \/ stage[r] = "handling" /\ to \in {"preparing", "running"}
             \/ stage[r] = "preparing" /\ to = "prepared"
             \/ stage[r] = "prepared" /\ to = "running"
      PROVE  StepsLeft(r)' < StepsLeft(r)
  BY <1>1, <1>4 DEF Goes
<1> HIDE DEF StepsLeft
<1> QED
  BY <1>1, <1>2, <1>3, <1>4 DEF Step, Respond, Prepare, Prepared, Query, Starve, GiveUp, Wants,
     OneRow, LoginRow, Ends, Fails, ScanFails, LoginScanFails

LEMMA OthersStay ==
  ASSUME PoolInv, NEW r \in Requests, NEW q \in Requests, Active(q),
         \/ r # q /\ (Accept(r) \/ Step(r))
         \/ Accept(r) \/ Leave(r) \/ CloseRows(r) \/ WaitTimeout
  PROVE  StepsLeft(q)' = StepsLeft(q)
<1>1. todo \in [Requests -> Suffixes] /\ stage \in [Requests -> Stages]
  BY DEF PoolInv, PoolTypeOK, Stages
<1>2. stage'[q] = stage[q] /\ todo'[q] = todo[q]
  BY <1>1 DEF Active, Accept, Step, Leave, CloseRows, WaitTimeout, Respond, Prepare, Prepared,
     Query, Starve, GiveUp, OneRow, LoginRow, Ends, Fails, ScanFails, LoginScanFails, Return,
     Advance, Goes
<1> QED
  BY <1>2 DEF StepsLeft

LEMMA StepsAreFew == PoolInv => FewStepsLeft
<1> SUFFICES ASSUME PoolInv, NEW r \in Requests PROVE StepsLeft(r) \in 0..29
  BY DEF FewStepsLeft
<1>1. stage[r] \in {"preparing", "prepared", "running"} => todo[r] # <<>>
  BY DEF PoolInv, Frugal
<1> DEFINE n == Len(todo[r])
<1>2. n \in 0..7 /\ stage[r] \in Stages /\ (todo[r] # <<>> => n > 0)
  BY LengthLeft
<1>3. CASE stage[r] = "idle"
  BY <1>3 DEF StepsLeft
<1>4. CASE stage[r] = "handling"
  <2>1. StepsLeft(r) = 4 * n + 1
    BY <1>4 DEF StepsLeft
  <2> HIDE DEF n
  <2> QED
    BY <1>2, <2>1
<1>5. CASE stage[r] \in {"preparing", "prepared", "running"}
  <2>1. \E k \in {0, 1, 2} : StepsLeft(r) = 4 * n - k
    BY <1>5 DEF StepsLeft
  <2> HIDE DEF n
  <2> QED
    BY <1>1, <1>2, <1>5, <2>1
<1> QED
  BY <1>2, <1>3, <1>4, <1>5 DEF Stages

\* The safety half of Answered: a handler makes 29 steps at the most, and nothing
\* that others, the browser or the database do takes it back.
THEOREM HandlersEnd == PoolSpec => []FewStepsLeft /\ [][\A r \in Requests : Nearer(r)]_pool
<1>1. ASSUME PoolInv, PoolNext, NEW r \in Requests
      PROVE  Nearer(r)
  BY <1>1, StepIsNearer, OthersStay DEF PoolNext, Nearer
<1>2. PoolInv /\ [PoolNext]_pool => [\A r \in Requests : Nearer(r)]_pool
  BY <1>1
<1> QED
  BY <1>2, StepsAreFew, PoolInvariance, PTL DEF PoolSpec

---------------------------------------------------------------------------
(* What may cut a request *)

\* Only the end of its context brings the server to Exit.
SInv ==
  /\ answer \in [Requests -> PoolAnswers]
  /\ process = "closed" => Done

\* Nothing that a request or the database does cuts an answer.
Gives ==
  /\ answer' \in [Requests -> PoolAnswers]
  /\ \A q \in Requests : answer'[q] = "cut" => answer[q] = "cut"

LEMMA ReturnGives ==
  ASSUME SInv, NEW r \in Requests, NEW a \in PoolAnswers \ {"cut"}, Return(r, a)
  PROVE  Gives
  BY DEF SInv, Return, Gives, PoolAnswers

LEMMA StaysGives ==
  ASSUME SInv, UNCHANGED answer
  PROVE  Gives
  BY DEF SInv, Gives

LEMMA PoolGives ==
  ASSUME SInv, NEW r \in Requests, Accept(r) \/ Step(r) \/ Leave(r) \/ CloseRows(r)
  PROVE  Gives
<1>1. CASE Accept(r)
  BY <1>1 DEF Accept, SInv, Gives, PoolAnswers
<1>2. CASE Leave(r) \/ CloseRows(r)
  BY <1>2, StaysGives DEF Leave, CloseRows
<1>3. CASE Respond(r)
  BY <1>3, ReturnGives, StaysGives DEF Respond, Advance, PoolAnswers
<1>4. CASE Prepare(r) \/ Query(r)
  BY <1>4, StaysGives DEF Prepare, Query, Goes
<1>5. CASE Prepared(r)
  BY <1>5, ReturnGives, StaysGives DEF Prepared, Goes, PoolAnswers
<1>6. CASE Starve(r) \/ GiveUp(r)
  BY <1>6, ReturnGives DEF Starve, GiveUp, PoolAnswers
<1>7. CASE OneRow(r) \/ LoginRow(r) \/ Ends(r)
  BY <1>7, StaysGives DEF OneRow, LoginRow, Ends, Advance
<1>8. CASE Fails(r) \/ ScanFails(r) \/ LoginScanFails(r)
  BY <1>8, ReturnGives DEF Fails, ScanFails, LoginScanFails, PoolAnswers
<1> QED
  BY <1>1, <1>2, <1>3, <1>4, <1>5, <1>6, <1>7, <1>8 DEF Step

\* Every step keeps the invariant, and cuts requests only if the context is done.
LEMMA StepSInv ==
  ASSUME SInv, [Next]_vars
  PROVE  /\ SInv'
         /\ \A r \in Requests : answer[r] # "cut" /\ answer'[r] = "cut" => Done
<1>1. CASE UNCHANGED vars
  BY <1>1 DEF vars, pool, life, SInv, Done
<1>2. ASSUME NEW r \in Requests, Accept(r) \/ Step(r) \/ Leave(r) \/ CloseRows(r), UNCHANGED life
      PROVE  SInv' /\ Gives
  BY <1>2, PoolGives DEF SInv, Gives, life, Done
<1>3. CASE Run /\ WaitTimeout
  BY <1>3 DEF Run, WaitTimeout, life, SInv, Done
<1>4. CASE OpenDB \/ Listen \/ ListenerFails
  BY <1>4 DEF OpenDB, Listen, ListenerFails, Becomes, pool, SInv, Done
<1>5. CASE ContextEnds
  BY <1>5 DEF ContextEnds, pool, SInv, Done
<1>6. CASE Shutdown
  BY <1>6 DEF Shutdown, pool, SInv, Done
<1>7. CASE Exit
  BY <1>7 DEF Exit, Die, SInv, PoolAnswers
<1> QED
  BY <1>1, <1>2, <1>3, <1>4, <1>5, <1>6, <1>7 DEF Next, Serves, Run, Gives

LEMMA InitSInv ==
  ASSUME Init
  PROVE  SInv
  BY DEF Init, PoolInit, SInv, PoolAnswers

\* The server never closes before its context is done.
THEOREM Invariance == Spec => []SInv
<1> QED
  BY InitSInv, StepSInv, PTL DEF Spec

\* No request is cut by a listener that fails (server.go:148), and under Start,
\* whose context does not end (server.go:47), none is cut at all.
THEOREM Cuts == Spec => CutOnlyWhenDone
<1>1. SInv /\ [Next]_vars =>
        [\A r \in Requests : answer[r] # "cut" /\ answer'[r] = "cut" => Done]_vars
  BY StepSInv
<1> QED
  BY <1>1, Invariance, PTL DEF Spec, CutOnlyWhenDone

---------------------------------------------------------------------------
(* The pool of a server that starts, serves and ends *)

LEMMA EmptyPoolNext == Empty' => PoolInv'
  BY EmptyPool, PTL

\* The types of the server and the invariant of its pool: the pool moves while
\* the server runs, and is empty when the process has ended.
TInv == TypeOK /\ PoolInv

LEMMA InitTInv == Init => TInv
<1>1. Init => PoolInv
  BY InitPoolInv DEF Init
<1> QED
  BY <1>1 DEF Init, TInv, TypeOK, PoolInv

LEMMA StepTInv == TInv /\ [Next]_vars => TInv'
<1> SUFFICES ASSUME TInv, [Next]_vars PROVE TInv'
  OBVIOUS
<1>1. PoolInv'
  <2>1. CASE UNCHANGED pool
    BY <2>1, StepPool DEF TInv
  <2>2. ASSUME NEW r \in Requests, Accept(r) \/ Step(r) \/ Leave(r) \/ CloseRows(r)
        PROVE  PoolInv'
    BY <2>2, StepPool DEF TInv, PoolNext
  <2>3. CASE WaitTimeout
    BY <2>3, StepPool DEF TInv, PoolNext
  <2>4. CASE Die
    <3>1. answer \in [Requests -> PoolAnswers]
      BY DEF TInv, TypeOK, PoolTypeOK, PoolAnswers
    <3>2. Empty'
      BY <2>4, <3>1 DEF Die, Empty, PoolAnswers
    <3> QED
      BY <3>2, EmptyPoolNext
  <2> QED
    BY <2>1, <2>2, <2>3, <2>4 DEF Next, vars, OpenDB, Listen, ListenerFails, Becomes,
       ContextEnds, Shutdown, Exit
<1>2. /\ process' \in {"opening", "listening", "serving", "deaf", "closed", "exited"}
      /\ ctx' \in {"background", "live", "canceled", "expired"}
      /\ failed' \in BOOLEAN
      /\ status' \in {"none", "0", "1"}
  BY DEF TInv, TypeOK, Next, vars, life, Serves, Run, OpenDB, Listen, ListenerFails, Becomes,
     ContextEnds, Shutdown, Exit
<1> QED
  BY <1>1, <1>2 DEF TInv, TypeOK, PoolInv

\* The server keeps its types, and its pool the limit of MySQL, through a
\* listener that fails, a shutdown with requests in flight and the end of the
\* process (server.go:131-153).
THEOREM ServerInvariance == Spec => []TInv
  BY InitTInv, StepTInv, PTL DEF Spec

THEOREM ServerTypeCorrect == Spec => []TypeOK
<1>1. TInv => TypeOK
  BY DEF TInv
<1> QED
  BY <1>1, ServerInvariance, PTL

\* What Starvation says of the pool holds of the server that runs it: the end of
\* the process cuts requests, and starves none.
THEOREM ServerStarvation == Spec => StarvedOnlyWhenCrowded
<1> DEFINE Crowded(r) == answer[r] = "none" /\ answer'[r] = "starved" =>
             Limit < Peak * Cardinality({q \in Requests : Leased(q) > 0 \/ q = r}) + kept
<1>1. ASSUME TInv, Next, ~UNCHANGED pool, NEW r \in Requests
      PROVE  Crowded(r)
  <2>1. CASE Die
    BY <2>1 DEF Die
  <2>2. CASE WaitTimeout
    BY <2>2 DEF WaitTimeout
  <2>3. ASSUME NEW q \in Requests, Accept(q) \/ Step(q) \/ Leave(q) \/ CloseRows(q)
        PROVE  Crowded(r)
    <3>1. answer[r] = "none" /\ answer'[r] = "starved" => Starve(r)
      BY <1>1, <2>3, OnlyStarveStarves DEF TInv
    <3>2. PoolInv
      BY <1>1 DEF TInv
    <3> QED
      BY <3>1, <3>2, StarvedIsCrowded
  <2> HIDE DEF Crowded
  <2> QED
    BY <1>1, <2>1, <2>2, <2>3 DEF Next, vars, OpenDB, Listen, ListenerFails, Becomes,
       ContextEnds, Shutdown, Exit
<1>2. TInv /\ [Next]_vars => [\A r \in Requests : Crowded(r)]_pool
  <2>1. UNCHANGED vars => UNCHANGED pool
    BY DEF vars
  <2> HIDE DEF Crowded
  <2> QED
    BY <1>1, <2>1
<1> QED
  BY <1>2, ServerInvariance, PTL DEF Spec, StarvedOnlyWhenCrowded

\* What HandlersEnd says of the pool holds in a server: a handler makes 29 steps at
\* the most, unless the end of the process cuts it.
THEOREM ServerHandlersEnd ==
  Spec => /\ []FewStepsLeft
          /\ [][\A r \in Requests : Nearer(r) \/ answer'[r] = "cut"]_pool
<1>1. ASSUME TInv, Next, ~UNCHANGED pool, NEW r \in Requests
      PROVE  Nearer(r) \/ answer'[r] = "cut"
  <2>1. CASE Die
    BY <2>1 DEF Die, Nearer
  <2>2. CASE PoolNext
    BY <1>1, <2>2, StepIsNearer, OthersStay DEF PoolNext, Nearer, TInv
  <2>3. Die \/ PoolNext
    BY <1>1 DEF Next, vars, PoolNext, OpenDB, Listen, ListenerFails, Becomes, ContextEnds,
       Shutdown, Exit
  <2> QED
    BY <2>1, <2>2, <2>3
<1>2. TInv /\ [Next]_vars => [\A r \in Requests : Nearer(r) \/ answer'[r] = "cut"]_pool
  <2>1. UNCHANGED vars => UNCHANGED pool
    BY DEF vars
  <2> QED
    BY <1>1, <2>1
<1>3. TInv => FewStepsLeft
  BY StepsAreFew DEF TInv
<1> QED
  BY <1>2, <1>3, ServerInvariance, PTL DEF Spec
=============================================================================
