-------------------------- MODULE ServerRequestProofs --------------------------
(***************************************************************************)
(* Proofs about ServerRequest for queries of any length with any values.   *)
(*                                                                         *)
(* The argument: while no pair was refused, the parameters are those which *)
(* the pairs read so far ask for, and none of these pairs is malformed.    *)
(***************************************************************************)
EXTENDS ServerRequest, TLAPS

\* A count or baton that the visitor cannot take.
Bad(i) ==
    /\ query[i].key \in {"count", "baton"}
    /\ query[i].value \notin 0..255

\* The loop's parameters are those of the pairs 1..read.
AsRead ==
    /\ LastOf("count", read, count) \/ (Absent("count", read) /\ count = 1)
    /\ LastOf("baton", read, initial_value) \/ Absent("baton", read)
    /\ \A i \in 1..read : ~Bad(i)

RequestInvariant ==
    /\ TypeOK
    /\ path = "/webtransport/devious-baton" =>
          /\ answer \in {"none", "InvalidArgument", "devious-baton"}
          /\ answer # "InvalidArgument" => AsRead
          /\ answer = "InvalidArgument" => Malformed
    /\ answer = "devious-baton" =>
          /\ path = "/webtransport/devious-baton"
          /\ read = Len(query)

-----------------------------------------------------------------------------

\* Narrowing to 8 bits: always a byte, and nothing is changed in one.
LEMMA Narrowing ==
    /\ \A n \in Int : DeviousBatonValue(n) \in 0..255
    /\ \A n \in 0..255 : DeviousBatonValue(n) = n
BY SMT DEF DeviousBatonValue

\* The check before the assignments is the range of a byte.
LEMMA Range8 ==
    \A value \in Value : OutOfRange(value) <=> value \notin 0..255
BY ServerRequestAssumption DEF Value, OutOfRange

LEMMA InitEstablishes == Init => RequestInvariant
<1> SUFFICES ASSUME Init PROVE RequestInvariant
    OBVIOUS
<1>1. query \in Seq(Param) /\ 0 \in 0..Len(query)
    <2>1. PICK n \in 0..MaxQuery : query \in [1..n -> Param]
        BY DEF Init
    <2>2. n \in Nat
        BY <2>1, ServerRequestAssumption
    <2>3. query \in Seq(Param)
        BY <2>1, <2>2
    <2>4. QED BY <2>3
<1>2. initial_value \in 0..255
    <2>1. PICK random \in Draw : initial_value = DeviousBatonValue(random)
        BY DEF Init
    <2>2. random \in Int
        BY <2>1, ServerRequestAssumption
    <2>3. QED BY <2>1, <2>2, Narrowing
<1>3. TypeOK
    BY <1>1, <1>2 DEF Init, TypeOK, Answers
<1>4. AsRead
    BY DEF Init, AsRead, Absent, LastOf
<1>5. QED BY <1>3, <1>4 DEF Init, RequestInvariant

\* What one pair adds to the pairs read before it.
LEMMA OneMore ==
    ASSUME NEW n \in Nat, NEW key, NEW used
    PROVE  /\ query[n+1].key = key => LastOf(key, n + 1, query[n+1].value)
           /\ query[n+1].key # key =>
                 /\ LastOf(key, n, used) => LastOf(key, n + 1, used)
                 /\ Absent(key, n) => Absent(key, n + 1)
<1>1. n + 1 \in 1..(n+1) /\ (n+1+1)..(n+1) = {}
    OBVIOUS
<1>2. ASSUME query[n+1].key = key
      PROVE  LastOf(key, n + 1, query[n+1].value)
    BY <1>1, <1>2 DEF LastOf
<1>3. ASSUME query[n+1].key # key, LastOf(key, n, used)
      PROVE  LastOf(key, n + 1, used)
    <2>1. PICK i \in 1..n : /\ query[i].key = key /\ query[i].value = used
                            /\ \A j \in (i+1)..n : query[j].key # key
        BY <1>3 DEF LastOf
    <2>2. i \in 1..(n+1) /\ \A j \in (i+1)..(n+1) : j \in (i+1)..n \/ j = n + 1
        OBVIOUS
    <2>3. QED BY <1>3, <2>1, <2>2 DEF LastOf
<1>4. ASSUME query[n+1].key # key, Absent(key, n)
      PROVE  Absent(key, n + 1)
    <2>1. \A j \in 1..(n+1) : j \in 1..n \/ j = n + 1
        OBVIOUS
    <2>2. QED BY <1>4, <2>1 DEF Absent
<1>5. QED BY <1>2, <1>3, <1>4

LEMMA ReadQueryPreserves ==
    ASSUME RequestInvariant, ReadQuery
    PROVE  RequestInvariant'
<1> DEFINE n == read  k == query[n+1].key  v == query[n+1].value
<1>1. /\ n \in Nat /\ n < Len(query) /\ n + 1 \in 1..Len(query)
      /\ query[n+1] \in Param /\ v \in Value
      /\ read' = n + 1 /\ query' = query /\ path' = path
      /\ path = "/webtransport/devious-baton" /\ answer = "none" /\ AsRead
    <2>1. /\ read \in 0..Len(query) /\ query \in Seq(Param) /\ read < Len(query)
          /\ path = "/webtransport/devious-baton" /\ answer = "none" /\ AsRead
        BY DEF RequestInvariant, TypeOK, ReadQuery
    <2>2. Len(query) \in Nat
        BY <2>1
    <2>3. n \in Nat /\ n < Len(query) /\ n + 1 \in 1..Len(query)
        BY <2>1, <2>2
    <2>4. query[n+1] \in Param
        BY <2>1, <2>3
    <2>5. v \in Value
        BY <2>4 DEF Param
    <2>6. read' = n + 1 /\ query' = query /\ path' = path
        BY DEF ReadQuery, ReadParam
    <2>7. QED BY <2>1, <2>3, <2>4, <2>5, <2>6
<1>2. ReadParam(k, v)
    BY DEF ReadQuery
<1>3. OutOfRange(v) <=> v \notin 0..255
    BY <1>1, Range8
<1>4. read' \in 0..Len(query')
    BY <1>1
<1>5. CASE OutOfRange(v) /\ k \in {"count", "baton"}
    <2>1. answer' = "InvalidArgument" /\ UNCHANGED <<count, initial_value>>
        BY <1>2, <1>5 DEF ReadParam
    <2>2. Malformed'
        BY <1>1, <1>3, <1>5 DEF Malformed
    <2>3. TypeOK'
        BY <1>1, <1>4, <2>1 DEF RequestInvariant, TypeOK, Answers
    <2>4. QED BY <1>1, <2>1, <2>2, <2>3 DEF RequestInvariant
<1>6. CASE ~(OutOfRange(v) /\ k \in {"count", "baton"})
    <2>1. /\ answer' = "none"
          /\ count' = IF k = "count" THEN v ELSE count
          /\ initial_value' = IF k = "baton" THEN v ELSE initial_value
        <3>1. CASE OutOfRange(v)
            BY <1>1, <1>2, <1>6, <3>1 DEF ReadParam
        <3>2. CASE ~OutOfRange(v)
            BY <1>1, <1>2, <1>3, <3>2, Narrowing DEF ReadParam
        <3>3. QED BY <3>1, <3>2
    <2>2. TypeOK'
        BY <1>1, <1>3, <1>4, <1>6, <2>1 DEF RequestInvariant, TypeOK, Answers
    <2>3. (LastOf("count", read, count) \/ (Absent("count", read) /\ count = 1))'
        <3>1. CASE k = "count"
            BY <1>1, <2>1, <3>1, OneMore DEF LastOf
        <3>2. CASE k # "count"
            <4>1. LastOf("count", n + 1, count) \/ (Absent("count", n + 1) /\ count = 1)
                BY <1>1, <3>2, OneMore DEF AsRead
            <4>2. QED BY <1>1, <2>1, <3>2, <4>1 DEF LastOf, Absent
        <3>3. QED BY <3>1, <3>2
    <2>4. (LastOf("baton", read, initial_value) \/ Absent("baton", read))'
        <3>1. CASE k = "baton"
            BY <1>1, <2>1, <3>1, OneMore DEF LastOf
        <3>2. CASE k # "baton"
            <4>1. LastOf("baton", n + 1, initial_value) \/ Absent("baton", n + 1)
                BY <1>1, <3>2, OneMore DEF AsRead
            <4>2. QED BY <1>1, <2>1, <3>2, <4>1 DEF LastOf, Absent
        <3>3. QED BY <3>1, <3>2
    <2>5. (\A i \in 1..read : ~Bad(i))'
        <3>1. ~Bad(n + 1)
            BY <1>3, <1>6 DEF Bad
        <3>2. \A i \in 1..(n+1) : i \in 1..n \/ i = n + 1
            BY <1>1
        <3>3. QED BY <1>1, <3>1, <3>2 DEF AsRead, Bad
    <2>6. QED BY <1>1, <2>1, <2>2, <2>3, <2>4, <2>5 DEF RequestInvariant, AsRead
<1>7. QED BY <1>5, <1>6

LEMMA NextPreserves == RequestInvariant /\ [Next]_vars => RequestInvariant'
<1> SUFFICES ASSUME RequestInvariant, [Next]_vars PROVE RequestInvariant'
    OBVIOUS
<1>1. CASE ChooseVisitor
    BY <1>1 DEF ChooseVisitor, RequestInvariant, TypeOK, Answers
<1>2. CASE ReadQuery
    BY <1>2, ReadQueryPreserves
<1>3. CASE MakeBatonVisitor
    <2>1. AsRead'
        BY <1>3 DEF MakeBatonVisitor, RequestInvariant, AsRead, LastOf, Absent, Bad
    <2>2. QED BY <1>3, <2>1 DEF MakeBatonVisitor, RequestInvariant, TypeOK, Answers
<1>4. CASE UNCHANGED vars
    BY <1>4 DEF vars, RequestInvariant, TypeOK, AsRead, LastOf, Absent, Bad, Malformed
<1>5. QED BY <1>1, <1>2, <1>3, <1>4 DEF Next

\* The parameters are at all times those of the pairs read so far.
THEOREM RequestInvariantHolds == Spec => []RequestInvariant
<1>1. QED BY InitEstablishes, NextPreserves, PTL DEF Spec

\* Count and baton stay bytes, and the loop stays in the query.
THEOREM TypeCorrect == Spec => []TypeOK
<1>1. RequestInvariant => TypeOK
    BY DEF RequestInvariant
<1>2. QED BY <1>1, RequestInvariantHolds, PTL

\* The visitor gets the last count and the last baton of any query.
THEOREM BatonIsAsAsked == Spec => []BatonAsAsked
<1>1. RequestInvariant => BatonAsAsked
    BY DEF RequestInvariant, AsRead, BatonAsAsked
<1>2. QED BY <1>1, RequestInvariantHolds, PTL

\* A request is refused if and only if some count or baton is malformed.
THEOREM RefusalIsDeserved == Spec => []RefusedIfMalformed
<1>1. RequestInvariant => RefusedIfMalformed
    BY DEF RequestInvariant, AsRead, Bad, Malformed, RefusedIfMalformed
<1>2. QED BY <1>1, RequestInvariantHolds, PTL

=============================================================================
