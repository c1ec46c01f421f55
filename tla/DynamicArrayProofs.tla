------------------------- MODULE DynamicArrayProofs -------------------------
(***************************************************************************)
(* dynamic_array_ref keeps what it promises, for every content, every call *)
(* and every size of the buffer.                                           *)
(***************************************************************************)
EXTENDS DynamicArray, SequenceTheorems, TLAPS

-----------------------------------------------------------------------------
(* What the loops do to the memory.                                        *)

\* Positions that the first n iterations of a copy have written.
IsMoved(mv, n, i) ==
    IF mv.backward THEN mv.to + mv.count - n < i /\ i <= mv.to + mv.count
                   ELSE mv.to < i /\ i <= mv.to + n

Moved(b, mv, n) ==
    [i \in 1 .. Room |->
        IF IsMoved(mv, n, i) THEN b[i - mv.to + mv.from] ELSE b[i]]

Written(b, pt, n) ==
    [i \in 1 .. Room |->
        IF pt.at < i /\ i <= pt.at + n THEN pt.values[i - pt.at] ELSE b[i]]

\* Where the ranges overlap a copy goes the way that reads an element before
\* it is overwritten.
RightWay(mv) ==
    /\ mv.from + mv.count <= Room /\ mv.to + mv.count <= Room
    /\ IF mv.backward THEN mv.from <= mv.to ELSE mv.to <= mv.from

-----------------------------------------------------------------------------
(* The inductive invariant.                                                *)

Old == Elements(old, oldLen)

\* Memory b with c elements after the first j values of w have been inserted at
\* offset f.
InsertedInto(b, c, f, w, j) ==
    [i \in 1 .. Room |->
        IF i <= f THEN b[i]
        ELSE IF i <= f + j THEN w[i - f]
        ELSE IF i <= c + j THEN b[i - j]
        ELSE b[i]]

Inserted(j) == InsertedInto(old, oldLen, call.first, call.values, j)

\* Before the loops of a call, or of one element of an input range.
Base == IF call.op = "insert_input" THEN Inserted(taken) ELSE old

\* What an operation has set the length to, which elements it moves, what it
\* writes, and the length it sets at the end.
Planned(n, mv, pt, fin) ==
    /\ Container!InArray(call, Old)
    /\ call.op = "resize" =>
           /\ n = call.first /\ mv = NoMove /\ fin = -1
           /\ pt = [at     |-> oldLen,
                    values |-> Container!Copies(call.first - oldLen, call.values[1])]
    /\ call.op = "resize_default" =>
           n = call.first /\ mv = NoMove /\ pt = NoPut /\ fin = -1
    /\ call.op = "push_back" =>
           /\ n = oldLen + 1 /\ mv = NoMove /\ fin = -1
           /\ pt = [at |-> oldLen, values |-> call.values]
    /\ call.op = "pop_back" =>
           n = oldLen - 1 /\ mv = NoMove /\ pt = NoPut /\ fin = -1
    /\ call.op \in {"erase", "erase_range"} =>
           LET last == IF call.op = "erase" THEN call.first + 1 ELSE call.last
           IN  /\ n = oldLen /\ pt = NoPut /\ fin = oldLen - (last - call.first)
               /\ mv = [from |-> last, to |-> call.first,
                        count |-> oldLen - last, backward |-> FALSE]
               /\ call.first <= last /\ last <= oldLen
    /\ call.op \in {"insert", "insert_input"} =>
           LET values == IF call.op = "insert" THEN call.values
                         ELSE <<call.values[taken + 1]>>
           IN  IF call.op = "insert_input" /\ taken = Len(call.values)
               THEN n = oldLen + taken /\ mv = NoMove /\ pt = NoPut /\ fin = -1
               ELSE /\ n = oldLen + taken + Len(values) /\ fin = -1
                    /\ mv = [from |-> call.first + taken,
                             to |-> call.first + taken + Len(values),
                             count |-> oldLen - call.first, backward |-> TRUE]
                    /\ pt = [at |-> call.first + taken, values |-> values]
    /\ call.op = "assign_fill" =>
           /\ n = Len(call.values) /\ mv = NoMove /\ fin = -1
           /\ pt = [at |-> 0, values |-> call.values]
    /\ call.op \in {"assign_copy", "assign_list"} =>
           /\ n = oldLen /\ mv = NoMove /\ fin = Len(call.values)
           /\ pt = [at |-> 0, values |-> call.values]

Idle == pc = "idle" => mem = old /\ len = oldLen /\ taken = 0 /\ call = Container!NoCall

\* The call is one a client may make.
Called ==
    pc # "idle" =>
        /\ call \in Container!Calls
        /\ Container!Sensible(call, Old)
        /\ Client = "not_to_end" => ~(call.op = "erase_range" /\ call.last = oldLen)

\* Only an input range is inserted element by element.
Rounds ==
    pc \in {"begin", "move", "put"} =>
        IF call.op = "insert_input"
        THEN /\ taken <= Len(call.values)
             /\ taken > 0 => call.first <= oldLen /\ oldLen + taken <= Room
        ELSE taken = 0

Beginning == pc = "begin" => mem = Base /\ len = oldLen + taken

Moving ==
    pc = "move" =>
        /\ Planned(len, move, put, final) /\ RightWay(move)
        /\ k <= move.count
        /\ mem = Moved(Base, move, k)

Putting ==
    pc = "put" =>
        /\ Planned(len, move, put, final) /\ RightWay(move)
        /\ k <= Len(put.values)
        /\ mem = Written(Moved(Base, move, move.count), put, k)

\* Why a call has failed.
HasReason ==
    IF Container!InArray(call, Old)
    THEN \A s \in Container!Promised(call, Old) : Len(s) > Room
    ELSE mem = old /\ len = oldLen

Failed == pc = "failed" /\ Client = "not_to_end" => HasReason

IInv ==
    /\ TypeOK
    /\ Idle /\ Called /\ Rounds
    /\ Beginning /\ Moving /\ Putting /\ Failed

-----------------------------------------------------------------------------
(* Loops.                                                                  *)

LEMMA MovedInRoom ==
    ASSUME NEW b \in [1 .. Room -> Value], RightWay(move),
           move \in [from : 0 .. Room, to : 0 .. Room, count : 0 .. Room,
                     backward : BOOLEAN],
           NEW n \in 0 .. move.count
    PROVE  Moved(b, move, n) \in [1 .. Room -> Value]
<1>1. /\ move.from \in Int /\ move.to \in Int /\ move.count \in Int /\ Room \in Int
      /\ 0 <= move.from /\ 0 <= move.to /\ 0 <= move.count
      /\ move.from + move.count <= Room
  BY SizesAssumption DEF RightWay
<1>2. ASSUME NEW i \in 1 .. Room, IsMoved(move, n, i)
      PROVE  i - move.to + move.from \in 1 .. Room
  <2>1. move.to < i /\ i <= move.to + move.count
    BY <1>1, <1>2 DEF IsMoved
  <2> QED
    BY <1>1, <2>1
<1> QED
  BY <1>2 DEF Moved

\* One iteration of std::copy or copy_backward: the element read has not been
\* overwritten by an earlier one.
LEMMA MovesOne ==
    ASSUME NEW b \in [1 .. Room -> Value], RightWay(move),
           move \in [from : 0 .. Room, to : 0 .. Room, count : 0 .. Room,
                     backward : BOOLEAN],
           k \in Nat, k < move.count, mem = Moved(b, move, k)
    PROVE  [mem EXCEPT ![move.to + MoveIndex] = mem[move.from + MoveIndex]]
               = Moved(b, move, k + 1)
<1> DEFINE from == move.from
           to   == move.to
           c    == move.count
           x    == MoveIndex
<1>1. /\ from \in Int /\ to \in Int /\ c \in Int /\ Room \in Int /\ k \in Int
      /\ 0 <= from /\ 0 <= to /\ k < c /\ 0 <= k
      /\ from + c <= Room /\ to + c <= Room
      /\ IF move.backward THEN from <= to ELSE to <= from
  BY SizesAssumption DEF RightWay
<1>2. x = IF move.backward THEN c - k ELSE k + 1
  BY DEF MoveIndex
<1> HIDE DEF x
<1>3. x \in 1 .. c /\ to + x \in 1 .. Room /\ from + x \in 1 .. Room
  <2> HIDE DEF from, to, c
  <2>1. x \in 1 .. c
    BY <1>1, <1>2
  <2> QED
    BY <1>1, <2>1
<1>4. ~IsMoved(move, k, from + x)
  BY <1>1, <1>2 DEF IsMoved
<1>5. mem[from + x] = b[from + x]
  BY <1>3, <1>4 DEF Moved
<1>6. ASSUME NEW i \in 1 .. Room
      PROVE  IsMoved(move, k + 1, i) <=> (IsMoved(move, k, i) \/ i = to + x)
  BY <1>1, <1>2 DEF IsMoved
<1>7. ASSUME NEW i \in 1 .. Room
      PROVE  [mem EXCEPT ![to + x] = mem[from + x]][i] = Moved(b, move, k + 1)[i]
  <2>1. CASE i = to + x
    <3>1. i - to + from = from + x
      BY <1>1, <1>3, <2>1
    <3>2. Moved(b, move, k + 1)[i] = b[from + x]
      BY <1>6, <2>1, <3>1 DEF Moved
    <3> QED
      BY <1>5, <2>1, <3>2 DEF Moved
  <2>2. CASE i # to + x
    BY <1>6, <2>2 DEF Moved
  <2> QED
    BY <2>1, <2>2
<1> QED
  BY <1>7 DEF Moved, x

\* An operation that moves nothing, or writes nothing.
LEMMA NothingMoved ==
    ASSUME NEW b \in [1 .. Room -> Value]
    PROVE  Moved(b, NoMove, NoMove.count) = b
<1>1. NoMove.to = 0 /\ NoMove.count = 0 /\ NoMove.backward = FALSE
  BY DEF NoMove
<1>2. \A i \in 1 .. Room : ~IsMoved(NoMove, NoMove.count, i)
  BY <1>1 DEF IsMoved
<1> QED
  BY <1>2 DEF Moved

LEMMA NothingWritten ==
    ASSUME NEW b \in [1 .. Room -> Value], NEW pt
    PROVE  pt.at \in Nat => Written(b, pt, 0) = b
<1> SUFFICES ASSUME pt.at \in Nat
             PROVE  Written(b, pt, 0) = b
  OBVIOUS
<1>1. \A i \in 1 .. Room : ~(pt.at < i /\ i <= pt.at + 0)
  OBVIOUS
<1> QED
  BY <1>1 DEF Written

\* One element written, if it is in the buffer.
LEMMA WritesOne ==
    ASSUME NEW b \in [1 .. Room -> Value], NEW at \in Nat, put.at = at, k \in Nat,
           mem = Written(b, put, k)
    PROVE  LET i == at + k + 1
           IN  (IF i \in 1 .. Room THEN [mem EXCEPT ![i] = put.values[k + 1]] ELSE mem)
                   = Written(b, put, k + 1)
<1> DEFINE j == at + k + 1
           new == IF j \in 1 .. Room THEN [mem EXCEPT ![j] = put.values[k + 1]] ELSE mem
<1>1. DOMAIN new = 1 .. Room /\ new = [i \in 1 .. Room |-> new[i]]
  BY DEF Written
<1>2. ASSUME NEW i \in 1 .. Room
      PROVE  new[i] = IF at < i /\ i <= at + (k + 1) THEN put.values[i - at] ELSE b[i]
  <2>1. CASE i = j
    <3>1. at < i /\ i <= at + (k + 1) /\ i - at = k + 1
      BY <2>1
    <3>2. new[i] = put.values[k + 1]
      BY <2>1 DEF Written
    <3> QED
      BY <3>1, <3>2
  <2>2. CASE i # j
    <3>1. (at < i /\ i <= at + (k + 1)) <=> (at < i /\ i <= at + k)
      BY <2>2
    <3>2. new[i] = mem[i]
      BY <2>2 DEF Written
    <3> QED
      BY <3>1, <3>2 DEF Written
  <2> QED
    BY <2>1, <2>2
<1> HIDE DEF new
<1>3. new = Written(b, put, k + 1)
  BY <1>1, <1>2 DEF Written
<1> QED
  BY <1>3 DEF new

-----------------------------------------------------------------------------
(* Contents.                                                               *)

LEMMA ElementsAreContent ==
    ASSUME NEW m \in [1 .. Room -> Value], NEW n \in 0 .. Room
    PROVE  /\ Elements(m, n) \in Seq(Value) /\ Len(Elements(m, n)) = n
           /\ DOMAIN Elements(m, n) = 1 .. n
           /\ \A i \in 1 .. n : Elements(m, n)[i] = m[i] /\ m[i] \in Value
<1>1. n \in Nat /\ \A i \in 1 .. n : m[i] \in Value
  BY SizesAssumption
<1>2. Elements(m, n) \in [1 .. n -> Value]
  BY <1>1 DEF Elements
<1>3. Elements(m, n) \in Seq(Value) /\ Len(Elements(m, n)) = n
  BY <1>1, <1>2
<1> QED
  BY <1>1, <1>2, <1>3 DEF Elements

LEMMA CopiesAreContent ==
    ASSUME NEW n \in Int, NEW v \in Value
    PROVE  /\ Container!Copies(n, v) \in Seq(Value)
           /\ Len(Container!Copies(n, v)) = IF n > 0 THEN n ELSE 0
           /\ \A i \in 1 .. n : Container!Copies(n, v)[i] = v
<1> DEFINE d == IF n > 0 THEN n ELSE 0
<1>1. d \in Nat /\ 1 .. n = 1 .. d
  OBVIOUS
<1> HIDE DEF d
<1>2. Container!Copies(n, v) \in [1 .. d -> Value]
  BY <1>1 DEF Container!Copies
<1>3. Container!Copies(n, v) \in Seq(Value) /\ Len(Container!Copies(n, v)) = d
  BY <1>1, <1>2
<1> QED
  BY <1>3 DEF d, Container!Copies

LEMMA SplicedIsContent ==
    ASSUME NEW s \in Seq(Value), NEW t \in Seq(Value),
           NEW i \in 0 .. Len(s), NEW j \in i .. Len(s)
    PROVE  LET n == Len(s) - (j - i) + Len(t)
           IN  /\ n \in Nat
               /\ Container!Spliced(s, i, j, t) =
                      [x \in 1 .. n |-> IF x <= i THEN s[x]
                                        ELSE IF x <= i + Len(t) THEN t[x - i]
                                        ELSE s[x - Len(t) + (j - i)]]
               /\ Len(Container!Spliced(s, i, j, t)) = n
<1> DEFINE n == Len(s) - (j - i) + Len(t)
           f == [x \in 1 .. n |-> IF x <= i THEN s[x]
                                  ELSE IF x <= i + Len(t) THEN t[x - i]
                                  ELSE s[x - Len(t) + (j - i)]]
<1>1. n \in Nat
  <2>1. Len(s) \in Nat /\ Len(t) \in Nat
    BY LenProperties
  <2> QED
    BY <2>1
<1>2. Container!Spliced(s, i, j, t) = f
  BY DEF Container!Spliced
<1> HIDE DEF n
<1>3. Len(f) = n
  BY <1>1
<1> QED
  BY <1>1, <1>2, <1>3 DEF n

\* What a call consists of.
LEMMA PartsOfCall ==
    ASSUME call \in Container!Calls, Container!Sensible(call, Old),
           NEW n \in 0 .. Room, Len(Old) = n
    PROVE  /\ call.first \in Nat /\ call.last \in Nat /\ call.first <= MaxSize
           /\ call.last <= MaxSize
           /\ call.values \in Seq(Value) /\ Len(call.values) \in Nat
           /\ call.op \in {"resize", "resize_default", "push_back", "pop_back",
                           "erase", "erase_range", "insert", "insert_input",
                           "assign_fill", "assign_copy", "assign_list"}
           /\ call.op \in {"resize", "push_back"} =>
                  Len(call.values) = 1 /\ call.values[1] \in Value
           /\ call.op = "push_back" => n + 1 <= MaxSize
           /\ call.op = "erase_range" => call.first <= call.last
           /\ call.op \in {"insert", "insert_input"} =>
                  n + Len(call.values) <= MaxSize
           /\ call.op \in {"assign_fill", "assign_copy", "assign_list"} =>
                  Len(call.values) <= MaxSize
<1>1. /\ call.first \in 0 .. MaxSize /\ call.last \in 0 .. MaxSize
      /\ call.values \in Inputs
      /\ call.op \in {"resize", "resize_default", "push_back", "pop_back",
                      "erase", "erase_range", "insert", "insert_input",
                      "assign_fill", "assign_copy", "assign_list"}
  BY DEF Container!Calls
<1>2. call.values \in Seq(Value) /\ Len(call.values) \in Nat
  BY <1>1, InputsAssumption, LenProperties
<1>3. call.first \in Nat /\ call.last \in Nat /\ call.first <= MaxSize /\ call.last <= MaxSize
  BY <1>1, SizesAssumption
<1>4. /\ call.op \in {"resize", "push_back"} => Len(call.values) = 1
      /\ call.op = "push_back" => n < MaxSize
      /\ call.op = "erase_range" => call.first <= call.last
      /\ call.op \in {"insert", "insert_input"} =>
             n + Len(call.values) <= MaxSize
      /\ call.op \in {"assign_fill", "assign_copy", "assign_list"} =>
             Len(call.values) <= MaxSize
  BY DEF Container!Sensible
<1>5. Len(call.values) = 1 => call.values[1] \in Value
  BY <1>2, ElementOfSeq
<1>6. call.op = "push_back" => n + 1 <= MaxSize
  BY <1>4, SizesAssumption
<1> QED
  BY <1>1, <1>2, <1>3, <1>4, <1>5, <1>6

\* The length the container promises.
PromisedLength ==
    CASE call.op \in {"resize", "resize_default"} -> call.first
      [] call.op = "push_back"                    -> oldLen + 1
      [] call.op = "pop_back"                     -> oldLen - 1
      [] call.op = "erase"                        -> oldLen - 1
      [] call.op = "erase_range"                  -> oldLen - (call.last - call.first)
      [] call.op \in {"insert", "insert_input"}   -> oldLen + Len(call.values)
      [] OTHER                                    -> Len(call.values)

LEMMA LengthPromised ==
    ASSUME TypeOK, call \in Container!Calls, Container!Sensible(call, Old),
           Container!InArray(call, Old),
           NEW s \in Container!Promised(call, Old)
    PROVE  Len(s) = PromisedLength
<1>1. /\ Old \in Seq(Value) /\ Len(Old) = oldLen
      /\ oldLen \in 0 .. Room /\ oldLen \in Nat /\ Room \in Nat
  BY ElementsAreContent, SizesAssumption DEF TypeOK, Old
<1>2. /\ call.first \in Nat /\ call.last \in Nat
      /\ call.values \in Seq(Value) /\ Len(call.values) \in Nat
      /\ call.op \in {"resize", "resize_default", "push_back", "pop_back",
                      "erase", "erase_range", "insert", "insert_input",
                      "assign_fill", "assign_copy", "assign_list"}
      /\ call.op \in {"resize", "push_back"} =>
             Len(call.values) = 1 /\ call.values[1] \in Value
      /\ call.op = "erase_range" => call.first <= call.last
  BY <1>1, PartsOfCall
<1>3. <<>> \in Seq(Value) /\ Len(<<>>) = 0
  OBVIOUS
<1>4. ASSUME NEW i \in 0 .. oldLen, NEW j \in i .. oldLen, NEW t \in Seq(Value)
       PROVE  Len(Container!Spliced(Old, i, j, t)) = oldLen - (j - i) + Len(t)
  BY <1>1, <1>4, SplicedIsContent
<1>5. ASSUME NEW n \in Nat, NEW t \in Seq(Value),
             n > oldLen => Len(t) = n - oldLen
      PROVE  Len(Container!Resized(Old, n, t)) = n
  <2>1. CASE n <= oldLen
    <3>1. n \in 0 .. oldLen /\ oldLen \in n .. oldLen
      BY <1>1, <2>1
    <3>2. Len(Container!Spliced(Old, n, oldLen, <<>>)) = oldLen - (oldLen - n) + Len(<<>>)
      BY <1>3, <1>4, <3>1
    <3>3. Container!Resized(Old, n, t) = Container!Spliced(Old, n, oldLen, <<>>)
      BY <1>1, <2>1 DEF Container!Resized
    <3> QED
      BY <1>1, <1>3, <3>2, <3>3
  <2>2. CASE n > oldLen
    <3>1. oldLen \in 0 .. oldLen /\ oldLen \in oldLen .. oldLen
      BY <1>1
    <3>2. Len(Container!Spliced(Old, oldLen, oldLen, t)) = oldLen - (oldLen - oldLen) + Len(t)
      BY <1>4, <3>1
    <3>3. Container!Resized(Old, n, t) = Container!Spliced(Old, oldLen, oldLen, t)
      BY <1>1, <2>2 DEF Container!Resized
    <3> QED
      BY <1>1, <1>5, <2>2, <3>2, <3>3
  <2> QED
    BY <1>1, <2>1, <2>2
<1>6. CASE call.op = "resize"
  <2>1. s = Container!Resized(Old, call.first,
                Container!Copies(call.first - oldLen, call.values[1]))
    BY <1>1, <1>6 DEF Container!Promised
  <2>2. call.first - oldLen \in Int
    BY <1>1, <1>2
  <2> PICK t : t = Container!Copies(call.first - oldLen, call.values[1])
    OBVIOUS
  <2>3. t \in Seq(Value) /\ (call.first > oldLen => Len(t) = call.first - oldLen)
    BY <1>1, <1>2, <1>6, <2>2, CopiesAreContent
  <2> QED
    BY <1>2, <1>5, <1>6, <2>1, <2>3 DEF PromisedLength
<1>7. CASE call.op = "resize_default"
  <2>1. PICK t \in [1 .. call.first - oldLen -> Value] :
            s = Container!Resized(Old, call.first, t)
    BY <1>1, <1>7 DEF Container!Promised
  <2>2. t \in Seq(Value) /\ (call.first > oldLen => Len(t) = call.first - oldLen)
    <3>1. PICK d : d = IF call.first > oldLen THEN call.first - oldLen ELSE 0
      OBVIOUS
    <3>2. d \in Nat /\ 1 .. call.first - oldLen = 1 .. d
      BY <1>1, <1>2, <3>1
    <3>3. t \in [1 .. d -> Value]
      BY <2>1, <3>2
    <3>4. t \in Seq(Value) /\ Len(t) = d
      BY <3>2, <3>3
    <3> QED
      BY <3>1, <3>4
  <2> QED
    BY <1>2, <1>5, <1>7, <2>1, <2>2 DEF PromisedLength
<1>8. CASE call.op = "push_back"
  <2>1. s = Container!Spliced(Old, oldLen, oldLen, call.values)
    BY <1>1, <1>8 DEF Container!Promised
  <2>2. oldLen \in 0 .. oldLen /\ oldLen \in oldLen .. oldLen
    BY <1>1
  <2>3. Len(s) = oldLen - (oldLen - oldLen) + Len(call.values)
    BY <1>2, <1>4, <2>1, <2>2
  <2>4. PromisedLength = oldLen + 1 /\ Len(call.values) = 1
    BY <1>2, <1>8 DEF PromisedLength
  <2> QED
    BY <1>1, <2>3, <2>4
<1>9. CASE call.op = "pop_back"
  <2>1. s = Container!Spliced(Old, oldLen - 1, oldLen, <<>>)
    BY <1>1, <1>9 DEF Container!Promised
  <2>2. oldLen # 0
    BY <1>1, <1>9 DEF Container!InArray
  <2>3. oldLen - 1 \in 0 .. oldLen /\ oldLen \in oldLen - 1 .. oldLen
    BY <1>1, <2>2
  <2>4. Len(s) = oldLen - (oldLen - (oldLen - 1)) + Len(<<>>)
    BY <1>3, <1>4, <2>1, <2>3
  <2> QED
    BY <1>1, <1>3, <1>9, <2>4 DEF PromisedLength
<1>10. CASE call.op = "erase"
  <2>1. s = Container!Spliced(Old, call.first, call.first + 1, <<>>)
    BY <1>1, <1>10 DEF Container!Promised
  <2>2. call.first < oldLen
    BY <1>1, <1>10 DEF Container!InArray
  <2>3. call.first \in 0 .. oldLen /\ call.first + 1 \in call.first .. oldLen
    BY <1>1, <1>2, <2>2
  <2>4. Len(s) = oldLen - ((call.first + 1) - call.first) + Len(<<>>)
    BY <1>3, <1>4, <2>1, <2>3
  <2> QED
    BY <1>1, <1>2, <1>3, <1>10, <2>4 DEF PromisedLength
<1>11. CASE call.op = "erase_range"
  <2>1. s = Container!Spliced(Old, call.first, call.last, <<>>)
    BY <1>1, <1>11 DEF Container!Promised
  <2>2. call.last <= oldLen
    BY <1>1, <1>11 DEF Container!InArray
  <2>3. call.first \in 0 .. oldLen /\ call.last \in call.first .. oldLen
    BY <1>1, <1>2, <1>11, <2>2
  <2>4. Len(s) = oldLen - (call.last - call.first) + Len(<<>>)
    BY <1>3, <1>4, <2>1, <2>3
  <2> QED
    BY <1>1, <1>2, <1>3, <1>11, <2>4 DEF PromisedLength
<1>12. CASE call.op \in {"insert", "insert_input"}
  <2>1. s = Container!Spliced(Old, call.first, call.first, call.values)
    BY <1>1, <1>12 DEF Container!Promised
  <2>2. call.first <= oldLen
    BY <1>1, <1>12 DEF Container!InArray
  <2>3. call.first \in 0 .. oldLen /\ call.first \in call.first .. oldLen
    BY <1>1, <1>2, <2>2
  <2>4. Len(s) = oldLen - (call.first - call.first) + Len(call.values)
    BY <1>2, <1>4, <2>1, <2>3
  <2> QED
    BY <1>1, <1>2, <1>12, <2>4 DEF PromisedLength
<1>13. CASE call.op \in {"assign_fill", "assign_copy", "assign_list"}
  BY <1>13 DEF Container!Promised, PromisedLength
<1> QED
  BY <1>2, <1>6, <1>7, <1>8, <1>9, <1>10, <1>11, <1>12, <1>13

-----------------------------------------------------------------------------
(* The beginning of a call.                                                *)

\* Sizes computed as an int have room in the prefix's type.
LEMMA NarrowKeeps ==
    ASSUME NEW n \in Nat, n < Modulus
    PROVE  Narrow(n) = n
  BY SizesAssumption DEF Narrow

LEMMA CallInProgress ==
    ASSUME IInv, pc # "idle"
    PROVE  /\ TypeOK
           /\ Room \in Nat /\ MaxSize \in Nat /\ Modulus \in Nat /\ MaxSize < Modulus
           /\ Old \in Seq(Value) /\ Len(Old) = oldLen
           /\ oldLen \in 0 .. Room /\ oldLen \in Nat /\ taken \in Nat
           /\ old \in [1 .. Room -> Value] /\ mem \in [1 .. Room -> Value]
           /\ len \in 0 .. Room /\ len < Modulus
           /\ call \in Container!Calls /\ Container!Sensible(call, Old)
           /\ call.first \in Nat /\ call.last \in Nat
           /\ call.first <= MaxSize /\ call.last <= MaxSize
           /\ call.values \in Seq(Value) /\ Len(call.values) \in Nat
           /\ call.op \in {"resize", "resize_default", "push_back", "pop_back",
                           "erase", "erase_range", "insert", "insert_input",
                           "assign_fill", "assign_copy", "assign_list"}
           /\ call.op \in {"resize", "push_back"} =>
                  Len(call.values) = 1 /\ call.values[1] \in Value
           /\ call.op = "push_back" => oldLen + 1 <= MaxSize
           /\ call.op = "erase_range" => call.first <= call.last
           /\ call.op \in {"insert", "insert_input"} =>
                  oldLen + Len(call.values) <= MaxSize
           /\ call.op \in {"assign_fill", "assign_copy", "assign_list"} =>
                  Len(call.values) <= MaxSize
<1>1. TypeOK /\ call \in Container!Calls /\ Container!Sensible(call, Old)
  BY DEF IInv, Called
<1>2. /\ Old \in Seq(Value) /\ Len(Old) = oldLen /\ oldLen \in 0 .. Room
      /\ oldLen \in Nat
  BY <1>1, ElementsAreContent, SizesAssumption DEF TypeOK, Old
<1>3. /\ taken \in Nat /\ len \in 0 .. Room /\ len < Modulus
      /\ old \in [1 .. Room -> Value] /\ mem \in [1 .. Room -> Value]
  BY <1>1 DEF TypeOK
<1> QED
  BY <1>1, <1>2, <1>3, PartsOfCall, SizesAssumption

\* The values of a call that have been inserted are in the array.
LEMMA InsertedInRoom ==
    ASSUME IInv, pc # "idle", NEW j \in 0 .. Len(call.values)
    PROVE  Inserted(j) \in [1 .. Room -> Value]
<1>1. /\ Room \in Nat /\ oldLen \in 0 .. Room /\ call.first \in Nat
      /\ old \in [1 .. Room -> Value]
      /\ call.values \in Seq(Value) /\ Len(call.values) \in Nat
  BY CallInProgress
<1>2. ASSUME NEW i \in 1 .. Room, ~(i <= call.first), i <= call.first + j
      PROVE  call.values[i - call.first] \in Value
  <2>1. i - call.first \in 1 .. Len(call.values)
    BY <1>1, <1>2
  <2> QED
    BY <1>1, <2>1, ElementOfSeq
<1>3. ASSUME NEW i \in 1 .. Room, ~(i <= call.first), ~(i <= call.first + j)
      PROVE  i - j \in 1 .. Room
  BY <1>1, <1>3
<1> QED
  BY <1>1, <1>2, <1>3 DEF Inserted, InsertedInto

LEMMA BaseInRoom ==
    ASSUME IInv, pc \in {"begin", "move", "put"}
    PROVE  Base \in [1 .. Room -> Value]
<1>1. CASE call.op = "insert_input"
  <2>1. taken \in 0 .. Len(call.values)
    BY <1>1, CallInProgress DEF IInv, Rounds
  <2> QED
    BY <1>1, <2>1, InsertedInRoom DEF Base
<1>2. CASE call.op # "insert_input"
  BY <1>2, CallInProgress DEF Base
<1> QED
  BY <1>1, <1>2

\* A failed check in front of the loops.
LEMMA FailsFirst ==
    ASSUME IInv, Fail, pc # "idle", Client = "not_to_end" => HasReason
    PROVE  IInv'
<1>1. /\ pc' = "failed" /\ mem' = mem /\ len' = len /\ call' = call /\ move' = move
      /\ put' = put /\ final' = final /\ k' = k /\ taken' = taken
      /\ old' = old /\ oldLen' = oldLen
  BY DEF Fail, buffer, loop
<1>2. Old' = Old
  BY <1>1 DEF Old, Elements
<1>3. TypeOK'
  BY <1>1 DEF IInv, TypeOK
<1>4. Called'
  BY <1>1, <1>2 DEF IInv, Called
<1>5. Idle' /\ Rounds' /\ Beginning' /\ Moving' /\ Putting'
  BY <1>1 DEF Idle, Rounds, Beginning, Moving, Putting
<1>6. Failed'
  BY <1>1, <1>2 DEF Failed, HasReason
<1> QED
  BY <1>3, <1>4, <1>5, <1>6 DEF IInv

\* An operation that is going to be n elements long fails for want of room
\* only if the result has none.
LEMMA TooLong ==
    ASSUME IInv, pc # "idle", Container!InArray(call, Old),
           NEW n \in Nat, n > Room, n <= PromisedLength, PromisedLength \in Int
    PROVE  HasReason
<1>1. ASSUME NEW s \in Container!Promised(call, Old)
      PROVE  Len(s) > Room
  <2>1. Len(s) = PromisedLength
    BY <1>1, CallInProgress, LengthPromised
  <2> QED
    BY <2>1, SizesAssumption
<1> QED
  BY <1>1 DEF HasReason

\* resize of the array to n elements, with the elements to move and values to
\* write as planned for the call.
LEMMA ResizeAsPlanned ==
    ASSUME IInv, pc = "begin", NEW n \in Nat, n < Modulus, NEW mv, NEW pt, NEW fin,
           Resize(n, mv, pt, fin),
           Fits(n) => /\ Planned(n, mv, pt, fin) /\ RightWay(mv)
                      /\ mv \in [from : 0 .. Room, to : 0 .. Room,
                                 count : 0 .. Room, backward : BOOLEAN]
                      /\ pt.at \in 0 .. Room /\ pt.values \in Seq(Value)
                      /\ fin \in -1 .. Modulus - 1,
           ~Fits(n) => HasReason
    PROVE  IInv'
<1>1. CASE ~Fits(n)
  <2>1. Fail
    BY <1>1 DEF Resize
  <2> QED
    BY <1>1, <2>1, FailsFirst
<1>2. CASE Fits(n)
  <2>1. /\ len' = n /\ move' = mv /\ put' = pt /\ final' = fin /\ k' = 0
        /\ pc' = "move" /\ mem' = mem /\ call' = call /\ taken' = taken
        /\ old' = old /\ oldLen' = oldLen
    BY <1>2 DEF Resize, Fail
  <2>2. /\ TypeOK /\ Called /\ Rounds /\ mem = Base /\ n \in 0 .. Room
    BY <1>2, SizesAssumption DEF IInv, Beginning, Fits
  <2>3. TypeOK'
    BY <1>2, <2>1, <2>2 DEF TypeOK
  <2>4. Old' = Old /\ Base' = Base
    BY <2>1 DEF Old, Elements, Base, Inserted, InsertedInto
  <2>5. Called' /\ Rounds'
    BY <2>1, <2>2, <2>4 DEF Called, Rounds
  <2>6. Idle' /\ Beginning' /\ Putting' /\ Failed'
    BY <2>1 DEF Idle, Beginning, Putting, Failed
  <2>7. Moving'
    <3>1. Planned(len, move, put, final)'
      BY <1>2, <2>1, <2>4 DEF Planned
    <3>2. mem = Moved(Base, mv, 0)
      <4>1. \A i \in 1 .. Room : ~IsMoved(mv, 0, i)
        <5>1. mv.to \in Int /\ mv.count \in Int
          BY <1>2, SizesAssumption
        <5> QED
          BY <5>1 DEF IsMoved
      <4>2. Base \in [1 .. Room -> Value]
        BY BaseInRoom
      <4> QED
        BY <2>2, <4>1, <4>2 DEF Moved
    <3>3. Moved(Base, move, k)' = Moved(Base, mv, 0)
      BY <2>1, <2>4 DEF Moved, IsMoved
    <3>4. RightWay(mv) /\ mv.count \in Nat /\ 0 <= mv.count
      BY <1>2, SizesAssumption
    <3>5. RightWay(move)' /\ k' <= move'.count
      BY <2>1, <3>4 DEF RightWay
    <3>6. mem' = Moved(Base, move, k)'
      BY <2>1, <3>2, <3>3
    <3> QED
      BY <3>1, <3>5, <3>6 DEF Moving
  <2> QED
    BY <2>3, <2>5, <2>6, <2>7 DEF IInv
<1> QED
  BY <1>1, <1>2

\* Nothing has been done yet, or only some elements of an input range inserted.
LEMMA AtTheBeginning ==
    ASSUME IInv, pc = "begin"
    PROVE  /\ mem = Base /\ len = oldLen + taken
           /\ call.op # "insert_input" =>
                  taken = 0 /\ mem = old /\ len = oldLen
           /\ call.op = "insert_input" =>
                  /\ taken <= Len(call.values)
                  /\ taken > 0 => call.first <= oldLen /\ oldLen + taken <= Room
                  /\ taken = 0 => len = oldLen
<1>1. mem = Base /\ len = oldLen + taken
  BY DEF IInv, Beginning
<1>2. oldLen \in Nat
  BY CallInProgress
<1>3. IF call.op = "insert_input"
      THEN /\ taken <= Len(call.values)
           /\ taken > 0 => call.first <= oldLen /\ oldLen + taken <= Room
      ELSE taken = 0
  BY DEF IInv, Rounds
<1> QED
  BY <1>1, <1>2, <1>3 DEF Base

LEMMA NoMoveIsMove ==
    /\ RightWay(NoMove)
    /\ NoMove \in [from : 0 .. Room, to : 0 .. Room, count : 0 .. Room,
                   backward : BOOLEAN]
    /\ NoPut.at \in 0 .. Room /\ NoPut.values \in Seq(Value)
    /\ -1 \in -1 .. Modulus - 1
  BY SizesAssumption DEF NoMove, NoPut, RightWay

LEMMA BeginResizeStep ==
    ASSUME IInv, BeginResize
    PROVE  IInv'
<1> DEFINE pt == [at     |-> len,
                  values |-> [i \in 1 .. call.first - len |-> call.values[1]]]
<1>1. pc = "begin" /\ call.op = "resize" /\ Resize(call.first, NoMove, pt, -1)
  BY DEF BeginResize, Begin
<1>2. /\ oldLen \in 0 .. Room /\ oldLen \in Nat /\ Room \in Nat
      /\ call.first \in Nat /\ call.first < Modulus
      /\ call.values[1] \in Value
  BY <1>1, CallInProgress
<1>3. Container!InArray(call, Old)
  BY <1>1 DEF Container!InArray
<1>4. pt = [at     |-> oldLen,
            values |-> Container!Copies(call.first - oldLen, call.values[1])]
  BY <1>1, AtTheBeginning DEF Container!Copies
<1> HIDE DEF pt
<1>5. Planned(call.first, NoMove, pt, -1)
  BY <1>1, <1>3, <1>4 DEF Planned
<1>6. pt.at \in 0 .. Room /\ pt.values \in Seq(Value)
  BY <1>2, <1>4, CopiesAreContent
<1>7. ASSUME ~Fits(call.first)
      PROVE  HasReason
  <2>1. PromisedLength = call.first /\ call.first > Room
    BY <1>1, <1>2, <1>7 DEF PromisedLength, Fits
  <2> QED
    BY <1>1, <1>2, <1>3, <2>1, TooLong
<1> QED
  BY <1>1, <1>2, <1>5, <1>6, <1>7, NoMoveIsMove, ResizeAsPlanned

LEMMA BeginResizeDefaultStep ==
    ASSUME IInv, BeginResizeDefault
    PROVE  IInv'
<1>1. pc = "begin" /\ call.op = "resize_default" /\ Resize(call.first, NoMove, NoPut, -1)
  BY DEF BeginResizeDefault, Begin
<1>2. call.first \in Nat /\ call.first < Modulus /\ Room \in Nat
  BY <1>1, CallInProgress
<1>3. Container!InArray(call, Old)
  BY <1>1 DEF Container!InArray
<1>4. Planned(call.first, NoMove, NoPut, -1)
  BY <1>1, <1>3 DEF Planned
<1>5. ASSUME ~Fits(call.first)
      PROVE  HasReason
  <2>1. PromisedLength = call.first /\ call.first > Room
    BY <1>1, <1>2, <1>5 DEF PromisedLength, Fits
  <2> QED
    BY <1>1, <1>2, <1>3, <2>1, TooLong
<1> QED
  BY <1>1, <1>2, <1>4, <1>5, NoMoveIsMove, ResizeAsPlanned

LEMMA PushBackStep ==
    ASSUME IInv, PushBack
    PROVE  IInv'
<1> DEFINE pt == [at |-> oldLen, values |-> call.values]
<1>1. /\ pc = "begin" /\ call.op = "push_back"
      /\ Resize(Narrow(len + 1), NoMove, [at |-> len, values |-> call.values], -1)
  BY DEF PushBack, Begin
<1>2. /\ oldLen \in 0 .. Room /\ oldLen \in Nat /\ Room \in Nat
      /\ call.values \in Seq(Value) /\ oldLen + 1 \in Nat /\ oldLen + 1 < Modulus
      /\ len = oldLen
  BY <1>1, CallInProgress, AtTheBeginning
<1>3. Resize(oldLen + 1, NoMove, pt, -1)
  BY <1>1, <1>2, NarrowKeeps
<1>4. Container!InArray(call, Old)
  BY <1>1 DEF Container!InArray
<1>5. Planned(oldLen + 1, NoMove, pt, -1)
  BY <1>1, <1>4 DEF Planned
<1>6. ASSUME ~Fits(oldLen + 1)
      PROVE  HasReason
  <2>1. PromisedLength = oldLen + 1 /\ oldLen + 1 > Room
    BY <1>1, <1>2, <1>6 DEF PromisedLength, Fits
  <2> QED
    BY <1>1, <1>2, <1>4, <2>1, TooLong
<1> QED
  BY <1>1, <1>2, <1>3, <1>5, <1>6, NoMoveIsMove, ResizeAsPlanned

LEMMA PopBackStep ==
    ASSUME IInv, PopBack
    PROVE  IInv'
<1>1. pc = "begin" /\ call.op = "pop_back"
  BY DEF PopBack, Begin
<1>2. /\ oldLen \in 0 .. Room /\ oldLen \in Nat /\ Room \in Nat
      /\ Len(Old) = oldLen /\ Old \in Seq(Value)
      /\ len = oldLen /\ mem = old /\ len < Modulus /\ Modulus \in Nat
  BY <1>1, CallInProgress, AtTheBeginning
<1>3. Container!InArray(call, Old) <=> oldLen # 0
  <2>1. Old # <<>> <=> oldLen # 0
    BY <1>2, EmptySeq
  <2> QED
    BY <1>1, <2>1 DEF Container!InArray
<1>4. CASE len = 0 /\ Fail
  <2>1. HasReason
    BY <1>2, <1>3, <1>4 DEF HasReason
  <2> QED
    BY <1>1, <1>4, <2>1, FailsFirst
<1>5. CASE len # 0 /\ Resize(Narrow(len - 1), NoMove, NoPut, -1)
  <2>1. oldLen - 1 \in Nat /\ oldLen - 1 < Modulus /\ oldLen - 1 <= Room
    BY <1>2, <1>5
  <2>2. Resize(oldLen - 1, NoMove, NoPut, -1)
    BY <1>2, <1>5, <2>1, NarrowKeeps
  <2>3. Planned(oldLen - 1, NoMove, NoPut, -1)
    BY <1>1, <1>2, <1>3, <1>5 DEF Planned
  <2>4. Fits(oldLen - 1)
    BY <2>1 DEF Fits
  <2> QED
    BY <1>1, <2>1, <2>2, <2>3, <2>4, NoMoveIsMove, ResizeAsPlanned
<1> QED
  BY <1>4, <1>5 DEF PopBack

\* Elements behind an erased range are moved to the front, then the length is
\* set.
LEMMA ErasesAsPlanned ==
    ASSUME IInv, pc = "begin", call.op \in {"erase", "erase_range"},
           NEW last \in Nat,
           last = IF call.op = "erase" THEN call.first + 1 ELSE call.last,
           call.first <= last, last <= oldLen, Container!InArray(call, Old),
           ResizeLast(EraseMove(call.first, last), NoPut,
                      Narrow(len - (last - call.first)))
    PROVE  IInv'
<1> DEFINE mv == [from |-> last, to |-> call.first,
                  count |-> oldLen - last, backward |-> FALSE]
           n == oldLen - (last - call.first)
<1>1. /\ oldLen \in 0 .. Room /\ oldLen \in Nat /\ Room \in Nat
      /\ call.first \in Nat /\ Modulus \in Nat
      /\ len = oldLen /\ len < Modulus
  BY CallInProgress, AtTheBeginning
<1>2. n \in Nat /\ n < Modulus /\ n \in -1 .. Modulus - 1
  BY <1>1
<1>3. EraseMove(call.first, last) = mv
  BY <1>1 DEF EraseMove
<1>4. Narrow(len - (last - call.first)) = n
  BY <1>1, <1>2, NarrowKeeps
<1>5. Resize(oldLen, mv, NoPut, n)
  BY <1>1, <1>3, <1>4 DEF ResizeLast
<1>6. Planned(oldLen, mv, NoPut, n)
  BY DEF Planned
<1>7. RightWay(mv)
  BY <1>1 DEF RightWay
<1>8. mv \in [from : 0 .. Room, to : 0 .. Room, count : 0 .. Room, backward : BOOLEAN]
  BY <1>1
<1>9. Fits(oldLen)
  BY <1>1 DEF Fits
<1> HIDE DEF mv, n
<1> QED
  BY <1>1, <1>2, <1>5, <1>6, <1>7, <1>8, <1>9, NoMoveIsMove, ResizeAsPlanned

LEMMA EraseAtStep ==
    ASSUME IInv, EraseAt
    PROVE  IInv'
<1>1. pc = "begin" /\ call.op = "erase"
  BY DEF EraseAt, Begin
<1>2. /\ oldLen \in Nat /\ call.first \in Nat /\ Len(Old) = oldLen
      /\ len = oldLen /\ mem = old
  BY <1>1, CallInProgress, AtTheBeginning
<1>3. Container!InArray(call, Old) <=> call.first < oldLen
  BY <1>1, <1>2 DEF Container!InArray
<1>4. CASE ~HasElementAt(call.first) /\ Fail
  <2>1. HasReason
    BY <1>2, <1>3, <1>4 DEF HasReason, HasElementAt
  <2> QED
    BY <1>1, <1>4, <2>1, FailsFirst
<1>5. CASE /\ HasElementAt(call.first)
           /\ ResizeLast(EraseMove(call.first, call.first + 1), NoPut, Narrow(len - 1))
  <2>1. call.first < oldLen
    BY <1>2, <1>5 DEF HasElementAt
  <2>2. /\ call.first + 1 \in Nat /\ call.first <= call.first + 1
        /\ call.first + 1 <= oldLen
        /\ len - 1 = len - ((call.first + 1) - call.first)
    BY <1>2, <2>1
  <2>3. ResizeLast(EraseMove(call.first, call.first + 1), NoPut,
                   Narrow(len - ((call.first + 1) - call.first)))
    BY <1>5, <2>2
  <2> QED
    BY <1>1, <1>3, <2>1, <2>2, <2>3, ErasesAsPlanned
<1> QED
  BY <1>4, <1>5 DEF EraseAt

LEMMA EraseRangeStep ==
    ASSUME IInv, EraseRange
    PROVE  IInv'
<1>1. pc = "begin" /\ call.op = "erase_range"
  BY DEF EraseRange, Begin
<1>2. /\ oldLen \in Nat /\ call.first \in Nat /\ call.last \in Nat
      /\ call.first <= call.last /\ Len(Old) = oldLen
      /\ len = oldLen /\ mem = old
  BY <1>1, CallInProgress, AtTheBeginning
<1>3. Container!InArray(call, Old) <=> call.last <= oldLen
  BY <1>1, <1>2 DEF Container!InArray
<1>4. CASE ~HasElementAt(call.last) /\ Fail
  <2>1. ASSUME Client = "not_to_end"
        PROVE  HasReason
    <3>1. call.last # oldLen
      BY <1>1, <2>1 DEF IInv, Called
    <3>2. ~(call.last <= oldLen)
      BY <1>2, <1>4, <3>1 DEF HasElementAt
    <3> QED
      BY <1>2, <1>3, <3>2 DEF HasReason
  <2> QED
    BY <1>1, <1>4, <2>1, FailsFirst
<1>5. CASE /\ HasElementAt(call.last)
           /\ ResizeLast(EraseMove(call.first, call.last), NoPut,
                         Narrow(len - (call.last - call.first)))
  <2>1. call.last <= oldLen
    BY <1>2, <1>5 DEF HasElementAt
  <2> QED
    BY <1>1, <1>2, <1>3, <1>5, <2>1, ErasesAsPlanned
<1> QED
  BY <1>4, <1>5 DEF EraseRange

\* Nothing inserted yet.
LEMMA NothingInserted ==
    ASSUME IInv, pc # "idle"
    PROVE  Inserted(0) = old
<1>1. oldLen \in Nat /\ call.first \in Nat /\ old \in [1 .. Room -> Value]
      /\ Room \in Nat /\ Len(call.values) \in Nat
  BY CallInProgress
<1>2. Inserted(0) \in [1 .. Room -> Value]
  BY <1>1, InsertedInRoom
<1>3. \A i \in 1 .. Room : Inserted(0)[i] = old[i]
  <2>1. ASSUME NEW i \in 1 .. Room
        PROVE  i - 0 = i /\ (i <= call.first + 0 <=> i <= call.first)
    BY <1>1
  <2> QED
    BY <2>1 DEF Inserted, InsertedInto
<1> QED
  BY <1>1, <1>2, <1>3

\* v more values inserted, after those that have been taken.
LEMMA InsertedLengths ==
    ASSUME NEW v \in Nat, NEW w \in Nat, taken + v <= w,
           oldLen \in Nat, taken \in Nat, Room \in Nat, Modulus \in Nat,
           NEW f \in Nat, f <= oldLen, oldLen + w < Modulus
    PROVE  /\ oldLen + taken + v \in Nat /\ oldLen + taken + v < Modulus
           /\ oldLen + taken + v <= oldLen + w
           /\ (oldLen + taken) + v = oldLen + taken + v
           /\ (oldLen + taken) - (f + taken) = oldLen - f
           /\ oldLen + taken + v <= Room =>
                  /\ f + taken \in 0 .. Room /\ f + taken + v \in 0 .. Room
                  /\ oldLen - f \in 0 .. Room
                  /\ f + taken + (oldLen - f) <= Room
                  /\ f + taken + v + (oldLen - f) <= Room
                  /\ f + taken <= f + taken + v
  OBVIOUS

LEMMA InsertionFits ==
    ASSUME IInv, pc = "begin", call.op \in {"insert", "insert_input"},
           NEW v \in Nat, taken + v <= Len(call.values), call.first <= oldLen,
           NEW n, n = oldLen + taken + v, NEW pos, pos = call.first + taken
    PROVE  /\ n \in Nat /\ n < Modulus /\ n <= oldLen + Len(call.values)
           /\ len + v = n /\ len - pos = oldLen - call.first
           /\ n <= Room =>
                  /\ pos \in 0 .. Room /\ pos + v \in 0 .. Room
                  /\ oldLen - call.first \in 0 .. Room
                  /\ pos + (oldLen - call.first) <= Room
                  /\ pos + v + (oldLen - call.first) <= Room
                  /\ pos <= pos + v
<1>1. /\ oldLen \in Nat /\ Room \in Nat /\ MaxSize \in Nat /\ call.first \in Nat
      /\ Modulus \in Nat /\ taken \in Nat /\ MaxSize < Modulus
      /\ oldLen + Len(call.values) <= MaxSize /\ Len(call.values) \in Nat
      /\ len = oldLen + taken
  BY CallInProgress, AtTheBeginning
<1>2. oldLen + Len(call.values) < Modulus
  BY <1>1
<1> QED
  BY <1>1, <1>2, InsertedLengths

\* Elements behind the position are moved to the back, then values are written.
LEMMA InsertsAsPlanned ==
    ASSUME IInv, pc = "begin", call.op \in {"insert", "insert_input"},
           call.op = "insert_input" => taken < Len(call.values),
           NEW values \in Seq(Value),
           values = IF call.op = "insert" THEN call.values
                    ELSE <<call.values[taken + 1]>>,
           InsertValues(call.first + taken, values)
    PROVE  IInv'
<1> DEFINE n   == oldLen + taken + Len(values)
           pos == call.first + taken
           mv  == [from |-> pos, to |-> pos + Len(values),
                   count |-> oldLen - call.first, backward |-> TRUE]
           pt  == [at |-> pos, values |-> values]
<1>1. /\ oldLen \in 0 .. Room /\ oldLen \in Nat /\ Room \in Nat /\ MaxSize \in Nat
      /\ call.first \in Nat /\ Modulus \in Nat /\ taken \in Nat
      /\ MaxSize < Modulus /\ Len(Old) = oldLen
      /\ oldLen + Len(call.values) <= MaxSize /\ Len(call.values) \in Nat
      /\ len = oldLen + taken
  BY CallInProgress, AtTheBeginning
<1>2. Len(values) \in Nat /\ taken + Len(values) <= Len(call.values)
  <2>1. CASE call.op = "insert"
    BY <1>1, <2>1, AtTheBeginning
  <2>2. CASE call.op = "insert_input"
    BY <1>1, <2>2
  <2> QED
    BY <2>1, <2>2
<1>3. Container!InArray(call, Old) <=> call.first <= oldLen
  BY <1>1 DEF Container!InArray
<1>4. CASE pos > len /\ Fail
  <2>1. ~(call.first <= oldLen)
    BY <1>1, <1>4
  <2>2. taken = 0 /\ mem = old /\ len = oldLen
    <3>1. taken = 0
      BY <1>1, <2>1, AtTheBeginning
    <3>2. mem = Base
      BY AtTheBeginning
    <3>3. Inserted(0) = old
      BY NothingInserted
    <3> QED
      BY <1>1, <3>1, <3>2, <3>3 DEF Base
  <2>3. HasReason
    BY <1>3, <2>1, <2>2 DEF HasReason
  <2> QED
    BY <1>4, <2>3, FailsFirst
<1>5. CASE /\ pos <= len
           /\ Resize(Narrow(len + Len(values)), InsertMove(pos, Len(values)), pt, -1)
  <2>1. call.first <= oldLen
    BY <1>1, <1>5
  <2>2. /\ n \in Nat /\ n < Modulus /\ n <= oldLen + Len(call.values)
        /\ len + Len(values) = n /\ len - pos = oldLen - call.first
        /\ n <= Room =>
               /\ pos \in 0 .. Room /\ pos + Len(values) \in 0 .. Room
               /\ oldLen - call.first \in 0 .. Room
               /\ pos + (oldLen - call.first) <= Room
               /\ pos + Len(values) + (oldLen - call.first) <= Room
               /\ pos <= pos + Len(values)
    BY <1>2, <2>1, InsertionFits
  <2>3. Narrow(len + Len(values)) = n /\ InsertMove(pos, Len(values)) = mv
    BY <2>2, NarrowKeeps DEF InsertMove
  <2>4. Planned(n, mv, pt, -1)
    <3>1. call.op = "insert_input" => taken # Len(call.values)
      BY <1>1
    <3> QED
      BY <1>3, <2>1, <3>1 DEF Planned
  <2>5. Fits(n) => /\ RightWay(mv) /\ pt.at \in 0 .. Room
                   /\ mv \in [from : 0 .. Room, to : 0 .. Room,
                              count : 0 .. Room, backward : BOOLEAN]
    BY <2>2 DEF Fits, RightWay
  <2>6. ASSUME ~Fits(n)
        PROVE  HasReason
    <3>1. ~(n <= Room) /\ PromisedLength = oldLen + Len(call.values)
      BY <2>6 DEF PromisedLength, Fits
    <3> HIDE DEF n
    <3>2. n > Room
      BY <1>1, <2>2, <3>1
    <3>3. n <= PromisedLength /\ PromisedLength \in Int
      BY <1>1, <2>2, <3>1
    <3> QED
      BY <1>3, <2>1, <2>2, <3>2, <3>3, TooLong
  <2>7. Resize(n, mv, pt, -1) /\ pt.values \in Seq(Value)
    BY <1>5, <2>3
  <2>8. -1 \in -1 .. Modulus - 1
    BY <1>1
  <2> HIDE DEF n, mv, pt
  <2> QED
    BY <2>2, <2>4, <2>5, <2>6, <2>7, <2>8, ResizeAsPlanned
<1> QED
  BY <1>4, <1>5 DEF InsertValues

LEMMA InsertStep ==
    ASSUME IInv, Insert
    PROVE  IInv'
<1>1. pc = "begin" /\ call.op = "insert" /\ InsertValues(call.first, call.values)
  BY DEF Insert, Begin
<1>2. call.values \in Seq(Value) /\ taken = 0 /\ call.first \in Nat
  BY <1>1, CallInProgress, AtTheBeginning
<1>3. call.first + taken = call.first
  BY <1>2
<1> QED
  BY <1>1, <1>2, <1>3, InsertsAsPlanned

LEMMA InsertInputStep ==
    ASSUME IInv, InsertInput
    PROVE  IInv'
<1>1. pc = "begin" /\ call.op = "insert_input"
  BY DEF InsertInput, Begin
<1>2. /\ oldLen \in Nat /\ Room \in Nat /\ call.first \in Nat /\ taken \in Nat
      /\ Len(Old) = oldLen /\ Modulus \in Nat /\ len \in 0 .. Room /\ len < Modulus
      /\ call.values \in Seq(Value) /\ Len(call.values) \in Nat
      /\ len = oldLen + taken /\ mem = Base
      /\ taken > 0 => call.first <= oldLen
      /\ old \in [1 .. Room -> Value]
  BY <1>1, CallInProgress, AtTheBeginning
<1>3. Container!InArray(call, Old) <=> call.first <= oldLen
  BY <1>1, <1>2 DEF Container!InArray
<1>4. CASE call.first > len /\ Fail
  <2>1. taken = 0 /\ ~(call.first <= oldLen) /\ len = oldLen
    BY <1>2, <1>4
  <2>2. mem = old
    <3>1. Inserted(0) = old
      BY <1>1, NothingInserted
    <3> QED
      BY <1>1, <1>2, <2>1, <3>1 DEF Base
  <2>3. HasReason
    BY <1>3, <2>1, <2>2 DEF HasReason
  <2> QED
    BY <1>1, <1>4, <2>3, FailsFirst
<1>5. CASE /\ taken < Len(call.values)
           /\ InsertValues(call.first + taken, <<call.values[taken + 1]>>)
  <2>1. taken + 1 \in 1 .. Len(call.values)
    BY <1>2, <1>5
  <2>2. <<call.values[taken + 1]>> \in Seq(Value)
    BY <1>2, <2>1, ElementOfSeq
  <2> QED
    BY <1>1, <1>5, <2>2, InsertsAsPlanned
<1>6. CASE taken = Len(call.values) /\ call.first <= len /\ ResizeLast(NoMove, NoPut, -1)
  <2>1. call.first <= oldLen
    BY <1>2, <1>6
  <2>2. Planned(len, NoMove, NoPut, -1)
    BY <1>1, <1>2, <1>3, <1>6, <2>1 DEF Planned
  <2>3. Fits(len) /\ len \in Nat
    BY <1>2 DEF Fits
  <2> QED
    BY <1>1, <1>2, <1>6, <2>2, <2>3, NoMoveIsMove, ResizeAsPlanned DEF ResizeLast
<1> QED
  BY <1>4, <1>5, <1>6 DEF InsertInput

LEMMA AssignFillStep ==
    ASSUME IInv, AssignFill
    PROVE  IInv'
<1> DEFINE pt == [at |-> 0, values |-> call.values]
<1>1. /\ pc = "begin" /\ call.op = "assign_fill"
      /\ Resize(Narrow(Len(call.values)), NoMove, pt, -1)
  BY DEF AssignFill, Begin
<1>2. /\ Room \in Nat /\ call.values \in Seq(Value) /\ Len(call.values) \in Nat
      /\ Len(call.values) < Modulus /\ pt.at \in 0 .. Room
  BY <1>1, CallInProgress
<1>3. Container!InArray(call, Old)
  BY <1>1 DEF Container!InArray
<1>4. Planned(Len(call.values), NoMove, pt, -1)
  BY <1>1, <1>3 DEF Planned
<1>5. ASSUME ~Fits(Len(call.values))
      PROVE  HasReason
  <2>1. PromisedLength = Len(call.values) /\ Len(call.values) > Room
    BY <1>1, <1>2, <1>5 DEF PromisedLength, Fits
  <2> QED
    BY <1>1, <1>2, <1>3, <2>1, TooLong
<1>6. Resize(Len(call.values), NoMove, pt, -1)
  BY <1>1, <1>2, NarrowKeeps
<1> QED
  BY <1>1, <1>2, <1>4, <1>5, <1>6, NoMoveIsMove, ResizeAsPlanned

\* The elements are copied before the length is set.
LEMMA AssignsAsPlanned ==
    ASSUME IInv, pc = "begin", call.op \in {"assign_copy", "assign_list"},
           ResizeLast(NoMove, [at |-> 0, values |-> call.values],
                      Narrow(Len(call.values)))
    PROVE  IInv'
<1> DEFINE pt == [at |-> 0, values |-> call.values]
<1>1. /\ Room \in Nat /\ call.values \in Seq(Value) /\ Len(call.values) \in Nat
      /\ Len(call.values) < Modulus /\ pt.at \in 0 .. Room
      /\ oldLen \in 0 .. Room /\ len < Modulus /\ Modulus \in Nat
      /\ oldLen \in Nat /\ len = oldLen
  BY CallInProgress, AtTheBeginning
<1>2. Container!InArray(call, Old)
  BY DEF Container!InArray
<1>3. Planned(oldLen, NoMove, pt, Len(call.values))
  BY <1>2 DEF Planned
<1>4. Fits(oldLen) /\ Len(call.values) \in -1 .. Modulus - 1
  BY <1>1 DEF Fits
<1>5. Resize(oldLen, NoMove, pt, Len(call.values))
  BY <1>1, NarrowKeeps DEF ResizeLast
<1> QED
  BY <1>1, <1>3, <1>4, <1>5, NoMoveIsMove, ResizeAsPlanned

LEMMA AssignCopyStep ==
    ASSUME IInv, AssignCopy
    PROVE  IInv'
  BY AssignsAsPlanned DEF AssignCopy, Begin

LEMMA AssignListStep ==
    ASSUME IInv, AssignList
    PROVE  IInv'
<1>1. pc = "begin" /\ call.op = "assign_list"
  BY DEF AssignList, Begin
<1>2. CASE ~Fits(Len(call.values)) /\ Fail
  <2>1. Container!InArray(call, Old)
    BY <1>1 DEF Container!InArray
  <2>2. Room \in Nat /\ Len(call.values) \in Nat
    BY <1>1, CallInProgress
  <2>3. PromisedLength = Len(call.values) /\ Len(call.values) > Room
    BY <1>1, <1>2, <2>2 DEF PromisedLength, Fits
  <2>4. HasReason
    BY <1>1, <2>1, <2>2, <2>3, TooLong
  <2> QED
    BY <1>1, <1>2, <2>4, FailsFirst
<1> QED
  BY <1>1, <1>2, AssignsAsPlanned DEF AssignList

-----------------------------------------------------------------------------
(* The loops of a call, and calling it.                                    *)

LEMMA InvokeStep ==
    ASSUME IInv, Invoke
    PROVE  IInv'
<1>1. /\ pc = "idle" /\ pc' = "begin"
      /\ mem' = mem /\ len' = len /\ move' = move /\ put' = put /\ final' = final
      /\ k' = k /\ taken' = taken /\ old' = old /\ oldLen' = oldLen
  BY DEF Invoke, buffer, loop
<1>2. /\ call' \in Container!Calls
      /\ Container!Sensible(call', Elements(mem, len))
      /\ Client = "not_to_end" => ~(call'.op = "erase_range" /\ call'.last = len)
  BY DEF Invoke, MayCall
<1>3. TypeOK /\ mem = old /\ len = oldLen /\ taken = 0
  BY <1>1 DEF IInv, Idle
<1>4. oldLen \in Nat /\ Room \in Nat
  BY <1>3, SizesAssumption DEF TypeOK
<1>5. Old' = Elements(mem, len)
  BY <1>1, <1>3 DEF Old, Elements
<1>6. TypeOK'
  BY <1>1, <1>2, <1>3 DEF TypeOK
<1>7. Called'
  BY <1>1, <1>2, <1>3, <1>5 DEF Called
<1>8. /\ call'.values \in Seq(Value) /\ Len(call'.values) \in Nat /\ call'.first \in Nat
  <2>1. call'.values \in Inputs /\ call'.first \in 0 .. MaxSize
    BY <1>2 DEF Container!Calls
  <2> QED
    BY <2>1, InputsAssumption, SizesAssumption, LenProperties
<1>9. Rounds'
  BY <1>1, <1>3, <1>8 DEF Rounds
<1>10. Base' = old
  <2>1. CASE call'.op = "insert_input"
    <3>1. old \in [1 .. Room -> Value]
      BY <1>3 DEF TypeOK
    <3>2. ASSUME NEW i \in 1 .. Room
          PROVE  /\ i - 0 = i
                 /\ i <= call'.first + 0 <=> i <= call'.first
      BY <1>4, <1>8
    <3>3. Inserted(taken)' = [i \in 1 .. Room |-> old[i]]
      BY <1>1, <1>3, <3>2 DEF Inserted, InsertedInto
    <3> QED
      BY <2>1, <3>1, <3>3 DEF Base
  <2>2. CASE call'.op # "insert_input"
    BY <1>1, <2>2 DEF Base
  <2> QED
    BY <2>1, <2>2
<1>11. Beginning'
  BY <1>1, <1>3, <1>4, <1>10 DEF Beginning
<1>12. Idle' /\ Moving' /\ Putting' /\ Failed'
  BY <1>1 DEF Idle, Moving, Putting, Failed
<1> QED
  BY <1>6, <1>7, <1>9, <1>11, <1>12 DEF IInv

\* The steps of a loop keep the plan.
LEMMA PlanKept ==
    ASSUME IInv, len' = len, call' = call, move' = move, put' = put, final' = final,
           taken' = taken, old' = old, oldLen' = oldLen
    PROVE  /\ Old' = Old /\ Base' = Base
           /\ Planned(len, move, put, final)' = Planned(len, move, put, final)
           /\ RightWay(move)' = RightWay(move)
           /\ Moved(Base, move, move.count)' = Moved(Base, move, move.count)
<1>1. Old' = Old
  BY DEF Old, Elements
<1>2. Base' = Base
  BY DEF Base, Inserted, InsertedInto
<1>3. Planned(len, move, put, final)' = Planned(len, move, put, final)
  BY <1>1 DEF Planned
<1>4. RightWay(move)' = RightWay(move)
  BY DEF RightWay
<1>5. Moved(Base, move, move.count)' = Moved(Base, move, move.count)
  BY <1>2 DEF Moved, IsMoved
<1> QED
  BY <1>1, <1>2, <1>3, <1>4, <1>5

LEMMA MoveElementStep ==
    ASSUME IInv, MoveElement
    PROVE  IInv'
<1>1. /\ pc = "move" /\ k < move.count /\ k' = k + 1
      /\ mem' = [mem EXCEPT ![move.to + MoveIndex] = mem[move.from + MoveIndex]]
      /\ pc' = pc /\ len' = len /\ call' = call /\ move' = move /\ put' = put
      /\ final' = final /\ taken' = taken /\ old' = old /\ oldLen' = oldLen
  BY DEF MoveElement
<1>2. /\ TypeOK /\ Called /\ Rounds
      /\ Planned(len, move, put, final) /\ RightWay(move)
      /\ mem = Moved(Base, move, k)
  BY <1>1 DEF IInv, Moving
<1>3. /\ Base \in [1 .. Room -> Value] /\ k \in Nat
      /\ move \in [from : 0 .. Room, to : 0 .. Room, count : 0 .. Room,
                   backward : BOOLEAN]
  BY <1>1, <1>2, BaseInRoom DEF TypeOK
<1>4. move.count \in Nat /\ k + 1 \in 0 .. move.count /\ k + 1 <= move.count
  BY <1>1, <1>3, SizesAssumption
<1>5. mem' = Moved(Base, move, k + 1)
  BY <1>1, <1>2, <1>3, MovesOne
<1>6. mem' \in [1 .. Room -> Value]
  BY <1>2, <1>3, <1>4, <1>5, MovedInRoom
<1>7. /\ Old' = Old /\ Base' = Base
      /\ Planned(len, move, put, final)' = Planned(len, move, put, final)
      /\ RightWay(move)' = RightWay(move)
  BY <1>1, PlanKept
<1>8. TypeOK'
  BY <1>1, <1>2, <1>3, <1>6 DEF TypeOK
<1>9. Called' /\ Rounds'
  BY <1>1, <1>2, <1>7 DEF Called, Rounds
<1>10. Moving'
  <2>1. Moved(Base, move, k)' = Moved(Base, move, k + 1)
    BY <1>1, <1>7 DEF Moved, IsMoved
  <2> QED
    BY <1>1, <1>2, <1>4, <1>5, <1>7, <2>1 DEF Moving
<1>11. Idle' /\ Beginning' /\ Putting' /\ Failed'
  BY <1>1 DEF Idle, Beginning, Putting, Failed
<1> QED
  BY <1>8, <1>9, <1>10, <1>11 DEF IInv

LEMMA MoveDoneStep ==
    ASSUME IInv, MoveDone
    PROVE  IInv'
<1>1. /\ pc = "move" /\ k = move.count /\ k' = 0 /\ pc' = "put"
      /\ mem' = mem /\ len' = len /\ call' = call /\ move' = move /\ put' = put
      /\ final' = final /\ taken' = taken /\ old' = old /\ oldLen' = oldLen
  BY DEF MoveDone, buffer
<1>2. /\ TypeOK /\ Called /\ Rounds
      /\ Planned(len, move, put, final) /\ RightWay(move)
      /\ mem = Moved(Base, move, move.count)
  BY <1>1 DEF IInv, Moving
<1>3. /\ Old' = Old /\ Base' = Base
      /\ Planned(len, move, put, final)' = Planned(len, move, put, final)
      /\ RightWay(move)' = RightWay(move)
      /\ Moved(Base, move, move.count)' = Moved(Base, move, move.count)
  BY <1>1, PlanKept
<1>4. mem \in [1 .. Room -> Value] /\ put.at \in Nat /\ Len(put.values) \in Nat
  BY <1>2, SizesAssumption, LenProperties DEF TypeOK
<1>5. mem = Written(Moved(Base, move, move.count), put, 0)
  BY <1>2, <1>4, NothingWritten
<1>6. TypeOK'
  BY <1>1, <1>2 DEF TypeOK
<1>7. Called' /\ Rounds'
  BY <1>1, <1>2, <1>3 DEF Called, Rounds
<1>8. Putting'
  <2>1. Written(Moved(Base, move, move.count), put, k)'
            = Written(Moved(Base, move, move.count), put, 0)
    BY <1>1, <1>3 DEF Written
  <2>2. k' <= Len(put'.values)
    BY <1>1, <1>4
  <2> QED
    BY <1>1, <1>2, <1>3, <1>5, <2>1, <2>2 DEF Putting
<1>9. Idle' /\ Beginning' /\ Moving' /\ Failed'
  BY <1>1 DEF Idle, Beginning, Moving, Failed
<1> QED
  BY <1>6, <1>7, <1>8, <1>9 DEF IInv

\* operator[] is used only for elements the array has been resized to have.
LEMMA AlwaysAsserted ==
    ASSUME IInv, pc = "put", k < Len(put.values)
    PROVE  Asserted(put.at + k + 1)
<1> SUFFICES ASSUME call.op \in {"resize", "push_back"}
             PROVE  put.at + k + 1 <= len
  BY DEF Asserted
<1>1. Planned(len, move, put, final) /\ k \in Nat
  BY DEF IInv, Putting, TypeOK
<1>2. /\ oldLen \in Nat /\ call.first \in Nat /\ call.values[1] \in Value
      /\ Len(call.values) = 1
  BY CallInProgress
<1>3. CASE call.op = "resize"
  <2>1. /\ len = call.first /\ put.at = oldLen
        /\ put.values = Container!Copies(call.first - oldLen, call.values[1])
    BY <1>1, <1>3 DEF Planned
  <2>2. call.first - oldLen \in Int
    BY <1>2
  <2>3. Len(put.values) = IF call.first - oldLen > 0 THEN call.first - oldLen ELSE 0
    BY <1>2, <2>1, <2>2, CopiesAreContent
  <2> QED
    BY <1>1, <1>2, <2>1, <2>3
<1>4. CASE call.op = "push_back"
  <2>1. len = oldLen + 1 /\ put.at = oldLen /\ put.values = call.values
    BY <1>1, <1>4 DEF Planned
  <2>2. k = 0
    <3>1. Len(put.values) = 1 /\ k \in Nat
      BY <1>1, <1>2, <1>4, <2>1
    <3> QED
      BY <3>1
  <2>3. oldLen + 0 + 1 = oldLen + 1 /\ oldLen + 1 <= oldLen + 1
    BY <1>2
  <2> QED
    BY <2>1, <2>2, <2>3
<1> QED
  BY <1>3, <1>4

LEMMA PutValueStep ==
    ASSUME IInv, PutValue
    PROVE  IInv'
<1> DEFINE i == put.at + k + 1
<1>1. /\ pc = "put" /\ k < Len(put.values) /\ Asserted(i)
      /\ mem' = IF i \in 1 .. Room
                THEN [mem EXCEPT ![i] = put.values[k + 1]] ELSE mem
      /\ k' = k + 1
      /\ pc' = pc /\ len' = len /\ call' = call /\ move' = move /\ put' = put
      /\ final' = final /\ taken' = taken /\ old' = old /\ oldLen' = oldLen
  BY AlwaysAsserted DEF PutValue
<1>2. /\ TypeOK /\ Called /\ Rounds
      /\ Planned(len, move, put, final) /\ RightWay(move)
      /\ mem = Written(Moved(Base, move, move.count), put, k)
  BY <1>1 DEF IInv, Putting
<1>3. /\ Base \in [1 .. Room -> Value] /\ k \in Nat /\ put.at \in Nat
      /\ put.values \in Seq(Value) /\ Len(put.values) \in Nat
      /\ move \in [from : 0 .. Room, to : 0 .. Room, count : 0 .. Room,
                   backward : BOOLEAN]
      /\ mem \in [1 .. Room -> Value]
  BY <1>1, <1>2, BaseInRoom, SizesAssumption, LenProperties DEF TypeOK
<1>4. Moved(Base, move, move.count) \in [1 .. Room -> Value]
  <2>1. move.count \in 0 .. move.count
    BY <1>3, SizesAssumption
  <2> QED
    BY <1>2, <1>3, <2>1, MovedInRoom
<1>5. mem' = Written(Moved(Base, move, move.count), put, k + 1)
  BY <1>1, <1>2, <1>3, <1>4, WritesOne
<1>6. k + 1 \in 1 .. Len(put.values) /\ k + 1 <= Len(put.values)
  BY <1>1, <1>3
<1>7. put.values[k + 1] \in Value
  BY <1>3, <1>6, ElementOfSeq
<1>8. mem' \in [1 .. Room -> Value]
  BY <1>1, <1>3, <1>7
<1>9. /\ Old' = Old /\ Base' = Base
      /\ Planned(len, move, put, final)' = Planned(len, move, put, final)
      /\ RightWay(move)' = RightWay(move)
      /\ Moved(Base, move, move.count)' = Moved(Base, move, move.count)
  BY <1>1, PlanKept
<1>10. TypeOK'
  BY <1>1, <1>2, <1>3, <1>8 DEF TypeOK
<1>11. Called' /\ Rounds'
  BY <1>1, <1>2, <1>9 DEF Called, Rounds
<1>12. Putting'
  <2>1. Written(Moved(Base, move, move.count), put, k)'
            = Written(Moved(Base, move, move.count), put, k + 1)
    BY <1>1, <1>9 DEF Written
  <2> QED
    BY <1>1, <1>2, <1>5, <1>6, <1>9, <2>1 DEF Putting
<1>13. Idle' /\ Beginning' /\ Moving' /\ Failed'
  BY <1>1 DEF Idle, Beginning, Moving, Failed
<1> QED
  BY <1>10, <1>11, <1>12, <1>13 DEF IInv

-----------------------------------------------------------------------------
(* What the array contains when a call returns.                            *)

\* Fewer elements.
LEMMA Shortened ==
    ASSUME NEW b \in [1 .. Room -> Value], NEW c \in 0 .. Room, NEW n \in 0 .. c
    PROVE  Elements(b, n) = Container!Spliced(Elements(b, c), n, c, <<>>)
<1>1. /\ Elements(b, c) \in Seq(Value) /\ Len(Elements(b, c)) = c
      /\ \A i \in 1 .. c : Elements(b, c)[i] = b[i]
      /\ c \in Nat /\ n \in Nat /\ n <= c
  BY ElementsAreContent, SizesAssumption
<1>2. <<>> \in Seq(Value) /\ Len(<<>>) = 0
  OBVIOUS
<1>3. c \in n .. c /\ n \in 0 .. c /\ c - (c - n) + 0 = n
  BY <1>1
<1>4. Container!Spliced(Elements(b, c), n, c, <<>>) =
          [x \in 1 .. n |-> IF x <= n THEN Elements(b, c)[x]
                            ELSE IF x <= n + 0 THEN <<>>[x - n]
                            ELSE Elements(b, c)[x - 0 + (c - n)]]
  BY <1>1, <1>2, <1>3 DEF Container!Spliced
<1>5. \A x \in 1 .. n : x <= n /\ x \in 1 .. c
  BY <1>1
<1>6. Container!Spliced(Elements(b, c), n, c, <<>>) = [x \in 1 .. n |-> b[x]]
  BY <1>1, <1>4, <1>5
<1> QED
  BY <1>6 DEF Elements

\* More elements, written behind the last one.
LEMMA Extended ==
    ASSUME NEW b \in [1 .. Room -> Value], NEW c \in 0 .. Room, NEW t \in Seq(Value),
           c + Len(t) <= Room
    PROVE  LET m == Written(b, [at |-> c, values |-> t], Len(t))
           IN  /\ Elements(m, c + Len(t)) =
                      Container!Spliced(Elements(b, c), c, c, t)
               /\ \A i \in 1 .. Room : i > c + Len(t) => m[i] = b[i]
<1> DEFINE m == Written(b, [at |-> c, values |-> t], Len(t))
           s == Elements(b, c)
<1> PICK v \in Nat : v = Len(t)
  BY LenProperties
<1>1. /\ s \in Seq(Value) /\ Len(s) = c /\ \A i \in 1 .. c : s[i] = b[i]
      /\ c \in Nat /\ Room \in Nat
  BY ElementsAreContent, SizesAssumption
<1>2. c - (c - c) + v = c + v
  BY <1>1
<1>3. m = [i \in 1 .. Room |-> IF c < i /\ i <= c + v THEN t[i - c] ELSE b[i]]
  BY DEF Written
<1>4. Container!Spliced(s, c, c, t) =
          [x \in 1 .. c + v |-> IF x <= c THEN s[x]
                                ELSE IF x <= c + v THEN t[x - c]
                                ELSE s[x - v + (c - c)]]
  BY <1>1, <1>2 DEF Container!Spliced
<1> HIDE DEF m, s
<1>5. ASSUME NEW x \in 1 .. c + v
      PROVE  m[x] = IF x <= c THEN s[x]
                    ELSE IF x <= c + v THEN t[x - c]
                    ELSE s[x - v + (c - c)]
  <2>1. x \in 1 .. Room
    BY <1>1
  <2>2. CASE x <= c
    BY <1>1, <1>3, <2>1, <2>2
  <2>3. CASE ~(x <= c)
    BY <1>1, <1>3, <2>1, <2>3
  <2> QED
    BY <2>2, <2>3
<1>6. Elements(m, c + v) = Container!Spliced(s, c, c, t)
  BY <1>4, <1>5 DEF Elements
<1>7. \A i \in 1 .. Room : i > c + v => m[i] = b[i]
  BY <1>1, <1>3
<1> QED
  BY <1>6, <1>7 DEF m, s

\* All elements replaced.
LEMMA Replaced ==
    ASSUME NEW b \in [1 .. Room -> Value], NEW t \in Seq(Value), Len(t) <= Room
    PROVE  LET m == Written(b, [at |-> 0, values |-> t], Len(t))
           IN  /\ Elements(m, Len(t)) = t
               /\ \A i \in 1 .. Room : i > Len(t) => m[i] = b[i]
<1> DEFINE m == Written(b, [at |-> 0, values |-> t], Len(t))
<1> PICK v \in Nat : v = Len(t)
  BY LenProperties
<1>1. m = [i \in 1 .. Room |-> IF 0 < i /\ i <= 0 + v THEN t[i - 0] ELSE b[i]]
  BY DEF Written
<1>2. Room \in Nat /\ t = [i \in 1 .. v |-> t[i]]
  BY SizesAssumption, LenProperties
<1> HIDE DEF m
<1>3. ASSUME NEW x \in 1 .. v
      PROVE  m[x] = t[x]
  <2>1. x \in 1 .. Room /\ x - 0 = x /\ 0 < x /\ x <= 0 + v
    BY <1>2
  <2> QED
    BY <1>1, <2>1
<1>4. Elements(m, v) = t
  BY <1>2, <1>3 DEF Elements
<1>5. \A i \in 1 .. Room : i > v => m[i] = b[i]
  BY <1>1, <1>2
<1> QED
  BY <1>4, <1>5 DEF m

\* The elements between first and last gone.
LEMMA Erased ==
    ASSUME NEW b \in [1 .. Room -> Value], NEW c \in 0 .. Room,
           NEW last \in 0 .. c, NEW first \in 0 .. last
    PROVE  LET mv == [from |-> last, to |-> first, count |-> c - last,
                      backward |-> FALSE]
               m  == Moved(b, mv, mv.count)
           IN  /\ Elements(m, c - (last - first)) =
                      Container!Spliced(Elements(b, c), first, last, <<>>)
               /\ \A i \in 1 .. Room : i > c => m[i] = b[i]
<1> DEFINE mv == [from |-> last, to |-> first, count |-> c - last, backward |-> FALSE]
           m  == Moved(b, mv, mv.count)
           s  == Elements(b, c)
           n  == c - (last - first)
<1>1. /\ s \in Seq(Value) /\ Len(s) = c /\ \A i \in 1 .. c : s[i] = b[i]
      /\ c \in Nat /\ Room \in Nat /\ last \in Nat /\ first \in Nat
      /\ first <= last /\ last <= c /\ c <= Room
  BY ElementsAreContent, SizesAssumption
<1>2. m = [i \in 1 .. Room |->
              IF first < i /\ i <= first + (c - last) THEN b[i - first + last] ELSE b[i]]
  BY DEF Moved, IsMoved
<1>3. n \in Nat /\ c - (last - first) + 0 = n
  BY <1>1
<1>4. Container!Spliced(s, first, last, <<>>) =
          [x \in 1 .. n |-> IF x <= first THEN s[x]
                            ELSE IF x <= first + 0 THEN <<>>[x - first]
                            ELSE s[x - 0 + (last - first)]]
  <2>1. Len(<<>>) = 0
    OBVIOUS
  <2> QED
    BY <1>1, <1>3, <2>1 DEF Container!Spliced
<1> HIDE DEF m, s
<1>5. ASSUME NEW x \in 1 .. n
      PROVE  m[x] = IF x <= first THEN s[x]
                    ELSE IF x <= first + 0 THEN <<>>[x - first]
                    ELSE s[x - 0 + (last - first)]
  <2>1. x \in 1 .. Room /\ x <= first + (c - last)
    BY <1>1, <1>3
  <2>2. CASE x <= first
    <3>1. x \in 1 .. c /\ ~(first < x)
      BY <1>1, <1>3, <2>2
    <3> QED
      BY <1>1, <1>2, <2>1, <2>2, <3>1
  <2>3. CASE ~(x <= first)
    <3>1. /\ x - first + last \in 1 .. c /\ first < x /\ ~(x <= first + 0)
          /\ x - 0 + (last - first) = x - first + last
      BY <1>1, <1>3, <2>3, <2>1
    <3> QED
      BY <1>1, <1>2, <2>1, <2>3, <3>1
  <2> QED
    BY <2>2, <2>3
<1>6. Elements(m, n) = Container!Spliced(s, first, last, <<>>)
  BY <1>4, <1>5 DEF Elements
<1>7. \A i \in 1 .. Room : i > c => m[i] = b[i]
  <2>1. ASSUME NEW i \in 1 .. Room, i > c
        PROVE  ~(i <= first + (c - last))
    BY <1>1, <2>1
  <2> QED
    BY <1>2, <2>1
<1> QED
  BY <1>6, <1>7 DEF m, s

\* All values of a call inserted.
LEMMA InsertedAll ==
    ASSUME NEW b \in [1 .. Room -> Value], NEW c \in 0 .. Room,
           NEW f \in 0 .. c, NEW w \in Seq(Value), c + Len(w) <= Room
    PROVE  LET m == InsertedInto(b, c, f, w, Len(w))
           IN  /\ Elements(m, c + Len(w)) =
                      Container!Spliced(Elements(b, c), f, f, w)
               /\ \A i \in 1 .. Room : i > c + Len(w) => m[i] = b[i]
<1> DEFINE m == InsertedInto(b, c, f, w, Len(w))
           s == Elements(b, c)
<1> PICK v \in Nat : v = Len(w)
  BY LenProperties
<1>1. /\ s \in Seq(Value) /\ Len(s) = c /\ \A i \in 1 .. c : s[i] = b[i]
      /\ c \in Nat /\ Room \in Nat /\ f \in Nat /\ f <= c /\ c + v <= Room
  BY ElementsAreContent, SizesAssumption
<1>2. m = [i \in 1 .. Room |->
              IF i <= f THEN b[i]
              ELSE IF i <= f + v THEN w[i - f]
              ELSE IF i <= c + v THEN b[i - v]
              ELSE b[i]]
  BY DEF InsertedInto
<1>3. c - (f - f) + v = c + v
  BY <1>1
<1>4. Container!Spliced(s, f, f, w) =
          [x \in 1 .. c + v |-> IF x <= f THEN s[x]
                                ELSE IF x <= f + v THEN w[x - f]
                                ELSE s[x - v + (f - f)]]
  BY <1>1, <1>3 DEF Container!Spliced
<1> HIDE DEF s, m
<1>5. ASSUME NEW x \in 1 .. c + v
      PROVE  m[x] = IF x <= f THEN s[x]
                    ELSE IF x <= f + v THEN w[x - f]
                    ELSE s[x - v + (f - f)]
  <2>1. x \in 1 .. Room /\ x <= c + v
    BY <1>1
  <2>2. CASE x <= f
    <3>1. x \in 1 .. c
      BY <1>1, <2>2
    <3> QED
      BY <1>1, <1>2, <2>1, <2>2, <3>1
  <2>3. CASE ~(x <= f) /\ x <= f + v
    BY <1>2, <2>1, <2>3
  <2>4. CASE ~(x <= f) /\ ~(x <= f + v)
    <3>1. x - v \in 1 .. c /\ x - v + (f - f) = x - v
      BY <1>1, <2>1, <2>4
    <3> QED
      BY <1>1, <1>2, <2>1, <2>4, <3>1
  <2> QED
    BY <2>2, <2>3, <2>4
<1>6. Elements(m, c + v) = Container!Spliced(s, f, f, w)
  BY <1>4, <1>5 DEF Elements
<1>7. ASSUME NEW i \in 1 .. Room, i > c + v
      PROVE  m[i] = b[i]
  <2>1. ~(i <= f) /\ ~(i <= f + v) /\ ~(i <= c + v)
    BY <1>1, <1>7
  <2> QED
    BY <1>2, <2>1
<1> QED
  BY <1>6, <1>7 DEF s, m

\* One round: the elements behind the position are moved to the back, and
\* values written to the gap.
IsRound(c, f, w, t, v, values, mv, pt) ==
    /\ c \in 0 .. Room /\ f \in 0 .. c /\ t \in Nat /\ v \in Nat /\ c + t + v <= Room
    /\ \A x \in 1 .. v : values[x] = w[t + x]
    /\ mv = [from |-> f + t, to |-> f + t + v, count |-> c - f, backward |-> TRUE]
    /\ pt = [at |-> f + t, values |-> values]

LEMMA InsertsMore ==
    ASSUME NEW old0, NEW c, NEW f, NEW w, NEW t, NEW v, NEW values, NEW mv, NEW pt,
           IsRound(c, f, w, t, v, values, mv, pt)
    PROVE  Written(Moved(InsertedInto(old0, c, f, w, t), mv, mv.count), pt, v)
               = InsertedInto(old0, c, f, w, t + v)
<1> SUFFICES ASSUME c \in 0 .. Room, f \in 0 .. c, t \in Nat, v \in Nat, c + t + v <= Room,
                    \A x \in 1 .. v : values[x] = w[t + x],
                    mv = [from |-> f + t, to |-> f + t + v, count |-> c - f,
                          backward |-> TRUE],
                    pt = [at |-> f + t, values |-> values]
             PROVE  Written(Moved(InsertedInto(old0, c, f, w, t), mv, mv.count), pt, v)
                        = InsertedInto(old0, c, f, w, t + v)
  BY DEF IsRound
<1> DEFINE b   == InsertedInto(old0, c, f, w, t)
           all == InsertedInto(old0, c, f, w, t + v)
           gap == f + t
           m   == Written(Moved(b, mv, mv.count), pt, v)
<1>1. c \in Nat /\ Room \in Nat /\ f \in Nat /\ f <= c
  BY SizesAssumption
<1>2. b = [i \in 1 .. Room |->
              IF i <= f THEN old0[i]
              ELSE IF i <= f + t THEN w[i - f]
              ELSE IF i <= c + t THEN old0[i - t]
              ELSE old0[i]]
  BY DEF InsertedInto
<1>3. all = [i \in 1 .. Room |->
              IF i <= f THEN old0[i]
              ELSE IF i <= f + (t + v) THEN w[i - f]
              ELSE IF i <= c + (t + v) THEN old0[i - (t + v)]
              ELSE old0[i]]
  BY DEF InsertedInto
<1>4. (gap + v) + (c - f) - (c - f) = gap + v /\ (gap + v) + (c - f) = c + t + v
  BY <1>1
<1> HIDE DEF b, all
<1>5. m = [i \in 1 .. Room |->
              IF gap < i /\ i <= gap + v THEN values[i - gap]
              ELSE IF gap + v < i /\ i <= c + t + v THEN b[i - (gap + v) + gap]
              ELSE b[i]]
  BY <1>4 DEF Written, Moved, IsMoved
<1> HIDE DEF m
<1>6. ASSUME NEW i \in 1 .. Room
      PROVE  m[i] = all[i]
  <2>1. CASE i <= f + t
    <3>1. ~(gap < i) /\ ~(gap + v < i) /\ i <= f + (t + v)
      BY <1>1, <2>1
    <3>2. m[i] = b[i]
      BY <1>5, <3>1
    <3> QED
      BY <1>2, <1>3, <2>1, <3>1, <3>2
  <2>2. CASE f + t < i /\ i <= f + t + v
    <3>1. /\ i - gap \in 1 .. v /\ t + (i - gap) = i - f
          /\ ~(i <= f) /\ i <= f + (t + v) /\ gap < i /\ i <= gap + v
      BY <1>1, <2>2
    <3>2. m[i] = values[i - gap] /\ all[i] = w[i - f]
      BY <1>3, <1>5, <3>1
    <3> QED
      BY <3>1, <3>2
  <2>3. CASE f + t + v < i /\ i <= c + t + v
    <3>1. /\ ~(i <= gap + v) /\ gap + v < i
          /\ i - (gap + v) + gap = i - v /\ i - v \in 1 .. Room
          /\ ~(i - v <= f) /\ ~(i - v <= f + t) /\ i - v <= c + t
          /\ (i - v) - t = i - (t + v)
          /\ ~(i <= f) /\ ~(i <= f + (t + v)) /\ i <= c + (t + v)
      BY <1>1, <2>3
    <3>2. m[i] = b[i - v] /\ all[i] = old0[i - (t + v)]
      BY <1>3, <1>5, <2>3, <3>1
    <3>3. b[i - v] = old0[(i - v) - t]
      BY <1>2, <3>1
    <3> QED
      BY <3>1, <3>2, <3>3
  <2>4. CASE c + t + v < i
    <3>1. /\ ~(i <= gap + v) /\ ~(i <= c + t + v) /\ ~(i <= f) /\ ~(i <= f + t)
          /\ ~(i <= c + t) /\ ~(i <= f + (t + v)) /\ ~(i <= c + (t + v))
      BY <1>1, <2>4
    <3>2. m[i] = b[i] /\ all[i] = old0[i]
      BY <1>3, <1>5, <3>1
    <3> QED
      BY <1>2, <3>1, <3>2
  <2> QED
    BY <1>1, <2>1, <2>2, <2>3, <2>4
<1>7. m = [i \in 1 .. Room |-> m[i]] /\ all = [i \in 1 .. Room |-> all[i]]
  BY <1>3, <1>5
<1>8. m = all
  BY <1>6, <1>7
<1> QED
  BY <1>8 DEF m, all, b

-----------------------------------------------------------------------------
(* The end of a call.                                                      *)

LEMMA AtTheEnd ==
    ASSUME IInv, PutDone
    PROVE  /\ pc = "put" /\ pc # "idle"
           /\ Planned(len, move, put, final) /\ Container!InArray(call, Old)
           /\ put.values \in Seq(Value) /\ Len(put.values) \in Nat
           /\ final \in -1 .. Modulus - 1 /\ final \in Int
           /\ Base \in [1 .. Room -> Value]
           /\ mem = Written(Moved(Base, move, move.count), put, Len(put.values))
           /\ call.op # "insert_input" => Base = old /\ taken = 0
           /\ call.op = "insert_input" =>
                  Base = Inserted(taken) /\ taken <= Len(call.values)
<1>1. pc = "put" /\ k = Len(put.values)
  BY DEF PutDone
<1>2. /\ Planned(len, move, put, final)
      /\ mem = Written(Moved(Base, move, move.count), put, k)
  BY <1>1 DEF IInv, Putting
<1>3. Container!InArray(call, Old)
  BY <1>2 DEF Planned
<1>4. put.values \in Seq(Value) /\ Len(put.values) \in Nat
  BY LenProperties DEF IInv, TypeOK
<1>5. final \in -1 .. Modulus - 1 /\ final \in Int
  BY SizesAssumption DEF IInv, TypeOK
<1>6. Base \in [1 .. Room -> Value]
  BY <1>1, BaseInRoom
<1>7. /\ call.op # "insert_input" => Base = old /\ taken = 0
      /\ call.op = "insert_input" =>
             Base = Inserted(taken) /\ taken <= Len(call.values)
  BY <1>1 DEF IInv, Rounds, Base
<1> QED
  BY <1>1, <1>2, <1>3, <1>4, <1>5, <1>6, <1>7

\* An operation that moves no elements.
LEMMA WrittenOnly ==
    ASSUME IInv, PutDone, move = NoMove, call.op # "insert_input"
    PROVE  /\ mem = Written(old, put, Len(put.values))
           /\ put = NoPut => mem = old
<1>1. /\ mem = Written(Moved(Base, move, move.count), put, Len(put.values))
      /\ Base = old /\ Base \in [1 .. Room -> Value]
  BY AtTheEnd
<1>2. Moved(old, NoMove, NoMove.count) = old
  BY <1>1, NothingMoved
<1>3. mem = Written(old, put, Len(put.values))
  BY <1>1, <1>2
<1>4. ASSUME put = NoPut
      PROVE  mem = old
  <2>1. put.at \in Nat /\ Len(put.values) = 0
    BY <1>4 DEF NoPut
  <2>2. Written(old, put, 0) = old
    BY <1>1, <2>1, NothingWritten
  <2> QED
    BY <1>3, <2>1, <2>2
<1> QED
  BY <1>3, <1>4

\* A call may leave the first n elements in the memory.
MayLeave(n) ==
    /\ Elements(mem, n) \in Container!Promised(call, Old)
    /\ \A i \in 1 .. Room : i > oldLen /\ i > n => mem[i] = old[i]

LEMMA ResizeLeaves ==
    ASSUME IInv, PutDone, call.op = "resize"
    PROVE  final = -1 /\ MayLeave(len)
<1> DEFINE t == Container!Copies(call.first - oldLen, call.values[1])
<1>1. /\ oldLen \in 0 .. Room /\ oldLen \in Nat /\ Room \in Nat
      /\ old \in [1 .. Room -> Value] /\ len \in 0 .. Room
      /\ call.first \in Nat /\ call.values[1] \in Value
      /\ Len(Old) = oldLen
  BY AtTheEnd, CallInProgress
<1>2. /\ len = call.first /\ move = NoMove /\ final = -1
      /\ put = [at |-> oldLen, values |-> t]
  BY AtTheEnd DEF Planned
<1>3. mem = Written(old, put, Len(t))
  BY <1>2, WrittenOnly
<1>4. Container!Promised(call, Old) = {Container!Resized(Old, len, t)}
  BY <1>1, <1>2 DEF Container!Promised
<1>5. t \in Seq(Value) /\ Len(t) = IF len > oldLen THEN len - oldLen ELSE 0
  <2>1. call.first - oldLen \in Int
    BY <1>1
  <2>2. /\ t \in Seq(Value)
        /\ Len(t) = IF call.first - oldLen > 0 THEN call.first - oldLen ELSE 0
    BY <1>1, <2>1, CopiesAreContent
  <2> QED
    BY <1>1, <1>2, <2>2
<1> HIDE DEF t
<1>6. CASE len <= oldLen
  <2>1. Len(t) = 0 /\ put.at \in Nat /\ len \in 0 .. oldLen
    BY <1>1, <1>2, <1>5, <1>6
  <2>2. mem = old
    BY <1>1, <1>3, <2>1, NothingWritten
  <2>3. Container!Resized(Old, len, t) = Container!Spliced(Old, len, oldLen, <<>>)
    BY <1>1, <1>6 DEF Container!Resized
  <2>4. Elements(old, len) = Container!Spliced(Old, len, oldLen, <<>>)
    BY <1>1, <2>1, Shortened DEF Old
  <2> QED
    BY <1>2, <1>4, <2>2, <2>3, <2>4 DEF MayLeave
<1>7. CASE len > oldLen
  <2>1. oldLen + Len(t) = len /\ oldLen + Len(t) <= Room
    BY <1>1, <1>5, <1>7
  <2>2. /\ Elements(mem, len) = Container!Spliced(Old, oldLen, oldLen, t)
        /\ \A i \in 1 .. Room : i > len => mem[i] = old[i]
    BY <1>1, <1>2, <1>3, <1>5, <2>1, Extended DEF Old
  <2>3. Container!Resized(Old, len, t) = Container!Spliced(Old, oldLen, oldLen, t)
    BY <1>1, <1>7 DEF Container!Resized
  <2> QED
    BY <1>2, <1>4, <2>2, <2>3 DEF MayLeave
<1> QED
  BY <1>1, <1>6, <1>7

LEMMA ResizeDefaultLeaves ==
    ASSUME IInv, PutDone, call.op = "resize_default"
    PROVE  final = -1 /\ MayLeave(len)
<1>1. /\ oldLen \in 0 .. Room /\ oldLen \in Nat /\ Room \in Nat
      /\ old \in [1 .. Room -> Value] /\ len \in 0 .. Room
      /\ call.first \in Nat /\ Len(Old) = oldLen
  BY AtTheEnd, CallInProgress
<1>2. len = call.first /\ move = NoMove /\ final = -1 /\ put = NoPut
  BY AtTheEnd DEF Planned
<1>3. mem = old
  BY <1>2, WrittenOnly
<1>4. Container!Promised(call, Old) =
          {Container!Resized(Old, len, t) : t \in [1 .. len - oldLen -> Value]}
  BY <1>1, <1>2 DEF Container!Promised
<1> DEFINE t == [i \in 1 .. len - oldLen |-> old[oldLen + i]]
<1>5. t \in [1 .. len - oldLen -> Value]
  <2>1. ASSUME NEW i \in 1 .. len - oldLen
        PROVE  oldLen + i \in 1 .. Room
    BY <1>1
  <2> QED
    BY <1>1, <2>1
<1>6. Container!Resized(Old, len, t) \in Container!Promised(call, Old)
  BY <1>4, <1>5
<1>7. CASE len <= oldLen
  <2>1. len \in 0 .. oldLen
    BY <1>1, <1>7
  <2>2. Container!Resized(Old, len, t) = Container!Spliced(Old, len, oldLen, <<>>)
    BY <1>1, <1>7 DEF Container!Resized
  <2>3. Elements(old, len) = Container!Spliced(Old, len, oldLen, <<>>)
    BY <1>1, <2>1, Shortened DEF Old
  <2> QED
    BY <1>2, <1>3, <1>6, <2>2, <2>3 DEF MayLeave
<1>8. CASE len > oldLen
  <2>1. PICK d \in Nat : d = len - oldLen
    BY <1>1, <1>8
  <2>2. t \in Seq(Value) /\ Len(t) = d /\ oldLen + d = len /\ oldLen + d <= Room
    BY <1>1, <1>5, <2>1
  <2>3. Written(old, [at |-> oldLen, values |-> t], d) = old
    <3> DEFINE pt == [at |-> oldLen, values |-> t]
    <3>1. ASSUME NEW i \in 1 .. Room, oldLen < i, i <= oldLen + d
          PROVE  pt.values[i - oldLen] = old[i]
      <4>1. i - oldLen \in 1 .. len - oldLen /\ oldLen + (i - oldLen) = i
        BY <1>1, <2>1, <3>1
      <4> QED
        BY <4>1
    <3>2. pt.at = oldLen
      OBVIOUS
    <3> HIDE DEF pt
    <3>3. Written(old, pt, d) = [i \in 1 .. Room |-> old[i]]
      BY <3>1, <3>2 DEF Written
    <3> QED
      BY <1>1, <3>3 DEF pt
  <2> HIDE DEF t
  <2>4. Elements(old, len) = Container!Spliced(Old, oldLen, oldLen, t)
    BY <1>1, <2>2, <2>3, Extended DEF Old
  <2>5. Container!Resized(Old, len, t) = Container!Spliced(Old, oldLen, oldLen, t)
    BY <1>1, <1>8 DEF Container!Resized
  <2> QED
    BY <1>2, <1>3, <1>6, <2>4, <2>5 DEF MayLeave
<1> QED
  BY <1>1, <1>7, <1>8

LEMMA PushBackLeaves ==
    ASSUME IInv, PutDone, call.op = "push_back"
    PROVE  final = -1 /\ MayLeave(len)
<1>1. /\ oldLen \in 0 .. Room /\ oldLen \in Nat /\ Room \in Nat
      /\ old \in [1 .. Room -> Value] /\ len \in 0 .. Room
      /\ call.values \in Seq(Value) /\ Len(call.values) = 1
      /\ Len(Old) = oldLen
  BY AtTheEnd, CallInProgress
<1>2. /\ len = oldLen + 1 /\ move = NoMove /\ final = -1
      /\ put = [at |-> oldLen, values |-> call.values]
  BY AtTheEnd DEF Planned
<1>3. mem = Written(old, put, Len(call.values))
  BY <1>2, WrittenOnly
<1>4. Container!Promised(call, Old) =
          {Container!Spliced(Old, oldLen, oldLen, call.values)}
  BY <1>1 DEF Container!Promised
<1>5. oldLen + Len(call.values) = len /\ len <= Room
  BY <1>1, <1>2
<1>6. /\ Elements(mem, len) = Container!Spliced(Old, oldLen, oldLen, call.values)
      /\ \A i \in 1 .. Room : i > len => mem[i] = old[i]
  BY <1>1, <1>2, <1>3, <1>5, Extended DEF Old
<1> QED
  BY <1>2, <1>4, <1>6 DEF MayLeave

LEMMA PopBackLeaves ==
    ASSUME IInv, PutDone, call.op = "pop_back"
    PROVE  final = -1 /\ MayLeave(len)
<1>1. /\ oldLen \in 0 .. Room /\ oldLen \in Nat /\ len \in 0 .. Room /\ Room \in Nat
      /\ old \in [1 .. Room -> Value] /\ Len(Old) = oldLen
  BY AtTheEnd, CallInProgress
<1>2. len = oldLen - 1 /\ move = NoMove /\ final = -1 /\ put = NoPut
  BY AtTheEnd DEF Planned
<1>3. mem = old
  BY <1>2, WrittenOnly
<1>4. Container!Promised(call, Old) = {Container!Spliced(Old, len, oldLen, <<>>)}
  BY <1>1, <1>2 DEF Container!Promised
<1>5. len \in 0 .. oldLen
  BY <1>1, <1>2
<1>6. Elements(old, len) = Container!Spliced(Old, len, oldLen, <<>>)
  BY <1>1, <1>5, Shortened DEF Old
<1> QED
  BY <1>2, <1>3, <1>4, <1>6 DEF MayLeave

LEMMA EraseLeaves ==
    ASSUME IInv, PutDone, call.op \in {"erase", "erase_range"}
    PROVE  final \in 0 .. oldLen /\ MayLeave(final)
<1> DEFINE last == IF call.op = "erase" THEN call.first + 1 ELSE call.last
           mv   == [from |-> last, to |-> call.first,
                    count |-> oldLen - last, backward |-> FALSE]
<1>1. /\ oldLen \in 0 .. Room /\ oldLen \in Nat /\ Room \in Nat
      /\ old \in [1 .. Room -> Value] /\ Len(Old) = oldLen
      /\ call.first \in Nat /\ call.last \in Nat
  BY AtTheEnd, CallInProgress
<1>2. /\ len = oldLen /\ put = NoPut /\ final = oldLen - (last - call.first)
      /\ move = mv /\ call.first <= last /\ last <= oldLen
  BY AtTheEnd DEF Planned
<1>3. last \in 0 .. oldLen /\ call.first \in 0 .. last /\ last \in Nat
  BY <1>1, <1>2
<1>4. Container!Promised(call, Old) = {Container!Spliced(Old, call.first, last, <<>>)}
  <2>1. CASE call.op = "erase"
    BY <2>1 DEF Container!Promised
  <2>2. CASE call.op = "erase_range"
    BY <2>2 DEF Container!Promised
  <2> QED
    BY <2>1, <2>2
<1> HIDE DEF last
<1>5. mem = Moved(old, mv, mv.count)
  <2>1. /\ mem = Written(Moved(Base, move, move.count), put, Len(put.values))
        /\ Base = old
    BY AtTheEnd
  <2>2. Moved(old, move, move.count) \in [1 .. Room -> Value]
    <3>1. /\ RightWay(move) /\ move \in [from : 0 .. Room, to : 0 .. Room,
                                         count : 0 .. Room, backward : BOOLEAN]
      BY AtTheEnd DEF IInv, Putting, TypeOK
    <3>2. move.count \in 0 .. move.count
      BY <1>1, <3>1
    <3> QED
      BY <1>1, <3>1, <3>2, MovedInRoom
  <2>3. put.at \in Nat /\ Len(put.values) = 0
    BY <1>2 DEF NoPut
  <2>4. Written(Moved(old, move, move.count), put, 0) = Moved(old, move, move.count)
    BY <2>2, <2>3, NothingWritten
  <2> QED
    BY <1>2, <2>1, <2>3, <2>4
<1>6. /\ Elements(mem, final) = Container!Spliced(Old, call.first, last, <<>>)
      /\ \A i \in 1 .. Room : i > oldLen => mem[i] = old[i]
  BY <1>1, <1>2, <1>3, <1>5, Erased DEF Old
<1>7. final \in 0 .. oldLen
  BY <1>1, <1>2, <1>3
<1> QED
  BY <1>4, <1>6, <1>7 DEF MayLeave

LEMMA RoundWritten ==
    ASSUME NEW v, NEW values, NEW mv, NEW pt,
           IsRound(oldLen, call.first, call.values, taken, v, values, mv, pt)
    PROVE  Written(Moved(Inserted(taken), mv, mv.count), pt, v) = Inserted(taken + v)
<1>1. Written(Moved(InsertedInto(old, oldLen, call.first, call.values, taken),
                    mv, mv.count), pt, v)
          = InsertedInto(old, oldLen, call.first, call.values, taken + v)
  BY InsertsMore
<1> QED
  BY <1>1 DEF Inserted

\* A round of an insertion has inserted its values behind the earlier ones.
LEMMA RoundInserted ==
    ASSUME IInv, PutDone, call.op \in {"insert", "insert_input"},
           call.op = "insert_input" => taken < Len(call.values),
           NEW v \in Nat, v = IF call.op = "insert" THEN Len(call.values) ELSE 1
    PROVE  /\ final = -1 /\ call.first <= oldLen
           /\ len = oldLen + taken + v /\ taken + v <= Len(call.values)
           /\ mem = Inserted(taken + v)
<1> PICK values : values = IF call.op = "insert" THEN call.values
                           ELSE <<call.values[taken + 1]>>
  OBVIOUS
<1> DEFINE mv == [from |-> call.first + taken, to |-> call.first + taken + v,
                  count |-> oldLen - call.first, backward |-> TRUE]
           pt == [at |-> call.first + taken, values |-> values]
<1>1. /\ oldLen \in 0 .. Room /\ oldLen \in Nat /\ Room \in Nat
      /\ Len(Old) = oldLen /\ len \in 0 .. Room /\ taken \in Nat
      /\ call.first \in Nat /\ Len(call.values) \in Nat
  BY AtTheEnd, CallInProgress
<1>2. call.first <= oldLen
  BY <1>1, AtTheEnd DEF Container!InArray
<1>3. call.op = "insert" => taken = 0
  BY AtTheEnd
<1>4. Len(values) = v
  OBVIOUS
<1>5. \A x \in 1 .. v : values[x] = call.values[taken + x]
  <2>1. CASE call.op = "insert"
    <3>1. taken = 0 /\ \A x \in 1 .. v : 0 + x = x
      BY <1>3, <2>1
    <3> QED
      BY <2>1, <3>1
  <2>2. CASE call.op = "insert_input"
    BY <2>2
  <2> QED
    BY <2>1, <2>2
<1>6. /\ len = oldLen + taken + v /\ final = -1 /\ move = mv /\ put = pt
  <2>1. ~(call.op = "insert_input" /\ taken = Len(call.values))
    BY <1>1
  <2> QED
    BY <1>4, <2>1, AtTheEnd DEF Planned
<1>7. Base = Inserted(taken)
  <2>1. call.op = "insert" => Inserted(taken) = old
    BY <1>3, AtTheEnd, NothingInserted
  <2> QED
    BY <2>1, AtTheEnd
<1>8. mem = Written(Moved(Inserted(taken), mv, mv.count), pt, v)
  BY <1>4, <1>6, <1>7, AtTheEnd
<1> HIDE DEF mv, pt
<1>9. Written(Moved(Inserted(taken), mv, mv.count), pt, v) = Inserted(taken + v)
  <2>1. call.first \in 0 .. oldLen
    BY <1>1, <1>2
  <2>2. len = oldLen + taken + v
    BY <1>6
  <2>3. oldLen + taken + v <= Room
    <3>1. len <= Room
      BY <1>1
    <3> QED
      BY <2>2, <3>1
  <2> QED
    <3>1. /\ mv = [from |-> call.first + taken, to |-> call.first + taken + v,
                   count |-> oldLen - call.first, backward |-> TRUE]
          /\ pt = [at |-> call.first + taken, values |-> values]
      BY DEF mv, pt
    <3>2. oldLen \in 0 .. Room /\ taken \in Nat
      BY <1>1
    <3>3. IsRound(oldLen, call.first, call.values, taken, v, values, mv, pt)
      BY <1>5, <2>1, <2>3, <3>1, <3>2 DEF IsRound
    <3> QED
      BY <3>3, RoundWritten
<1>10. taken + v <= Len(call.values)
  BY <1>1, <1>3
<1> QED
  BY <1>2, <1>6, <1>8, <1>9, <1>10

LEMMA InsertLeaves ==
    ASSUME IInv, PutDone, call.op \in {"insert", "insert_input"},
           call.op = "insert_input" => taken = Len(call.values)
    PROVE  final = -1 /\ MayLeave(len)
<1>1. /\ oldLen \in 0 .. Room /\ oldLen \in Nat /\ Room \in Nat
      /\ old \in [1 .. Room -> Value] /\ Len(Old) = oldLen /\ len \in 0 .. Room
      /\ call.first \in Nat
      /\ call.values \in Seq(Value) /\ Len(call.values) \in Nat
  BY AtTheEnd, CallInProgress
<1>2. /\ final = -1 /\ call.first <= oldLen /\ len = oldLen + Len(call.values)
      /\ mem = Inserted(Len(call.values))
  <2>1. CASE call.op = "insert"
    <3>1. taken = 0 /\ 0 + Len(call.values) = Len(call.values)
          /\ oldLen + 0 + Len(call.values) = oldLen + Len(call.values)
      BY <1>1, <2>1, AtTheEnd
    <3>2. /\ final = -1 /\ call.first <= oldLen
          /\ len = oldLen + taken + Len(call.values)
          /\ mem = Inserted(taken + Len(call.values))
      BY <1>1, <2>1, RoundInserted
    <3> QED
      BY <3>1, <3>2
  <2>2. CASE call.op = "insert_input"
    <3>1. /\ len = oldLen + taken /\ move = NoMove /\ put = NoPut /\ final = -1
      BY <2>2, AtTheEnd DEF Planned
    <3>2. call.first <= oldLen
      BY <1>1, <2>2, AtTheEnd DEF Container!InArray
    <3>3. mem = Inserted(taken)
      <4>1. /\ mem = Written(Moved(Base, move, move.count), put, Len(put.values))
            /\ Base = Inserted(taken) /\ Base \in [1 .. Room -> Value]
        BY <2>2, AtTheEnd
      <4>2. Moved(Base, NoMove, NoMove.count) = Base
        BY <4>1, NothingMoved
      <4>3. put.at \in Nat /\ Len(put.values) = 0
        BY <3>1 DEF NoPut
      <4>4. Written(Base, put, 0) = Base
        BY <4>1, <4>3, NothingWritten
      <4> QED
        BY <3>1, <4>1, <4>2, <4>3, <4>4
    <3> QED
      BY <2>2, <3>1, <3>2, <3>3
  <2> QED
    BY <2>1, <2>2
<1>3. /\ Elements(mem, len) = Container!Spliced(Old, call.first, call.first, call.values)
      /\ \A i \in 1 .. Room : i > len => mem[i] = old[i]
  <2>1. call.first \in 0 .. oldLen /\ oldLen + Len(call.values) <= Room
    BY <1>1, <1>2
  <2> QED
    BY <1>1, <1>2, <2>1, InsertedAll DEF Inserted, Old
<1>4. Container!Promised(call, Old) =
          {Container!Spliced(Old, call.first, call.first, call.values)}
  BY DEF Container!Promised
<1> QED
  BY <1>2, <1>3, <1>4 DEF MayLeave

LEMMA AssignLeaves ==
    ASSUME IInv, PutDone, call.op \in {"assign_fill", "assign_copy", "assign_list"},
           Len(call.values) <= Room
    PROVE  MayLeave(Len(call.values))
<1>1. /\ old \in [1 .. Room -> Value] /\ Room \in Nat
      /\ call.values \in Seq(Value) /\ Len(call.values) \in Nat
  BY AtTheEnd, CallInProgress
<1>2. move = NoMove /\ put = [at |-> 0, values |-> call.values]
  BY AtTheEnd DEF Planned
<1>3. mem = Written(old, put, Len(call.values))
  BY <1>2, WrittenOnly
<1>4. /\ Elements(mem, Len(call.values)) = call.values
      /\ \A i \in 1 .. Room : i > Len(call.values) => mem[i] = old[i]
  BY <1>1, <1>2, <1>3, Replaced
<1>5. Container!Promised(call, Old) = {call.values}
  BY DEF Container!Promised
<1> QED
  BY <1>4, <1>5 DEF MayLeave

\* The length a call returns with.
Returned == IF final >= 0 THEN final ELSE len

LEMMA CallLeaves ==
    ASSUME IInv, PutDone, call.op = "insert_input" => taken = Len(call.values),
           final >= 0 => Fits(final)
    PROVE  Returned \in 0 .. Room /\ Returned < Modulus /\ MayLeave(Returned)
<1>1. /\ len \in 0 .. Room /\ len < Modulus /\ final \in -1 .. Modulus - 1
      /\ final \in Int /\ Room \in Nat /\ Modulus \in Nat /\ oldLen \in 0 .. Room
      /\ Len(call.values) \in Nat /\ oldLen \in Nat
  BY AtTheEnd, CallInProgress
<1>2. Returned \in 0 .. Room /\ Returned < Modulus
  BY <1>1 DEF Returned, Fits
<1>3. CASE call.op \in {"resize", "resize_default", "push_back", "pop_back",
                        "insert", "insert_input"}
  <2>1. final = -1 /\ MayLeave(len)
    BY <1>3, ResizeLeaves, ResizeDefaultLeaves, PushBackLeaves, PopBackLeaves,
       InsertLeaves
  <2> QED
    BY <1>2, <2>1 DEF Returned
<1>4. CASE call.op \in {"erase", "erase_range"}
  <2>1. final \in 0 .. oldLen /\ MayLeave(final)
    BY <1>4, EraseLeaves
  <2>2. Returned = final
    BY <1>1, <2>1 DEF Returned
  <2> QED
    BY <1>2, <2>1, <2>2
<1>5. CASE call.op \in {"assign_fill", "assign_copy", "assign_list"}
  <2>1. Returned = Len(call.values)
    BY <1>1, <1>5, AtTheEnd DEF Planned, Returned
  <2>2. Len(call.values) <= Room
    BY <1>1, <1>2, <2>1
  <2> QED
    BY <1>2, <1>5, <2>1, <2>2, AssignLeaves
<1> QED
  BY <1>3, <1>4, <1>5, AtTheEnd, CallInProgress

\* The next element of an input range is inserted behind those before it.
LEMMA TakeNextStep ==
    ASSUME IInv, TakeNext
    PROVE  IInv'
<1>1. /\ PutDone /\ call.op = "insert_input" /\ taken < Len(call.values)
      /\ taken' = taken + 1 /\ pc' = "begin"
      /\ mem' = mem /\ len' = len /\ call' = call /\ move' = move /\ put' = put
      /\ final' = final /\ k' = k /\ old' = old /\ oldLen' = oldLen
  BY DEF TakeNext, buffer, loop
<1>2. /\ TypeOK /\ Called /\ taken \in Nat /\ oldLen \in Nat /\ len \in 0 .. Room
      /\ Room \in Nat /\ pc # "idle" /\ Len(call.values) \in Nat
  BY <1>1, AtTheEnd, CallInProgress DEF IInv
<1>3. /\ call.first <= oldLen /\ len = oldLen + taken + 1
      /\ mem = Inserted(taken + 1)
  BY <1>1, RoundInserted
<1>4. Old' = Old
  BY <1>1 DEF Old, Elements
<1>5. TypeOK'
  BY <1>1, <1>2 DEF TypeOK
<1>6. Called'
  BY <1>1, <1>2, <1>4 DEF Called
<1>7. Rounds'
  <2>1. taken + 1 <= Len(call.values) /\ oldLen + (taken + 1) <= Room
    BY <1>1, <1>2, <1>3
  <2> QED
    BY <1>1, <1>3, <2>1 DEF Rounds
<1>8. Beginning'
  <2>1. Base' = Inserted(taken + 1)
    BY <1>1 DEF Base, Inserted, InsertedInto
  <2>2. len = oldLen + (taken + 1)
    BY <1>2, <1>3
  <2> QED
    BY <1>1, <1>3, <2>1, <2>2 DEF Beginning
<1>9. Idle' /\ Moving' /\ Putting' /\ Failed'
  BY <1>1 DEF Idle, Moving, Putting, Failed
<1> QED
  BY <1>5, <1>6, <1>7, <1>8, <1>9 DEF IInv

\* Setting the length last fails only if the result has no room: then the
\* elements have been copied already.
LEMMA ReturnFails ==
    ASSUME IInv, PutDone, final >= 0, ~Fits(final),
           call.op = "insert_input" => taken = Len(call.values)
    PROVE  HasReason
<1>1. /\ Room \in Nat /\ oldLen \in Nat /\ oldLen <= Room /\ final \in Int
      /\ Len(call.values) \in Nat
  BY AtTheEnd, CallInProgress
<1>2. final > Room
  BY <1>1 DEF Fits
<1>3. call.op \notin {"resize", "resize_default", "push_back", "pop_back",
                      "insert", "insert_input"}
  <2>1. final # -1
    BY <1>1
  <2> QED
    BY <2>1, ResizeLeaves, ResizeDefaultLeaves, PushBackLeaves, PopBackLeaves,
       InsertLeaves
<1>4. call.op \notin {"erase", "erase_range"}
  BY <1>1, <1>2, EraseLeaves
<1>5. call.op \notin {"assign_fill"}
  BY <1>1, <1>2, AtTheEnd DEF Planned
<1>6. CASE call.op \in {"assign_copy", "assign_list"}
  <2>1. final = Len(call.values)
    BY <1>6, AtTheEnd DEF Planned
  <2>2. PromisedLength = Len(call.values)
    BY <1>6 DEF PromisedLength
  <2>3. Len(call.values) > Room /\ Len(call.values) <= PromisedLength
        /\ PromisedLength \in Int
    BY <1>1, <1>2, <2>1, <2>2
  <2> QED
    BY <1>1, <2>3, AtTheEnd, TooLong
<1> QED
  BY <1>3, <1>4, <1>5, <1>6, AtTheEnd, CallInProgress

LEMMA ReturnStep ==
    ASSUME IInv, Return
    PROVE  IInv'
<1>1. PutDone /\ (call.op = "insert_input" => taken = Len(call.values))
  BY DEF Return
<1>2. CASE final >= 0 /\ ~Fits(final) /\ Fail
  <2>1. HasReason
    BY <1>1, <1>2, ReturnFails
  <2> QED
    BY <1>1, <1>2, <2>1, AtTheEnd, FailsFirst
<1>3. CASE ~(final >= 0 /\ ~Fits(final) /\ Fail)
  <2>1. /\ final >= 0 => Fits(final)
        /\ len' = Returned /\ pc' = "idle" /\ call' = Container!NoCall
        /\ move' = NoMove /\ put' = NoPut /\ final' = -1 /\ k' = 0 /\ taken' = 0
        /\ old' = mem /\ oldLen' = len' /\ mem' = mem
    BY <1>3 DEF Return, Returned
  <2>2. Returned \in 0 .. Room /\ Returned < Modulus
    BY <1>1, <2>1, CallLeaves
  <2>3. mem \in [1 .. Room -> Value]
    BY DEF IInv, TypeOK
  <2>4. TypeOK'
    BY <2>1, <2>2, <2>3, NoMoveIsMove DEF TypeOK
  <2>5. Idle'
    BY <2>1 DEF Idle
  <2>6. Called' /\ Rounds' /\ Beginning' /\ Moving' /\ Putting' /\ Failed'
    BY <2>1 DEF Called, Rounds, Beginning, Moving, Putting, Failed
  <2> QED
    BY <2>4, <2>5, <2>6 DEF IInv
<1> QED
  BY <1>2, <1>3

-----------------------------------------------------------------------------
(* The invariant.                                                          *)

LEMMA Initially == Init => IInv
<1> SUFFICES ASSUME Init
             PROVE  IInv
  OBVIOUS
<1>1. /\ mem \in [1 .. Room -> Value] /\ len \in 0 .. Room /\ len < Modulus
      /\ call = Container!NoCall /\ pc = "idle" /\ move = NoMove /\ put = NoPut
      /\ final = -1 /\ k = 0 /\ taken = 0 /\ old = mem /\ oldLen = len
  BY DEF Init
<1>2. TypeOK
  BY <1>1, NoMoveIsMove DEF TypeOK
<1>3. Idle /\ Called /\ Rounds /\ Beginning /\ Moving /\ Putting /\ Failed
  BY <1>1 DEF Idle, Called, Rounds, Beginning, Moving, Putting, Failed
<1> QED
  BY <1>2, <1>3 DEF IInv

LEMMA Stutters ==
    ASSUME IInv, UNCHANGED vars
    PROVE  IInv'
<1>1. /\ mem' = mem /\ len' = len /\ call' = call /\ pc' = pc /\ move' = move
      /\ put' = put /\ final' = final /\ k' = k /\ taken' = taken
      /\ old' = old /\ oldLen' = oldLen
  BY DEF vars, buffer, loop
<1>2. /\ Old' = Old /\ Base' = Base
      /\ Planned(len, move, put, final)' = Planned(len, move, put, final)
      /\ RightWay(move)' = RightWay(move)
      /\ Moved(Base, move, move.count)' = Moved(Base, move, move.count)
  BY <1>1, PlanKept
<1>3. TypeOK'
  BY <1>1 DEF IInv, TypeOK
<1>4. Idle' /\ Called' /\ Rounds' /\ Beginning'
  BY <1>1, <1>2 DEF IInv, Idle, Called, Rounds, Beginning
<1>5. Moving'
  <2>1. Moved(Base, move, k)' = Moved(Base, move, k)
    BY <1>1, <1>2 DEF Moved, IsMoved
  <2> QED
    BY <1>1, <1>2, <2>1 DEF IInv, Moving
<1>6. Putting'
  <2>1. Written(Moved(Base, move, move.count), put, k)'
            = Written(Moved(Base, move, move.count), put, k)
    BY <1>1, <1>2 DEF Written
  <2> QED
    BY <1>1, <1>2, <2>1 DEF IInv, Putting
<1>7. Failed'
  BY <1>1, <1>2 DEF IInv, Failed, HasReason
<1> QED
  BY <1>3, <1>4, <1>5, <1>6, <1>7 DEF IInv

LEMMA BeginsStep ==
    ASSUME IInv, Begins
    PROVE  IInv'
  BY BeginResizeStep, BeginResizeDefaultStep, PushBackStep, PopBackStep,
     EraseAtStep, EraseRangeStep, InsertStep, InsertInputStep,
     AssignFillStep, AssignCopyStep, AssignListStep DEF Begins

LEMMA LoopsStep ==
    ASSUME IInv, Loops
    PROVE  IInv'
  BY MoveElementStep, MoveDoneStep, PutValueStep, TakeNextStep, ReturnStep DEF Loops

\* At every step of every operation the memory is the old one with the part of
\* the operation's work done that the loops have come to.
THEOREM Invariance == Spec => []IInv
<1>1. IInv /\ [Next]_vars => IInv'
  BY InvokeStep, BeginsStep, LoopsStep, Stutters DEF Next
<1> QED
  BY <1>1, Initially, PTL DEF Spec

\* Every element moved and every value written is in the buffer, and lengths
\* fit in the prefix's type.
THEOREM TypeCorrect == Spec => []TypeOK
<1>1. IInv => TypeOK
  BY DEF IInv
<1> QED
  BY <1>1, Invariance, PTL

\* The asserts and size checks of the operations stop exactly the calls they are
\* for, if clients erase no range that ends at end().
THEOREM MisuseStopped ==
    Client = "not_to_end" => (Spec => []AssertsMisuseFirst)
<1> SUFFICES ASSUME Client = "not_to_end"
             PROVE  Spec => []AssertsMisuseFirst
  OBVIOUS
<1>1. IInv => AssertsMisuseFirst
  <2> SUFFICES ASSUME IInv, pc \notin {"idle", "begin"}
               PROVE  IF Container!InArray(call, Old)
                      THEN pc = "failed" =>
                               \A s \in Container!Promised(call, Old) : Len(s) > Room
                      ELSE pc = "failed" /\ mem = old /\ len = oldLen
    BY DEF AssertsMisuseFirst, Old
  <2>1. CASE pc = "failed"
    BY <2>1 DEF IInv, Failed, HasReason
  <2>2. CASE pc \in {"move", "put"}
    BY <2>2 DEF IInv, Moving, Putting, Planned
  <2> QED
    BY <2>1, <2>2 DEF IInv, TypeOK
<1> QED
  BY <1>1, Invariance, PTL

-----------------------------------------------------------------------------
(* What a client sees.                                                     *)

\* Steps before the return are seen by no client, if they do not fail.
UnseenStep ==
    /\ pc \in {"begin", "move", "put"} /\ pc' \in {"begin", "move", "put", "failed"}
    /\ call' = call /\ old' = old /\ oldLen' = oldLen

LEMMA BeginsUnseen ==
    ASSUME Begins
    PROVE  UnseenStep
<1>1. pc = "begin"
  BY DEF Begins, BeginResize, BeginResizeDefault, PushBack, PopBack, EraseAt,
     EraseRange, Insert, InsertInput, AssignFill, AssignCopy, AssignList, Begin
<1>2. ASSUME Fail
      PROVE  UnseenStep
  BY <1>1, <1>2 DEF Fail, UnseenStep
<1>3. ASSUME NEW n, NEW mv, NEW pt, NEW fin, Resize(n, mv, pt, fin)
      PROVE  UnseenStep
  BY <1>1, <1>2, <1>3 DEF Resize, UnseenStep
<1>4. ASSUME NEW pos, NEW values, InsertValues(pos, values)
      PROVE  UnseenStep
  BY <1>2, <1>3, <1>4 DEF InsertValues
<1>5. CASE BeginResize \/ BeginResizeDefault \/ PushBack \/ PopBack
  BY <1>2, <1>3, <1>5 DEF BeginResize, BeginResizeDefault, PushBack, PopBack
<1>6. CASE EraseAt \/ EraseRange
  BY <1>2, <1>3, <1>6 DEF EraseAt, EraseRange, ResizeLast
<1>7. CASE Insert \/ InsertInput
  BY <1>2, <1>3, <1>4, <1>7 DEF Insert, InsertInput, ResizeLast
<1>8. CASE AssignFill \/ AssignCopy \/ AssignList
  BY <1>2, <1>3, <1>8 DEF AssignFill, AssignCopy, AssignList, ResizeLast
<1> QED
  BY <1>5, <1>6, <1>7, <1>8 DEF Begins

LEMMA LoopsUnseen ==
    ASSUME Loops, pc' # "idle"
    PROVE  UnseenStep
<1>1. CASE MoveElement \/ MoveDone
  BY <1>1 DEF MoveElement, MoveDone, UnseenStep
<1>2. CASE PutValue
  BY <1>2 DEF PutValue, Fail, UnseenStep
<1>3. CASE TakeNext
  BY <1>3 DEF TakeNext, PutDone, UnseenStep
<1>4. CASE Return
  BY <1>4 DEF Return, PutDone, Fail, UnseenStep
<1> QED
  BY <1>1, <1>2, <1>3, <1>4 DEF Loops

\* A call returns with what the container promises.
LEMMA ReturnSeen ==
    ASSUME IInv, Loops, pc' = "idle"
    PROVE  /\ pc = "put" /\ Container!InArray(call, Old)
           /\ call' = Container!NoCall /\ old' = mem /\ mem' = mem
           /\ oldLen' \in 0 .. Room /\ mem \in [1 .. Room -> Value]
           /\ MayLeave(oldLen')
<1>1. Return /\ ~Fail
  BY DEF Loops, MoveElement, MoveDone, PutValue, TakeNext, Fail
<1>2. /\ PutDone /\ (call.op = "insert_input" => taken = Len(call.values))
      /\ final >= 0 => Fits(final)
      /\ call' = Container!NoCall /\ old' = mem /\ oldLen' = Returned /\ mem' = mem
  BY <1>1 DEF Return, Returned
<1>3. Returned \in 0 .. Room /\ MayLeave(Returned)
  BY <1>2, CallLeaves
<1>4. mem \in [1 .. Room -> Value]
  BY DEF IInv, TypeOK
<1> QED
  BY <1>2, <1>3, <1>4, AtTheEnd

\* Data members behind the array stay as they are, with any client.
THEOREM MembersBehindKept == Spec => FollowingBytesKept
<1>1. ASSUME IInv, [Next]_vars
      PROVE  [\A i \in 1 .. Room :
                  i > oldLen /\ i > oldLen' => old'[i] = old[i]]_vars
  <2>1. CASE Invoke
    BY <2>1 DEF Invoke
  <2>2. CASE Begins
    BY <2>2, BeginsUnseen DEF UnseenStep
  <2>3. CASE Loops /\ pc' # "idle"
    BY <2>3, LoopsUnseen DEF UnseenStep
  <2>4. CASE Loops /\ pc' = "idle"
    BY <1>1, <2>4, ReturnSeen DEF MayLeave
  <2> QED
    BY <1>1, <2>1, <2>2, <2>3, <2>4 DEF Next
<1> QED
  BY <1>1, Invariance, PTL DEF Spec, FollowingBytesKept

LEMMA ContainerInitially == Init => Container!Init
<1> SUFFICES ASSUME Init
             PROVE  Container!Init
  OBVIOUS
<1>1. /\ mem \in [1 .. Room -> Value] /\ len \in 0 .. Room
      /\ call = Container!NoCall /\ pc = "idle" /\ old = mem /\ oldLen = len
  BY DEF Init
<1>2. Elements(old, oldLen) \in [1 .. oldLen -> Value]
  BY <1>1, ElementsAreContent DEF Elements
<1> QED
  BY <1>1, <1>2 DEF Container!Init

LEMMA ContainerSteps ==
    ASSUME IInv, IInv', [Next]_vars, Client = "not_to_end"
    PROVE  [Container!Next]_(Container!vars)
<1> SUFFICES Container!Next \/ UNCHANGED Container!vars
  OBVIOUS
<1>1. CASE Invoke
  <2>1. /\ pc = "idle" /\ pc' = "begin" /\ old' = old /\ oldLen' = oldLen
        /\ mem = old /\ len = oldLen
    BY <1>1 DEF Invoke, IInv, Idle
  <2>2. PICK c \in Container!Calls :
            Container!Sensible(c, Elements(mem, len)) /\ call' = c
    BY <1>1 DEF Invoke, MayCall
  <2>3. Elements(old, oldLen)' = Elements(old, oldLen)
    BY <2>1 DEF Elements
  <2>4. Container!Invoke
    BY <2>1, <2>2, <2>3 DEF Container!Invoke
  <2> QED
    BY <2>4 DEF Container!Next
<1>2. ASSUME UnseenStep
      PROVE  Container!Next \/ UNCHANGED Container!vars
  <2>1. Old' = Old
    BY <1>2 DEF UnseenStep, Old, Elements
  <2>2. CASE pc' # "failed"
    BY <1>2, <2>1, <2>2 DEF UnseenStep, Container!vars, Old
  <2>3. CASE pc' = "failed"
    <3>1. Container!InArray(call, Old) =>
              \A s \in Container!Promised(call, Old) : Len(s) > Room
      BY <1>2, <2>1, <2>3 DEF IInv, Failed, HasReason, UnseenStep
    <3>2. Container!Fail
      BY <1>2, <2>1, <2>3, <3>1 DEF Container!Fail, UnseenStep, Old
    <3> QED
      BY <3>2 DEF Container!Next
  <2> QED
    BY <2>2, <2>3
<1>3. CASE Loops /\ pc' = "idle"
  <2>1. /\ pc = "put" /\ Container!InArray(call, Old)
        /\ call' = Container!NoCall /\ old' = mem
        /\ oldLen' \in 0 .. Room /\ mem \in [1 .. Room -> Value]
        /\ Elements(mem, oldLen') \in Container!Promised(call, Old)
    BY <1>3, ReturnSeen DEF MayLeave
  <2>2. Elements(old, oldLen)' = Elements(mem, oldLen')
    BY <2>1 DEF Elements
  <2>3. Len(Elements(mem, oldLen')) <= Room
    BY <2>1, ElementsAreContent, SizesAssumption
  <2>4. Container!Answer
    BY <1>3, <2>1, <2>2, <2>3 DEF Container!Answer, Old
  <2> QED
    BY <2>4 DEF Container!Next
<1>4. CASE UNCHANGED vars
  <2>1. call' = call /\ pc' = pc /\ old' = old /\ oldLen' = oldLen
    BY <1>4 DEF vars
  <2>2. Elements(old, oldLen)' = Elements(old, oldLen)
    BY <2>1 DEF Elements
  <2> QED
    BY <2>1, <2>2 DEF Container!vars
<1> QED
  BY <1>1, <1>2, <1>3, <1>4, BeginsUnseen, LoopsUnseen DEF Next

\* Without its fairness, the refinement of the container: an operation leaves
\* the sequence a client expects, or fails for want of room or for an iterator
\* that is not into the array.
THEOREM ContainerImplemented ==
    Client = "not_to_end" =>
        (Spec => Container!Init /\ [][Container!Next]_(Container!vars))
<1> SUFFICES ASSUME Client = "not_to_end"
             PROVE  Spec => Container!Init /\ [][Container!Next]_(Container!vars)
  OBVIOUS
<1>1. IInv /\ IInv' /\ [Next]_vars => [Container!Next]_(Container!vars)
  BY ContainerSteps
<1> QED
  BY <1>1, ContainerInitially, Invariance, PTL DEF Spec
=============================================================================
