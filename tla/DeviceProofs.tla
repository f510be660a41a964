----------------------------- MODULE DeviceProofs -----------------------------
(***************************************************************************)
(* Proofs about what a device keeps for itself, for any number of          *)
(* providers, callers, threads, keys and steps: a call of the chain ends   *)
(* with one provider's answer or after all were asked; updates of local    *)
(* files meet; the sweep deletes what was shown; the index is a true copy  *)
(* of the records; an answer is true about how it was found; decisions     *)
(* about contradictions last.                                              *)
(***************************************************************************)
EXTENDS DeviceSystem, FiniteSetTheorems, TLAPS

-----------------------------------------------------------------------------
(* The chain of providers *)

ChainAssumption == \E n \in Nat \ {0} : Providers = 0..(n - 1) /\ Chunks \in Nat \ {0}
N == Cardinality(Providers)

(* The providers that a call has come past.                                *)
From(s, q, n) == {(s + i) % n : i \in 0..(q - 1)}
Past(k) == From(k.start, k.offset, N)

(* What a call under way has of its answer: nothing before it has one, and *)
(* from then on the present provider's only.                               *)
PartsOf(k) ==
    /\ k.parts \in Seq(Providers) /\ \A i \in DOMAIN k.parts : k.parts[i] = Idx(k)
    /\ k.at = "ask" => Len(k.parts) = 0
    /\ k.at \in {"compare", "set"} => Len(k.parts) = 1
    /\ k.at = "more" => k.op = "stream" /\ Len(k.parts) \in 1..Chunks
    /\ k.at = "end" => Len(k.parts) = IF k.op = "stream" THEN Chunks ELSE 1

Going(k) ==
    /\ k \in [op : {"ready", "chat", "stream"}, start : Providers, offset : 0..(N - 1),
              at : {"ask", "compare", "set", "more", "end"},
              failed : SUBSET Providers, parts : Seq(Providers), heard : SUBSET Providers]
    /\ k.failed = Past(k)
    /\ PartsOf(k)

Over(k) ==
    /\ k.op = "raised" => k.failed = Providers
    /\ k.op = "done" /\ k.kind # "ready" =>
          /\ Cardinality(Range(k.parts)) = 1
          /\ Len(k.parts) = IF k.kind = "stream" THEN Chunks ELSE 1

ChainInv ==
    /\ active \in Providers
    /\ DOMAIN call = Callers
    /\ \A t \in Callers : \/ call[t].op \in {"ready", "chat", "stream"} /\ Going(call[t])
                          \/ call[t].op \in {"none", "done", "raised"} /\ Over(call[t])

LEMMA ChainIs ==
  ASSUME ChainAssumption
  PROVE  /\ N \in Nat \ {0} /\ Providers = 0..(N - 1) /\ 0 \in Providers /\ Last = N - 1
         /\ Chunks \in Nat \ {0}
<1>1. PICK n \in Nat \ {0} : Providers = 0..(n - 1) /\ Chunks \in Nat \ {0}
  BY DEF ChainAssumption
<1>2. Cardinality(0..(n - 1)) = n
  BY FS_Interval
<1> QED
  BY <1>1, <1>2 DEF N, Last

(* The next provider, behind the last one the first.                       *)
LEMMA Turned ==
  ASSUME NEW n \in Nat \ {0}, NEW s \in 0..(n - 1), NEW i \in 0..(n - 1)
  PROVE  /\ (s + i) % n \in 0..(n - 1)
         /\ (s + i) % n = IF s + i < n THEN s + i ELSE s + i - n
<1>1. CASE s + i < n
  <2>1. s + i \in 0..(n - 1)
    BY <1>1
  <2>2. PICK a \in 0..(n - 1) : a = s + i
    BY <2>1
  <2>3. a % n = a
    BY <2>2
  <2> QED
    BY <1>1, <2>2, <2>3
<1>2. CASE s + i >= n
  <2>1. s + i \in n..(2 * n - 1)
    BY <1>2
  <2>2. PICK a \in n..(2 * n - 1) : a = s + i
    BY <2>1
  <2>3. a % n = a - n
    BY <2>2, Z3
  <2> QED
    BY <1>2, <2>2, <2>3
<1> QED
  BY <1>1, <1>2

(* Who has come past all, wherever it started, has come past each.          *)
LEMMA AllPast ==
  ASSUME NEW n \in Nat \ {0}, NEW s \in 0..(n - 1)
  PROVE  From(s, n, n) = 0..(n - 1)
<1>1. ASSUME NEW i \in 0..(n - 1) PROVE (s + i) % n \in 0..(n - 1)
  BY Turned
<1>2. ASSUME NEW p \in 0..(n - 1) PROVE \E i \in 0..(n - 1) : p = (s + i) % n
  <2>1. PICK i \in 0..(n - 1) : p = IF s + i < n THEN s + i ELSE s + i - n
    <3>1. CASE p >= s
      <4>1. p - s \in 0..(n - 1) /\ s + (p - s) = p /\ p < n
        BY <3>1
      <4> QED
        BY <4>1
    <3>2. CASE p < s
      <4>1. p - s + n \in 0..(n - 1) /\ s + (p - s + n) = p + n /\ ~ (p + n < n) /\ p + n - n = p
        BY <3>2
      <4> QED
        BY <4>1
    <3> QED
      BY <3>1, <3>2
  <2> QED
    BY <2>1, Turned
<1> QED
  BY <1>1, <1>2 DEF From

(* One more.                                                               *)
LEMMA OneMore ==
  ASSUME NEW n \in Nat \ {0}, NEW s, NEW o \in Nat, NEW q, q = o + 1
  PROVE  From(s, q, n) = From(s, o, n) \cup {(s + o) % n}
<1>1. 0..(q - 1) = 0..(o - 1) \cup {o}
  OBVIOUS
<1> QED
  BY <1>1 DEF From

LEMMA IdxIs ==
  ASSUME ChainAssumption, NEW k, Going(k)
  PROVE  Idx(k) \in Providers /\ Idx(k) = (k.start + k.offset) % N
<1>1. k.start \in 0..(N - 1) /\ k.offset \in 0..(N - 1) /\ N \in Nat \ {0} /\ Providers = 0..(N - 1)
  BY ChainIs DEF Going
<1>2. (k.start + k.offset) % N \in 0..(N - 1)
  BY <1>1, Turned
<1> QED
  BY <1>1, <1>2 DEF Idx, N

(* A call is begun, goes on or ends, and the others stay as they are.      *)
LEMMA OneCall ==
  ASSUME ChainInv, NEW t \in Callers, NEW k, call' = [call EXCEPT ![t] = k], active' \in Providers,
         \/ k.op \in {"ready", "chat", "stream"} /\ Going(k)
         \/ k.op \in {"none", "done", "raised"} /\ Over(k)
  PROVE  ChainInv'
<1>1. DOMAIN call' = Callers
  BY DEF ChainInv
<1>2. ASSUME NEW u \in Callers
      PROVE  \/ call'[u].op \in {"ready", "chat", "stream"} /\ Going(call'[u])
             \/ call'[u].op \in {"none", "done", "raised"} /\ Over(call'[u])
  <2>1. call'[u] = IF u = t THEN k ELSE call[u]
    BY DEF ChainInv
  <2> QED
    BY <2>1 DEF ChainInv
<1>3. ASSUME NEW x PROVE Going(x)' <=> Going(x)
  OBVIOUS
<1> QED
  BY <1>1, <1>2 DEF ChainInv

LEMMA BeginKeeps ==
  ASSUME ChainAssumption, ChainInv, NEW t \in Callers, NEW op \in {"ready", "chat", "stream"}, Begin(t, op)
  PROVE  ChainInv'
<1>1. PICK k : k = [op |-> op, start |-> IF op = "ready" THEN 0 ELSE active,
                    offset |-> 0, at |-> "ask", failed |-> {}, parts |-> <<>>, heard |-> {}]
  OBVIOUS
<1>2. k.start \in Providers /\ 0 \in 0..(N - 1)
  BY <1>1, ChainIs DEF ChainInv
<1>3. k.parts \in Seq(Providers) /\ Len(k.parts) = 0 /\ DOMAIN k.parts = {}
  BY <1>1
<1>4. Past(k) = {}
  BY <1>1 DEF Past, From
<1>5. Going(k)
  BY <1>1, <1>2, <1>3, <1>4 DEF Going, PartsOf
<1>6. call' = [call EXCEPT ![t] = k] /\ active' = active
  BY <1>1 DEF Begin
<1> QED
  BY <1>1, <1>5, <1>6, OneCall DEF ChainInv

(* A call under way and where it is.                                       *)
LEMMA CallIs ==
  ASSUME ChainInv, NEW t \in Callers, Busy(t)
  PROVE  Going(call[t]) /\ active \in Providers /\ call[t].op \in {"ready", "chat", "stream"}
BY DEF ChainInv, Busy

LEMMA FailKeeps ==
  ASSUME ChainAssumption, ChainInv, NEW t \in Callers, Fail(t)
  PROVE  ChainInv'
<1>1. PICK k : k = call[t]
  OBVIOUS
<1>2. PICK p : p = Idx(k)
  OBVIOUS
<1>3. PICK n : n = Advanced(k, p)
  OBVIOUS
<1>4. Going(k) /\ k.op \in {"ready", "chat", "stream"} /\ active' \in Providers
  BY <1>1, CallIs DEF Fail
<1>5. call' = [call EXCEPT ![t] = IF k.offset = Last THEN Ended(n, "raised") ELSE n]
  BY <1>1, <1>2, <1>3 DEF Fail
<1>6. p \in Providers /\ p = (k.start + k.offset) % N
  BY <1>2, <1>4, IdxIs
<1>7. /\ n.op = k.op /\ n.start = k.start /\ n.offset = k.offset + 1 /\ n.at = "ask"
      /\ n.failed = k.failed \cup {p} /\ n.parts = <<>> /\ n.heard = k.heard
      /\ k.offset + 1 \in 0..(N - 1) => n \in [op : {"ready", "chat", "stream"}, start : Providers, offset : 0..(N - 1),
              at : {"ask", "compare", "set", "more", "end"},
              failed : SUBSET Providers, parts : Seq(Providers), heard : SUBSET Providers]
  <2>1. n = [k EXCEPT !.offset = @ + 1, !.at = "ask", !.failed = @ \cup {p}, !.parts = <<>>]
    BY <1>3 DEF Advanced
  <2>2. k \in [op : {"ready", "chat", "stream"}, start : Providers, offset : 0..(N - 1),
              at : {"ask", "compare", "set", "more", "end"},
              failed : SUBSET Providers, parts : Seq(Providers), heard : SUBSET Providers]
    BY <1>4 DEF Going
  <2>3. k.failed \cup {p} \in SUBSET Providers /\ <<>> \in Seq(Providers)
    BY <1>6, <2>2
  <2> QED
    BY <2>1, <2>2, <2>3
<1>8. /\ N \in Nat \ {0} /\ Providers = 0..(N - 1) /\ Last = N - 1
      /\ k.start \in 0..(N - 1) /\ k.offset \in 0..(N - 1) /\ k.failed = Past(k)
  BY <1>4, ChainIs DEF Going
<1>9. n.failed = From(k.start, k.offset + 1, N)
  <2>1. PICK b, o \in Nat, q \in Nat, m \in Nat \ {0} : b = k.start /\ o = k.offset /\ m = N /\ q = k.offset + 1
    BY <1>8
  <2>2. n.failed = From(b, o, m) \cup {(b + o) % m}
    BY <1>6, <1>7, <1>8, <2>1 DEF Past
  <2>3. From(b, q, m) = From(b, o, m) \cup {(b + o) % m}
    BY <2>1, OneMore
  <2> QED
    BY <2>1, <2>2, <2>3
<1>10. CASE k.offset = Last
  <2>1. n.failed = Providers
    <3>1. k.offset + 1 = N
      BY <1>8, <1>10
    <3> QED
      BY <1>8, <1>9, <3>1, AllPast
  <2>2. Over(Ended(n, "raised")) /\ Ended(n, "raised").op = "raised"
    BY <2>1 DEF Over, Ended
  <2> QED
    BY <1>4, <1>5, <1>10, <2>2, OneCall
<1>11. CASE k.offset # Last
  <2>1. k.offset + 1 \in 0..(N - 1)
    BY <1>8, <1>11
  <2>2. PartsOf(n)
    BY <1>7 DEF PartsOf
  <2>3. n.failed = Past(n)
    BY <1>7, <1>9 DEF Past
  <2>4. Going(n)
    BY <1>7, <2>1, <2>2, <2>3 DEF Going
  <2> QED
    BY <1>4, <1>5, <1>7, <1>11, <2>4, OneCall
<1> QED
  BY <1>10, <1>11

(* A step that leaves the provider of a call as it is.                     *)
LEMMA SameProvider ==
  ASSUME NEW k, NEW n, Going(k),
         n \in [op : {"ready", "chat", "stream"}, start : Providers, offset : 0..(N - 1),
              at : {"ask", "compare", "set", "more", "end"},
              failed : SUBSET Providers, parts : Seq(Providers), heard : SUBSET Providers],
         n.start = k.start, n.offset = k.offset, n.failed = k.failed, PartsOf(n)
  PROVE  Going(n)
BY DEF Going, Past

LEMMA AnswerKeeps ==
  ASSUME ChainAssumption, ChainInv, NEW t \in Callers, Answer(t)
  PROVE  ChainInv'
<1>1. PICK k : k = call[t]
  OBVIOUS
<1>2. PICK p : p = Idx(k)
  OBVIOUS
<1>3. PICK n : n = [k EXCEPT !.at = "compare", !.parts = Append(@, p)]
  OBVIOUS
<1>4. Going(k) /\ k.op \in {"ready", "chat", "stream"} /\ active' \in Providers /\ k.at = "ask"
  BY <1>1, CallIs DEF Answer, AtIdx
<1>5. call' = [call EXCEPT ![t] = n]
  <2>1. call' = [call EXCEPT ![t].at = "compare", ![t].parts = Append(@, p)]
    BY <1>1, <1>2 DEF Answer
  <2> QED
    BY <1>1, <1>3, <2>1 DEF ChainInv
<1>6. p \in Providers
  BY <1>2, <1>4, IdxIs
<1>7. k.parts \in Seq(Providers) /\ Len(k.parts) = 0
  BY <1>4 DEF Going, PartsOf
<1>8. Append(k.parts, p) \in Seq(Providers) /\ Len(Append(k.parts, p)) = 1 /\ Append(k.parts, p)[1] = p
      /\ DOMAIN Append(k.parts, p) = {1}
  BY <1>6, <1>7
<1>9. /\ n.op = k.op /\ n.start = k.start /\ n.offset = k.offset /\ n.failed = k.failed /\ n.at = "compare"
      /\ n.parts = Append(k.parts, p) /\ n \in [op : {"ready", "chat", "stream"}, start : Providers, offset : 0..(N - 1),
              at : {"ask", "compare", "set", "more", "end"},
              failed : SUBSET Providers, parts : Seq(Providers), heard : SUBSET Providers]
  BY <1>3, <1>4, <1>8 DEF Going
<1>10. Idx(n) = p
  BY <1>2, <1>9 DEF Idx
<1>11. PartsOf(n)
  BY <1>8, <1>9, <1>10 DEF PartsOf
<1>12. Going(n)
  BY <1>4, <1>9, <1>11, SameProvider
<1> QED
  BY <1>4, <1>5, <1>9, <1>12, OneCall

LEMMA GoesOn ==
  ASSUME ChainInv, NEW t \in Callers, Busy(t), NEW at,
         \/ at = "set" /\ call[t].at = "compare"
         \/ at = "more" /\ call[t].at \in {"compare", "set"} /\ call[t].op = "stream"
         \/ at = "end" /\ call[t].at \in {"compare", "set"} /\ call[t].op # "stream",
         Chunks \in Nat \ {0}, call' = [call EXCEPT ![t].at = at], active' \in Providers
  PROVE  ChainInv'
<1>1. PICK k : k = call[t]
  OBVIOUS
<1>2. PICK n : n = [k EXCEPT !.at = at]
  OBVIOUS
<1>3. Going(k) /\ k.op \in {"ready", "chat", "stream"}
  BY <1>1, CallIs
<1>4. /\ n.op = k.op /\ n.start = k.start /\ n.offset = k.offset /\ n.failed = k.failed /\ n.at = at
      /\ n.parts = k.parts /\ n \in [op : {"ready", "chat", "stream"}, start : Providers, offset : 0..(N - 1),
              at : {"ask", "compare", "set", "more", "end"},
              failed : SUBSET Providers, parts : Seq(Providers), heard : SUBSET Providers]
  BY <1>2, <1>3 DEF Going
<1>5. Idx(n) = Idx(k)
  BY <1>4 DEF Idx
<1>6. PartsOf(n)
  <2>1. PartsOf(k)
    BY <1>3 DEF Going
  <2>2. /\ k.parts \in Seq(Providers) /\ \A i \in DOMAIN k.parts : k.parts[i] = Idx(k)
        /\ k.at \in {"compare", "set"} => Len(k.parts) = 1
    BY <2>1 DEF PartsOf
  <2>3. Len(k.parts) = 1 /\ 1 \in 1..Chunks
    BY <1>1, <2>2
  <2>4. at = "more" => k.op = "stream"
    BY <1>1
  <2>5. at = "end" => k.op # "stream"
    BY <1>1
  <2>6. at \in {"set", "more", "end"}
    OBVIOUS
  <2> QED
    BY <1>4, <1>5, <2>2, <2>3, <2>4, <2>5, <2>6 DEF PartsOf
<1>7. Going(n)
  BY <1>3, <1>4, <1>6, SameProvider
<1>8. call' = [call EXCEPT ![t] = n]
  BY <1>1, <1>2 DEF ChainInv
<1> QED
  BY <1>3, <1>4, <1>7, <1>8, OneCall

LEMMA ChunkKeeps ==
  ASSUME ChainAssumption, ChainInv, NEW t \in Callers, Chunk(t)
  PROVE  ChainInv'
<1>1. PICK k : k = call[t]
  OBVIOUS
<1>2. PICK p : p = Idx(k)
  OBVIOUS
<1>3. Going(k) /\ k.op \in {"ready", "chat", "stream"} /\ active' \in Providers /\ k.at = "more" /\ p \in Providers
  BY <1>1, <1>2, CallIs, IdxIs DEF Chunk, AtIdx
<1>4. k.op = "stream" /\ k.parts \in Seq(Providers) /\ Len(k.parts) \in 1..Chunks /\ PartsOf(k) /\ Chunks \in Nat
  BY <1>3, ChainIs DEF Going, PartsOf
<1>5. CASE Len(k.parts) < Chunks
  <2>1. PICK n : n = [k EXCEPT !.parts = Append(@, p), !.heard = @ \cup {p}]
    OBVIOUS
  <2>2. call' = [call EXCEPT ![t] = n]
    BY <1>1, <1>2, <1>5, <2>1 DEF Chunk
  <2>3. PICK s : s = Append(k.parts, p)
    OBVIOUS
  <2>4. /\ s \in Seq(Providers) /\ Len(s) = Len(k.parts) + 1 /\ s[Len(k.parts) + 1] = p
        /\ \A i \in DOMAIN k.parts : s[i] = k.parts[i]
        /\ DOMAIN s = DOMAIN k.parts \cup {Len(k.parts) + 1}
    BY <1>3, <1>4, <2>3
  <2>5. /\ n.op = k.op /\ n.start = k.start /\ n.offset = k.offset /\ n.failed = k.failed /\ n.at = k.at
        /\ n.parts = s /\ n \in [op : {"ready", "chat", "stream"}, start : Providers, offset : 0..(N - 1),
              at : {"ask", "compare", "set", "more", "end"},
              failed : SUBSET Providers, parts : Seq(Providers), heard : SUBSET Providers]
    BY <1>3, <2>1, <2>3, <2>4 DEF Going
  <2>6. Idx(n) = p
    BY <1>2, <2>5 DEF Idx
  <2>7. \A i \in DOMAIN s : s[i] = p
    BY <1>2, <1>4, <2>4 DEF PartsOf
  <2>8. PartsOf(n)
    <3>1. Len(s) \in 1..Chunks
      BY <1>4, <1>5, <2>4
    <3>2. n.at = "more" /\ n.op = "stream" /\ n.parts = s
      BY <1>3, <1>4, <2>5
    <3> QED
      BY <2>4, <2>6, <2>7, <3>1, <3>2 DEF PartsOf
  <2>9. Going(n)
    BY <1>3, <2>5, <2>8, SameProvider
  <2> QED
    BY <1>3, <2>2, <2>5, <2>9, OneCall
<1>6. CASE ~ (Len(k.parts) < Chunks)
  <2>1. PICK n : n = [k EXCEPT !.at = "end", !.heard = @ \cup {p}]
    OBVIOUS
  <2>2. call' = [call EXCEPT ![t] = n]
    BY <1>1, <1>2, <1>6, <2>1 DEF Chunk
  <2>3. /\ n.op = k.op /\ n.start = k.start /\ n.offset = k.offset /\ n.failed = k.failed /\ n.at = "end"
        /\ n.parts = k.parts /\ n \in [op : {"ready", "chat", "stream"}, start : Providers, offset : 0..(N - 1),
              at : {"ask", "compare", "set", "more", "end"},
              failed : SUBSET Providers, parts : Seq(Providers), heard : SUBSET Providers]
    BY <1>3, <2>1 DEF Going
  <2>4. Idx(n) = Idx(k)
    BY <2>3 DEF Idx
  <2>5. PartsOf(n)
    BY <1>4, <1>6, <2>3, <2>4 DEF PartsOf
  <2>6. Going(n)
    BY <1>3, <2>3, <2>5, SameProvider
  <2> QED
    BY <1>3, <2>2, <2>3, <2>6, OneCall
<1> QED
  BY <1>5, <1>6

LEMMA ReturnKeeps ==
  ASSUME ChainAssumption, ChainInv, NEW t \in Callers, Return(t)
  PROVE  ChainInv'
<1>1. PICK k : k = call[t]
  OBVIOUS
<1>2. Going(k) /\ k.op \in {"ready", "chat", "stream"} /\ active' \in Providers /\ k.at = "end" /\ Chunks \in Nat \ {0}
  BY <1>1, CallIs, ChainIs DEF Return, AtIdx
<1>3. call' = [call EXCEPT ![t] = Ended(k, "done")]
  BY <1>1 DEF Return
<1>4. /\ k.parts \in Seq(Providers) /\ \A i \in DOMAIN k.parts : k.parts[i] = Idx(k)
      /\ Len(k.parts) = IF k.op = "stream" THEN Chunks ELSE 1
  BY <1>2 DEF Going, PartsOf
<1>5. Range(k.parts) = {Idx(k)}
  <2>1. 1 \in DOMAIN k.parts
    BY <1>2, <1>4
  <2> QED
    BY <1>4, <2>1 DEF Range
<1>6. Cardinality(Range(k.parts)) = 1
  BY <1>5, FS_Singleton
<1>7. Over(Ended(k, "done")) /\ Ended(k, "done").op = "done"
  BY <1>4, <1>6 DEF Over, Ended
<1> QED
  BY <1>2, <1>3, <1>7, OneCall

LEMMA CallsAsBefore ==
  ASSUME ChainInv, call' = call, active' \in Providers
  PROVE  ChainInv'
BY DEF ChainInv

LEMMA StepKeeps ==
  ASSUME ChainAssumption
  PROVE  ChainInv /\ [Next]_vars => ChainInv'
<1> SUFFICES ASSUME ChainInv, [Next]_vars PROVE ChainInv'
  OBVIOUS
<1>1. active \in Providers /\ 0 \in Providers /\ Chunks \in Nat \ {0}
  BY ChainIs DEF ChainInv
<1>2. ASSUME NEW p \in Providers, Flip(p) \/ Expire(p) PROVE ChainInv'
  BY <1>1, <1>2, CallsAsBefore DEF Flip, Expire
<1>3. ASSUME NEW t \in Callers, NEW op \in {"ready", "chat", "stream"}, Begin(t, op) PROVE ChainInv'
  BY <1>3, BeginKeeps
<1>4. ASSUME NEW t \in Callers, Proceed(t) PROVE ChainInv'
  <2>1. CASE Fail(t)
    BY <2>1, FailKeeps
  <2>2. CASE Answer(t)
    BY <2>2, AnswerKeeps
  <2>3. CASE Compare(t)
    <3>1. PICK at : at = IF Idx(call[t]) # active \/ call[t].op = "ready" THEN "set"
                         ELSE IF call[t].op = "stream" THEN "more" ELSE "end"
      OBVIOUS
    <3>2. call' = [call EXCEPT ![t].at = at] /\ active' = active /\ Busy(t) /\ call[t].at = "compare"
      BY <2>3, <3>1 DEF Compare, AtIdx
    <3> QED
      BY <1>1, <3>1, <3>2, GoesOn
  <2>4. CASE Set(t)
    <3>1. PICK at : at = IF call[t].op = "stream" THEN "more" ELSE "end"
      OBVIOUS
    <3>2. call' = [call EXCEPT ![t].at = at] /\ active' = Idx(call[t]) /\ Busy(t) /\ call[t].at = "set"
      BY <2>4, <3>1 DEF Set, AtIdx
    <3>3. active' \in Providers
      BY <3>2, CallIs, IdxIs
    <3> QED
      BY <1>1, <3>1, <3>2, <3>3, GoesOn
  <2>5. CASE Chunk(t)
    BY <2>5, ChunkKeeps
  <2>6. CASE Return(t)
    BY <2>6, ReturnKeeps
  <2> QED
    BY <1>4, <2>1, <2>2, <2>3, <2>4, <2>5, <2>6 DEF Proceed
<1>5. CASE Probing
  BY <1>1, <1>5, CallsAsBefore DEF Probing, Wake, Ping, Promote
<1>6. CASE UNCHANGED vars
  BY <1>1, <1>6, CallsAsBefore DEF vars
<1> QED
  BY <1>2, <1>3, <1>4, <1>5, <1>6 DEF Next

LEMMA ChainStarts ==
  ASSUME ChainAssumption
  PROVE  Init => ChainInv
BY ChainIs DEF Init, ChainInv, NoCall, Over

LEMMA InvAnswers == ChainInv => ChainAnswers
BY DEF ChainInv, ChainAnswers, AllWereAsked, OneProvidersAnswer, Over, Going

(* A call that ends has the answer of one provider, whole, or raised after  *)
(* all of them were asked.                                                  *)
THEOREM ChainAlwaysAnswers ==
  ASSUME ChainAssumption
  PROVE  Spec => []ChainAnswers
<1>1. Init => ChainInv
  BY ChainStarts
<1>2. ChainInv /\ [Next]_vars => ChainInv'
  BY StepKeeps
<1> QED
  BY <1>1, <1>2, InvAnswers, PTL DEF Spec

-----------------------------------------------------------------------------
(* Local files *)

LocalAssumption == "device_id" \notin Keys

Contents == [Local!AllKeys -> Nat]
Ops == [kind : {"set", "save", "export", "mint", "secret"}, k : Keys, at : {"wait", "key", "write"},
        stamp : Nat \ {0}, read : Contents, loaded : Contents, since : Nat]

(* What a save leaves behind: a request that it did not know of.           *)
SavedOver(k) == \E s \in saves : s.loaded < meant[k].at /\ meant[k].at < s.at

(* Who is past the lock holds it alone, and has read what is there.        *)
Holds(t) ==
    doing[t] # Local!Idle /\ doing[t].at # "wait" =>
        /\ lock[Local!Mine(t)] = {t}
        /\ doing[t].at = "key" => doing[t].kind = "secret"
        /\ doing[t].at = "write" => doing[t].read = local[Local!Mine(t)]
        /\ doing[t].at = "write" /\ doing[t].kind = "secret" => secret # 0

(* A configuration that was loaded has every request, or an older save     *)
(* undid it, or it came later.                                             *)
Loaded(t) ==
    doing[t] # Local!Idle /\ doing[t].kind = "save" =>
        /\ doing[t].since <= commits
        /\ \A k \in Keys : doing[t].loaded[k] = meant[k].value \/ doing[t].since < meant[k].at \/ SavedOver(k)

LocalInv ==
    /\ local \in [Local!Files -> Contents] /\ secret \in Nat /\ requests \in Nat /\ commits \in Nat
    /\ lock \in [Local!Files -> SUBSET Threads]
    /\ doing \in [Threads -> Ops \cup {Local!Idle}]
    /\ meant \in [Keys -> [value : Nat, at : Nat]] /\ \A k \in Keys : meant[k].at <= commits
    /\ \A t \in Threads : Holds(t) /\ Loaded(t)
    /\ \A k \in Keys : local["settings"][k] = meant[k].value \/ SavedOver(k)
    /\ \A id \in named : id = local["state"]["device_id"] /\ id # 0
    /\ \A k \in Keys : local["secrets"][k] \in {0, secret}

LEMMA IdleIs == \A o \in Ops : o # Local!Idle /\ o.kind # "none"
BY DEF Ops, Local!Idle

LEMMA LocalStarts == Local!Init => LocalInv
<1> SUFFICES ASSUME Local!Init PROVE LocalInv
  OBVIOUS
<1>1. Local!Unread \in Contents /\ \A k \in Local!AllKeys : Local!Unread[k] = 0
  BY DEF Local!Unread, Contents
<1>2. Keys \subseteq Local!AllKeys /\ "settings" \in Local!Files /\ "state" \in Local!Files /\ "secrets" \in Local!Files
  BY DEF Local!AllKeys, Local!Files
<1> QED
  BY <1>1, <1>2 DEF Local!Init, LocalInv, Holds, Loaded

(* The file of an operation is a file.                                     *)
LEMMA FilesAre ==
  ASSUME NEW kind
  PROVE  /\ Local!FileOf(kind) \in Local!Files /\ "settings" \in Local!Files /\ "state" \in Local!Files /\ "secrets" \in Local!Files
         /\ Keys \subseteq Local!AllKeys /\ "device_id" \in Local!AllKeys
BY DEF Local!FileOf, Local!Files, Local!AllKeys

LEMMA RequestKeeps ==
  ASSUME LocalInv, NEW t \in Threads, NEW kind \in {"set", "save", "export", "mint", "secret"}, NEW k \in Keys,
         Local!Begin(t, kind, k)
  PROVE  LocalInv'
<1>1. PICK o : o = [kind |-> kind, k |-> k, at |-> "wait", stamp |-> requests + 1, read |-> Local!Unread,
                    loaded |-> IF kind = "save" THEN local["settings"] ELSE Local!Unread,
                    since |-> IF kind = "save" THEN commits ELSE 0]
  OBVIOUS
<1>2. doing' = [doing EXCEPT ![t] = o] /\ requests' = requests + 1 /\ UNCHANGED <<local, secret, lock, meant, saves, commits, named>>
  BY <1>1 DEF Local!Begin
<1>3. local["settings"] \in Contents /\ Local!Unread \in Contents /\ requests \in Nat /\ commits \in Nat
  BY FilesAre DEF LocalInv, Local!Unread, Contents
<1>4. o \in Ops /\ o.at = "wait" /\ o.kind = kind
  BY <1>1, <1>3 DEF Ops
<1>5. doing' \in [Threads -> Ops \cup {Local!Idle}] /\ doing'[t] = o /\ \A u \in Threads \ {t} : doing'[u] = doing[u]
  BY <1>2, <1>4 DEF LocalInv
<1>6. ASSUME NEW u \in Threads PROVE Holds(u)'
  BY <1>2, <1>4, <1>5 DEF LocalInv, Holds, Local!Mine
<1>7. ASSUME NEW u \in Threads PROVE Loaded(u)'
  <2>1. CASE u = t
    <3>1. o.kind = "save" => o.loaded = local["settings"] /\ o.since = commits /\ o.since <= commits
      BY <1>1, <1>3
    <3> QED
      BY <1>2, <1>5, <2>1, <3>1 DEF LocalInv, Loaded, SavedOver
  <2>2. CASE u # t
    BY <1>2, <1>5, <2>2 DEF LocalInv, Loaded, SavedOver
  <2> QED
    BY <2>1, <2>2
<1> QED
  BY <1>2, <1>3, <1>5, <1>6, <1>7 DEF LocalInv, SavedOver

LEMMA OpIs ==
  ASSUME LocalInv, NEW t \in Threads, doing[t] # Local!Idle
  PROVE  doing[t] \in Ops /\ Local!Mine(t) \in Local!Files
BY FilesAre DEF LocalInv, Local!Mine

(* An operation that goes on: what another one holds or has loaded stays.  *)
LEMMA LockKeeps ==
  ASSUME LocalInv, NEW t \in Threads, Local!Enter(t)
  PROVE  LocalInv'
<1>1. PICK f \in Local!Files : f = Local!Mine(t)
  BY FilesAre DEF Local!Mine
<1>2. doing[t] # Local!Idle /\ doing[t].at = "wait" /\ lock[f] = {} /\ doing[t] \in Ops
  BY <1>1, OpIs DEF Local!Enter, Local!At, Local!Idle, Local!Free
<1>3. PICK o : o = [doing[t] EXCEPT !.at = IF doing[t].kind = "secret" THEN "key" ELSE "write", !.read = local[f]]
  OBVIOUS
<1>4. doing' = [doing EXCEPT ![t] = o] /\ lock' = [lock EXCEPT ![f] = @ \cup {t}]
      /\ UNCHANGED <<local, secret, requests, meant, saves, commits, named>>
  BY <1>1, <1>3 DEF Local!Enter, LocalInv
<1>5. o \in Ops /\ o.kind = doing[t].kind /\ o.loaded = doing[t].loaded /\ o.since = doing[t].since /\ o.read = local[f]
      /\ o.at = IF o.kind = "secret" THEN "key" ELSE "write"
  BY <1>1, <1>2, <1>3 DEF Ops, LocalInv
<1>6. doing' \in [Threads -> Ops \cup {Local!Idle}] /\ doing'[t] = o /\ \A u \in Threads \ {t} : doing'[u] = doing[u]
  BY <1>4, <1>5 DEF LocalInv
<1>7. lock' \in [Local!Files -> SUBSET Threads] /\ lock'[f] = {t} /\ \A g \in Local!Files \ {f} : lock'[g] = lock[g]
  BY <1>1, <1>2, <1>4 DEF LocalInv
<1>8. ASSUME NEW u \in Threads PROVE Holds(u)'
  <2>1. CASE u = t
    <3>1. Local!Mine(t)' = f
      BY <1>1, <1>5, <1>6 DEF Local!Mine
    <3> QED
      BY <1>4, <1>5, <1>6, <1>7, <2>1, <3>1 DEF Holds
  <2>2. CASE u # t
    <3>1. doing'[u] = doing[u] /\ Local!Mine(u)' = Local!Mine(u)
      BY <1>6, <2>2 DEF Local!Mine
    <3>2. CASE doing[u] # Local!Idle /\ doing[u].at # "wait"
      <4>1. lock[Local!Mine(u)] = {u} /\ Local!Mine(u) \in Local!Files
        BY <3>2, OpIs DEF LocalInv, Holds
      <4>2. Local!Mine(u) # f
        BY <1>2, <4>1
      <4> QED
        BY <1>4, <1>7, <3>1, <4>1, <4>2 DEF LocalInv, Holds
    <3> QED
      BY <3>1, <3>2 DEF Holds
  <2> QED
    BY <2>1, <2>2
<1>9. ASSUME NEW u \in Threads PROVE Loaded(u)'
  BY <1>2, <1>4, <1>5, <1>6 DEF LocalInv, Loaded, SavedOver
<1> QED
  BY <1>4, <1>6, <1>7, <1>8, <1>9 DEF LocalInv, SavedOver

(* Who holds a file holds it alone.                                        *)
LEMMA HoldsAlone ==
  ASSUME LocalInv, NEW t \in Threads, NEW u \in Threads, t # u, doing[t] # Local!Idle, doing[u] # Local!Idle,
         doing[t].at # "wait", doing[u].at # "wait"
  PROVE  Local!Mine(t) # Local!Mine(u)
<1>1. lock[Local!Mine(t)] = {t} /\ lock[Local!Mine(u)] = {u}
  BY DEF LocalInv, Holds
<1> QED
  BY <1>1

LEMMA LoadKeyKeeps ==
  ASSUME LocalInv, NEW t \in Threads, Local!LoadKey(t)
  PROVE  LocalInv'
<1>1. doing[t] # Local!Idle /\ doing[t].at = "key" /\ doing[t] \in Ops /\ lock[Local!Mine(t)] = {t} /\ doing[t].kind = "secret"
  BY OpIs DEF Local!LoadKey, Local!At, Local!Idle, LocalInv, Holds
<1>2. Local!Mine(t) = "secrets" /\ local["secrets"] \in Contents
  BY <1>1, FilesAre DEF Local!Mine, Local!FileOf, LocalInv
<1>3. PICK o : o = [doing[t] EXCEPT !.at = "write", !.read = local["secrets"]]
  OBVIOUS
<1>4. doing' = [doing EXCEPT ![t] = o] /\ secret' = Local!KeyFor(t)
      /\ UNCHANGED <<local, lock, requests, meant, saves, commits, named>>
  BY <1>3 DEF Local!LoadKey, LocalInv
<1>5. o \in Ops /\ o.kind = "secret" /\ o.at = "write" /\ o.read = local["secrets"]
  BY <1>1, <1>2, <1>3 DEF Ops
<1>6. doing' \in [Threads -> Ops \cup {Local!Idle}] /\ doing'[t] = o /\ \A u \in Threads \ {t} : doing'[u] = doing[u]
  BY <1>4, <1>5 DEF LocalInv
<1>7. secret' \in Nat \ {0} /\ (secret # 0 => secret' = secret)
  BY <1>1, <1>4 DEF Local!KeyFor, LocalInv, Ops
<1>8. ASSUME NEW u \in Threads PROVE Holds(u)'
  <2>1. CASE u = t
    <3>1. Local!Mine(t)' = "secrets"
      BY <1>5, <1>6 DEF Local!Mine, Local!FileOf
    <3> QED
      BY <1>1, <1>2, <1>4, <1>5, <1>6, <1>7, <2>1, <3>1 DEF Holds
  <2>2. CASE u # t
    BY <1>4, <1>6, <1>7, <2>2 DEF LocalInv, Holds, Local!Mine
  <2> QED
    BY <2>1, <2>2
<1>9. ASSUME NEW u \in Threads PROVE Loaded(u)'
  BY <1>4, <1>5, <1>6 DEF LocalInv, Loaded, SavedOver
<1>10. ASSUME NEW k \in Keys PROVE local["secrets"][k] \in {0, secret'}
  BY <1>7 DEF LocalInv
<1> QED
  BY <1>4, <1>6, <1>7, <1>8, <1>9, <1>10 DEF LocalInv, SavedOver

LEMMA GiveUpKeeps ==
  ASSUME LocalInv, NEW t \in Threads, Local!Fail(t)
  PROVE  LocalInv'
<1>1. PICK f \in Local!Files : f = Local!Mine(t)
  BY FilesAre DEF Local!Mine
<1>2. /\ doing' = [doing EXCEPT ![t] = Local!Idle] /\ lock' = [lock EXCEPT ![f] = @ \ {t}]
      /\ UNCHANGED <<local, secret, requests, meant, saves, commits, named>>
  BY <1>1 DEF Local!Fail
<1>3. doing' \in [Threads -> Ops \cup {Local!Idle}] /\ doing'[t] = Local!Idle /\ \A u \in Threads \ {t} : doing'[u] = doing[u]
  BY <1>2 DEF LocalInv
<1>4. lock' \in [Local!Files -> SUBSET Threads] /\ \A g \in Local!Files : lock'[g] = lock[g] \/ lock'[g] = lock[g] \ {t}
  BY <1>1, <1>2 DEF LocalInv
<1>5. ASSUME NEW u \in Threads PROVE Holds(u)'
  <2>1. CASE u = t
    BY <1>3, <2>1 DEF Holds
  <2>2. CASE u # t
    <3>1. doing'[u] = doing[u] /\ Local!Mine(u)' = Local!Mine(u)
      BY <1>3, <2>2 DEF Local!Mine
    <3>2. doing[u] # Local!Idle => Local!Mine(u) \in Local!Files
      BY OpIs
    <3> QED
      BY <1>2, <1>4, <2>2, <3>1, <3>2 DEF LocalInv, Holds
  <2> QED
    BY <2>1, <2>2
<1>6. ASSUME NEW u \in Threads PROVE Loaded(u)'
  BY <1>2, <1>3 DEF LocalInv, Loaded, SavedOver
<1> QED
  BY <1>2, <1>3, <1>4, <1>5, <1>6 DEF LocalInv, SavedOver

(* What is written has the identity that was there, the key that is there, *)
(* and all settings that were there or were loaded.                        *)
LEMMA UpdatedIs ==
  ASSUME LocalAssumption, LocalInv, NEW t \in Threads, NEW o, o = doing[t], o # Local!Idle, o.at = "write", NEW n, n = Local!Updated(t)
  PROVE  /\ n \in Contents
         /\ Local!Mine(t) = "state" => n["device_id"] = IF local["state"]["device_id"] = 0 THEN o.stamp ELSE local["state"]["device_id"]
         /\ Local!Mine(t) = "secrets" => \A k \in Keys : n[k] \in {0, secret}
         /\ Local!Mine(t) = "settings" => n[o.k] = o.stamp
         /\ Local!Mine(t) = "settings" => \A k \in Keys \ {o.k} :
               n[k] = local["settings"][k] \/ (o.kind = "save" /\ n[k] = o.loaded[k])
<1>1. o \in Ops /\ o.read = local[Local!Mine(t)] /\ o.read \in Contents /\ o.k \in Local!AllKeys /\ secret \in Nat
  BY OpIs, FilesAre DEF LocalInv, Holds, Ops
<1>2. o.k # "device_id" /\ "device_id" \in Local!AllKeys /\ Keys \subseteq Local!AllKeys /\ "secrets" \in Local!Files
  BY <1>1, FilesAre DEF LocalAssumption, Ops
<1>3. o.stamp \in Nat /\ o.loaded \in Contents /\ o.kind \in {"set", "save", "export", "mint", "secret"}
  BY <1>1 DEF Ops
<1>4. CASE o.kind = "set"
  <2>1. n = [o.read EXCEPT ![o.k] = o.stamp] /\ Local!Mine(t) = "settings"
    BY <1>4 DEF Local!Updated, Local!Mine, Local!FileOf
  <2> QED
    BY <1>1, <1>2, <1>3, <2>1 DEF Contents
<1>5. CASE o.kind = "save"
  <2>1. n = [k \in Local!AllKeys |-> IF k = o.k THEN o.stamp ELSE IF o.loaded[k] # 0 THEN o.loaded[k] ELSE o.read[k]]
        /\ Local!Mine(t) = "settings"
    BY <1>5 DEF Local!Updated, Local!Mine, Local!FileOf, Local!Overlaid
  <2> QED
    BY <1>1, <1>2, <1>3, <1>5, <2>1 DEF Contents
<1>6. CASE o.kind = "mint"
  <2>1. n = [o.read EXCEPT !["device_id"] = IF @ = 0 THEN o.stamp ELSE @] /\ Local!Mine(t) = "state"
    BY <1>6 DEF Local!Updated, Local!Mine, Local!FileOf, Local!Named
  <2> QED
    BY <1>1, <1>2, <1>3, <2>1 DEF Contents
<1>7. CASE o.kind = "export"
  <2>1. n = [[o.read EXCEPT !["device_id"] = IF @ = 0 THEN o.stamp ELSE @] EXCEPT ![o.k] = o.stamp] /\ Local!Mine(t) = "state"
    BY <1>7 DEF Local!Updated, Local!Mine, Local!FileOf, Local!Named
  <2> QED
    BY <1>1, <1>2, <1>3, <2>1 DEF Contents
<1>8. CASE o.kind = "secret"
  <2>1. n = [o.read EXCEPT ![o.k] = secret] /\ Local!Mine(t) = "secrets"
    BY <1>8 DEF Local!Updated, Local!Mine, Local!FileOf
  <2>2. \A k \in Keys : o.read[k] \in {0, secret}
    BY <1>1, <2>1 DEF LocalInv
  <2> QED
    BY <1>1, <1>2, <1>3, <2>1, <2>2 DEF Contents
<1> QED
  BY <1>3, <1>4, <1>5, <1>6, <1>7, <1>8

LEMMA WriteKeeps ==
  ASSUME LocalAssumption, LocalInv, NEW t \in Threads, Local!Commit(t)
  PROVE  LocalInv'
<1>1. PICK f \in Local!Files : f = Local!Mine(t)
  BY FilesAre DEF Local!Mine
<1>2. PICK o : o = doing[t]
  OBVIOUS
<1>3. PICK n : n = Local!Updated(t)
  OBVIOUS
<1>4. o # Local!Idle /\ o.at = "write" /\ o \in Ops /\ lock[f] = {t} /\ commits \in Nat
  BY <1>1, <1>2, OpIs DEF Local!Commit, Local!At, Local!Idle, LocalInv, Holds
<1>5. /\ n \in Contents
      /\ f = "state" => n["device_id"] = IF local["state"]["device_id"] = 0 THEN o.stamp ELSE local["state"]["device_id"]
      /\ f = "secrets" => \A k \in Keys : n[k] \in {0, secret}
      /\ f = "settings" => n[o.k] = o.stamp
      /\ f = "settings" => \A k \in Keys \ {o.k} :
            n[k] = local["settings"][k] \/ (o.kind = "save" /\ n[k] = o.loaded[k])
  BY <1>1, <1>2, <1>3, <1>4, UpdatedIs
<1>6. /\ local' = [local EXCEPT ![f] = n] /\ lock' = [lock EXCEPT ![f] = @ \ {t}] /\ doing' = [doing EXCEPT ![t] = Local!Idle]
      /\ commits' = commits + 1 /\ UNCHANGED <<secret, requests>>
      /\ meant' = IF f = "settings" THEN [meant EXCEPT ![o.k] = [value |-> o.stamp, at |-> commits + 1]] ELSE meant
      /\ saves' = IF o.kind = "save" THEN saves \cup {[loaded |-> o.since, at |-> commits + 1]} ELSE saves
      /\ named' = IF f = "state" THEN named \cup {n["device_id"]} ELSE named
  BY <1>1, <1>2, <1>3 DEF Local!Commit
<1>7. doing' \in [Threads -> Ops \cup {Local!Idle}] /\ doing'[t] = Local!Idle /\ \A u \in Threads \ {t} : doing'[u] = doing[u]
  BY <1>6 DEF LocalInv
<1>8. lock' \in [Local!Files -> SUBSET Threads] /\ \A g \in Local!Files \ {f} : lock'[g] = lock[g]
  BY <1>1, <1>6 DEF LocalInv
<1>9. local' \in [Local!Files -> Contents] /\ local'[f] = n /\ \A g \in Local!Files \ {f} : local'[g] = local[g]
  BY <1>1, <1>5, <1>6 DEF LocalInv
<1>10. o.k \in Keys /\ o.stamp \in Nat \ {0} /\ o.since \in Nat /\ Keys \subseteq Local!AllKeys
       /\ "settings" \in Local!Files /\ "state" \in Local!Files /\ "secrets" \in Local!Files /\ "device_id" \in Local!AllKeys
  BY <1>4, FilesAre DEF Ops
<1>11. meant' \in [Keys -> [value : Nat, at : Nat]] /\ \A k \in Keys : meant'[k].at <= commits'
  BY <1>4, <1>6, <1>10 DEF LocalInv
<1>12. ASSUME NEW u \in Threads PROVE Holds(u)'
  <2>1. CASE u = t
    BY <1>7, <2>1 DEF Holds
  <2>2. CASE u # t
    <3>1. doing'[u] = doing[u] /\ Local!Mine(u)' = Local!Mine(u)
      BY <1>7, <2>2 DEF Local!Mine
    <3>2. CASE doing[u] # Local!Idle /\ doing[u].at # "wait"
      <4>1. Local!Mine(u) \in Local!Files /\ Local!Mine(u) # f
        BY <1>1, <1>2, <1>4, <2>2, <3>2, OpIs, HoldsAlone
      <4> QED
        BY <1>6, <1>8, <1>9, <3>1, <3>2, <4>1 DEF LocalInv, Holds
    <3> QED
      BY <3>1, <3>2 DEF Holds
  <2> QED
    BY <2>1, <2>2
(* What was undone stays so, unless the request is repeated.               *)
<1>13. ASSUME NEW k \in Keys, meant'[k] = meant[k], SavedOver(k) PROVE SavedOver(k)'
  BY <1>6, <1>13 DEF SavedOver
<1>14. ASSUME NEW k \in Keys, meant'[k] # meant[k] PROVE meant'[k].at = commits + 1 /\ f = "settings" /\ k = o.k
  BY <1>6, <1>10, <1>14 DEF LocalInv
<1>15. ASSUME NEW u \in Threads PROVE Loaded(u)'
  <2>1. CASE u = t
    BY <1>7, <2>1 DEF Loaded
  <2>2. CASE u # t
    <3>1. doing'[u] = doing[u]
      BY <1>7, <2>2
    <3>2. CASE doing[u] # Local!Idle /\ doing[u].kind = "save"
      <4>1. doing[u] \in Ops /\ doing[u].since \in Nat /\ doing[u].since <= commits /\ doing[u].since <= commits'
        BY <1>4, <1>6, <3>2, OpIs DEF LocalInv, Loaded, Ops
      <4>2. ASSUME NEW k \in Keys, meant'[k] = meant[k]
            PROVE  doing[u].loaded[k] = meant'[k].value \/ doing[u].since < meant'[k].at \/ SavedOver(k)'
        BY <1>13, <3>2, <4>2 DEF LocalInv, Loaded
      <4>3. ASSUME NEW k \in Keys, meant'[k] # meant[k] PROVE doing[u].since < meant'[k].at
        BY <1>4, <1>14, <4>1, <4>3
      <4> QED
        BY <3>1, <4>1, <4>2, <4>3 DEF Loaded
    <3> QED
      BY <3>1, <3>2 DEF Loaded
  <2> QED
    BY <2>1, <2>2
<1>16. ASSUME NEW k \in Keys PROVE local'["settings"][k] = meant'[k].value \/ SavedOver(k)'
  <2>1. CASE f # "settings"
    <3>1. meant' = meant /\ local'["settings"] = local["settings"]
      BY <1>6, <1>9, <1>10, <2>1
    <3> QED
      BY <1>13, <3>1 DEF LocalInv
  <2>2. CASE f = "settings" /\ k = o.k
    BY <1>5, <1>6, <1>9, <1>10, <2>2 DEF LocalInv
  <2>3. CASE f = "settings" /\ k # o.k
    <3>1. meant'[k] = meant[k] /\ local'["settings"][k] = n[k]
      BY <1>6, <1>9, <1>10, <2>3 DEF LocalInv
    <3>2. CASE n[k] = local["settings"][k]
      BY <1>13, <3>1, <3>2 DEF LocalInv
    <3>3. CASE o.kind = "save" /\ n[k] = o.loaded[k]
      <4>1. o.loaded[k] = meant[k].value \/ o.since < meant[k].at \/ SavedOver(k)
        BY <1>2, <1>4, <3>3 DEF LocalInv, Loaded
      <4>2. CASE o.since < meant[k].at
        <5>1. [loaded |-> o.since, at |-> commits + 1] \in saves'
          BY <1>6, <3>3
        <5>2. o.since < meant'[k].at /\ meant'[k].at < commits + 1
          BY <1>4, <3>1, <4>2 DEF LocalInv
        <5> QED
          BY <5>1, <5>2 DEF SavedOver
      <4> QED
        BY <1>13, <3>1, <3>3, <4>1, <4>2
    <3> QED
      BY <1>5, <2>3, <3>2, <3>3
  <2> QED
    BY <2>1, <2>2, <2>3
<1>17. ASSUME NEW id \in named' PROVE id = local'["state"]["device_id"] /\ id # 0
  <2>1. CASE f # "state"
    BY <1>6, <1>9, <1>10, <2>1 DEF LocalInv
  <2>2. CASE f = "state"
    <3>1. local'["state"] = n /\ named' = named \cup {n["device_id"]}
      BY <1>6, <1>9, <2>2
    <3>2. n["device_id"] # 0 /\ (local["state"]["device_id"] # 0 => n["device_id"] = local["state"]["device_id"])
      BY <1>5, <1>10, <2>2
    <3> QED
      BY <3>1, <3>2 DEF LocalInv
  <2> QED
    BY <2>1, <2>2
<1>18. ASSUME NEW k \in Keys PROVE local'["secrets"][k] \in {0, secret'}
  BY <1>5, <1>6, <1>9, <1>10 DEF LocalInv
<1>19. commits' \in Nat /\ secret' \in Nat /\ requests' \in Nat
  BY <1>4, <1>6 DEF LocalInv
<1> QED
  BY <1>7, <1>8, <1>9, <1>11, <1>12, <1>15, <1>16, <1>17, <1>18, <1>19 DEF LocalInv

LEMMA LocalKeeps == LocalAssumption /\ LocalInv /\ [Local!Next]_Local!vars => LocalInv'
<1> SUFFICES ASSUME LocalAssumption, LocalInv, [Local!Next]_Local!vars PROVE LocalInv'
  OBVIOUS
<1>1. CASE UNCHANGED Local!vars
  BY <1>1 DEF Local!vars, LocalInv, Holds, Loaded, SavedOver, Local!Mine
<1> QED
  BY <1>1, RequestKeeps, LockKeeps, LoadKeyKeeps, WriteKeeps, GiveUpKeeps DEF Local!Next

LEMMA LocalFiles == LocalInv => Local!FilesMeet
BY DEF LocalInv, Local!FilesMeet, Local!ChangesMeet, Local!OneIdentity, Local!SecretsOpen, SavedOver

(* No update of settings, state or secrets is lost but by an older save, the *)
(* identity is handed out once, and every secret has its key.                *)
THEOREM FilesAlwaysMeet ==
  ASSUME LocalAssumption
  PROVE  Local!Spec => []Local!FilesMeet
<1>1. LocalInv /\ [Local!Next]_Local!vars => LocalInv'
  BY LocalKeeps
<1> QED
  BY <1>1, LocalStarts, LocalFiles, PTL DEF Local!Spec

-----------------------------------------------------------------------------
(* The sweep of caches *)

(* What the inspection has seen is so, unless the stamp has moved since,   *)
(* and behind the last look at the files, unless something was written.    *)
SweepInv ==
    /\ stamp \in Nat /\ look \in [stamp : Nat, empty : BOOLEAN]
    /\ phase \in {"files", "root", "copy", "again", "rooted", "delete", "end"}
    /\ phase \in {"root", "copy", "again"} /\ look.stamp = stamp => journal = Sweep!NoJournal
    /\ look.stamp <= stamp
    /\ phase = "again" /\ look.stamp = stamp => database = 0
    /\ phase \in {"rooted", "delete"} /\ ~ since => database = 0 /\ journal = Sweep!NoJournal
    /\ phase = "delete" => look.stamp = shown
    /\ ~ lost /\ ~ other

LEMMA SweepStarts == Sweep!Init => SweepInv
BY DEF Sweep!Init, SweepInv, Sweep!Nothing

LEMMA SweepKeeps == SweepInv /\ [Sweep!Next]_Sweep!vars => SweepInv'
<1> SUFFICES ASSUME SweepInv, [Sweep!Next]_Sweep!vars PROVE SweepInv'
  OBVIOUS
<1> USE DEF SweepInv, Sweep!NoJournal
<1>1. CASE Sweep!Open
  BY <1>1 DEF Sweep!Open, Sweep!Written
<1>2. CASE Sweep!Commit
  BY <1>2 DEF Sweep!Commit, Sweep!Written
<1>3. CASE Sweep!Close
  BY <1>3 DEF Sweep!Close, Sweep!Written
<1>4. CASE Sweep!Recreate
  BY <1>4 DEF Sweep!Recreate, Sweep!Written
<1>5. CASE Sweep!Appear
  BY <1>5 DEF Sweep!Appear
<1>6. CASE Sweep!Files
  <2>1. /\ UNCHANGED <<there, root, database, journal, stamp, shown, lost, other>> /\ since' = FALSE
        /\ \/ Sweep!Recognized /\ phase' = "root" /\ look' = [stamp |-> stamp, empty |-> FALSE]
           \/ phase' = "end" /\ look' = look
    BY <1>6 DEF Sweep!Files, Sweep!Refuse, Sweep!Nothing
  <2>2. stamp \in Nat /\ look \in [stamp : Nat, empty : BOOLEAN] /\ look.stamp <= stamp
    OBVIOUS
  <2>3. [stamp |-> stamp, empty |-> FALSE] \in [stamp : Nat, empty : BOOLEAN] /\ stamp <= stamp
    BY <2>2
  <2>4. look' \in [stamp : Nat, empty : BOOLEAN] /\ look'.stamp <= stamp
    <3>1. PICK n : n = look'
      OBVIOUS
    <3>2. n = [stamp |-> stamp, empty |-> FALSE] \/ n = look
      BY <2>1, <3>1
    <3>3. n \in [stamp : Nat, empty : BOOLEAN] /\ n.stamp <= stamp
      <4>1. CASE n = [stamp |-> stamp, empty |-> FALSE]
        <5>1. n \in [stamp : Nat, empty : BOOLEAN]
          BY <2>3, <4>1, Zenon
        <5>2. n.stamp = stamp
          BY <4>1, Zenon
        <5> QED
          BY <2>2, <5>1, <5>2
      <4>2. CASE n = look
        BY <2>2, <4>2
      <4> QED
        BY <3>2, <4>1, <4>2
    <3> QED
      BY <3>1, <3>3
  <2> QED
    BY <2>1, <2>4 DEF Sweep!Recognized
<1>7. CASE Sweep!Root
  BY <1>7 DEF Sweep!Root, Sweep!Refuse
<1>8. CASE Sweep!Copy
  <2>1. /\ UNCHANGED <<there, root, database, journal, stamp, shown, since, lost, other>> /\ phase = "copy"
        /\ \/ database = 0 /\ phase' = "again" /\ look' = [look EXCEPT !.empty = TRUE]
           \/ phase' = "end" /\ look' = look
    BY <1>8 DEF Sweep!Copy, Sweep!Refuse
  <2>2. look' \in [stamp : Nat, empty : BOOLEAN] /\ look'.stamp = look.stamp
    <3>1. look \in [stamp : Nat, empty : BOOLEAN]
      OBVIOUS
    <3>2. PICK new : new = [look EXCEPT !.empty = TRUE]
      OBVIOUS
    <3>3. new \in [stamp : Nat, empty : BOOLEAN] /\ new.stamp = look.stamp
      BY <3>1, <3>2
    <3> QED
      BY <2>1, <3>1, <3>2, <3>3, Zenon
  <2>3. stamp \in Nat /\ look.stamp <= stamp /\ (look.stamp = stamp => journal = 99)
    BY <2>1
  <2>4. CASE phase' = "again" /\ database = 0
    BY <2>1, <2>2, <2>3, <2>4
  <2>5. CASE phase' = "end"
    BY <2>1, <2>2, <2>3, <2>5
  <2> QED
    BY <2>1, <2>4, <2>5
<1>9. CASE Sweep!Again
  BY <1>9 DEF Sweep!Again, Sweep!Unaltered, Sweep!Recognized, Sweep!Refuse
<1>10. CASE Sweep!Rooted
  BY <1>10 DEF Sweep!Rooted, Sweep!Refuse, Sweep!Same
<1>11. CASE Sweep!Delete
  BY <1>11 DEF Sweep!Delete
<1>12. CASE UNCHANGED Sweep!vars
  BY <1>12 DEF Sweep!vars
<1> QED
  BY <1>1, <1>2, <1>3, <1>4, <1>5, <1>6, <1>7, <1>8, <1>9, <1>10, <1>11, <1>12 DEF Sweep!Next

(* What is deleted was shown, and its rows, if any, came after the last    *)
(* look at the files.                                                      *)
THEOREM Sweeping == Sweep!Spec => []Sweep!SweepsWhatItShowed
<1>1. SweepInv => Sweep!SweepsWhatItShowed
  BY DEF SweepInv, Sweep!SweepsWhatItShowed, Sweep!LosesOnlyLateRows, Sweep!DeletesWhatWasShown
<1> QED
  BY <1>1, SweepStarts, SweepKeeps, PTL DEF Sweep!Spec

(* Both parts of what keeps a device's files.                              *)
THEOREM FilesAlwaysHold ==
  ASSUME LocalAssumption
  PROVE  Local!Spec /\ Sweep!Spec => []FilesHold
<1>1. Local!FilesMeet /\ Sweep!SweepsWhatItShowed => FilesHold
  BY DEF FilesHold
<1> QED
  BY <1>1, FilesAlwaysMeet, Sweeping, PTL

-----------------------------------------------------------------------------
(* The search index *)

IndexTexts == [Index!Records -> Nat]
ChunkIds == Index!Records \X Nat
Stages == {"none", "relations", "reports", "docs", "list", "chunks", "have", "embed"}
Refreshes == [at : Stages, read : IndexTexts, listed : IndexTexts, todo : SUBSET (ChunkIds \X Nat), size : Nat,
              undisturbed : BOOLEAN]

(* A chunk is named by its text, and a vector is of the chunk it is        *)
(* stored for.                                                             *)
Stored ==
    /\ records \in IndexTexts /\ docs \in IndexTexts /\ model \in Index!Dimensions /\ mixed \in BOOLEAN
    /\ DOMAIN chunks \subseteq ChunkIds /\ \A c \in DOMAIN chunks : chunks[c] = c[2]
    /\ DOMAIN embedded \subseteq DOMAIN chunks
    /\ \A c \in DOMAIN embedded : embedded[c].text = c[2] /\ embedded[c].size \in Index!Dimensions

OfOneSize == ~ mixed => \A c, d \in DOMAIN embedded : embedded[c].size = embedded[d].size

(* A refresh that nothing disturbed is alone, and so are all while none    *)
(* have overlapped.                                                        *)
RefreshesAlone(t) ==
    Index!Going(t) /\ (~ mixed \/ refresh[t].undisturbed) => \A o \in Refreshers \ {t} : ~ Index!Going(o)

(* What is left to embed is of the chunks' own texts, and of the size that *)
(* the vectors have.                                                       *)
Embeds(t) ==
    /\ \A job \in refresh[t].todo : job[1][2] = job[2]
    /\ ~ mixed /\ refresh[t].at = "embed" /\ refresh[t].todo # {} =>
          \A c \in DOMAIN embedded : embedded[c].size = refresh[t].size

(* What a refresh that nothing disturbed has read or written is so.        *)
Sees(t) ==
    refresh[t].undisturbed =>
        /\ refresh[t].at = "reports" => refresh[t].read["e"] = records["e"] /\ refresh[t].read["r"] = records["r"]
        /\ refresh[t].at = "docs" => refresh[t].read = records
        /\ refresh[t].at = "list" => docs = Index!Projected(records)
        /\ refresh[t].at = "chunks" => docs = Index!Projected(records) /\ refresh[t].listed = docs

IndexInv ==
    /\ Stored /\ OfOneSize /\ Index!Closed
    /\ refresh \in [Refreshers -> Refreshes]
    /\ \A t \in Refreshers : RefreshesAlone(t) /\ Embeds(t) /\ Sees(t)

LEMMA SleepIs ==
  /\ Index!None \in IndexTexts /\ Index!Asleep \in Refreshes
  /\ Index!Asleep.at = "none" /\ Index!Asleep.todo = {}
<1>1. Index!None \in IndexTexts
  BY DEF Index!None, IndexTexts
<1> QED
  BY <1>1 DEF Index!Asleep, Refreshes, Stages

LEMMA IndexStarts == Index!Init => IndexInv
<1> SUFFICES ASSUME Index!Init PROVE IndexInv
  OBVIOUS
<1>1. records \in IndexTexts /\ docs \in IndexTexts /\ Index!Closed
  BY SleepIs DEF Index!Init, IndexTexts, Index!None, Index!Closed, Index!Records
<1>2. refresh \in [Refreshers -> Refreshes] /\ \A t \in Refreshers : refresh[t] = Index!Asleep
  BY SleepIs DEF Index!Init
<1>3. \A t \in Refreshers : RefreshesAlone(t) /\ Embeds(t) /\ Sees(t)
  BY <1>2, SleepIs DEF RefreshesAlone, Embeds, Sees, Index!Going
<1>4. DOMAIN chunks = {} /\ DOMAIN embedded = {} /\ model \in Index!Dimensions /\ mixed = FALSE
  BY DEF Index!Init, Index!Dimensions
<1>5. Stored /\ OfOneSize
  BY <1>1, <1>4 DEF Stored, OfOneSize
<1> QED
  BY <1>1, <1>2, <1>3, <1>5 DEF IndexInv

(* What is projected is closed.                                            *)
LEMMA ProjectedIs ==
  ASSUME NEW read \in IndexTexts
  PROVE  /\ Index!Projected(read) \in IndexTexts
         /\ Index!Projected(read)["p"] # 0 => Index!Projected(read)["r"] # 0
         /\ Index!Projected(read)["y"] # 0 => Index!Projected(read)["p"] # 0
<1>1. PICK p \in Nat : p = IF read["r"] = 0 THEN 0 ELSE read["p"]
  BY DEF IndexTexts, Index!Records
<1>2. PICK y \in Nat : y = IF p = 0 THEN 0 ELSE read["y"]
  BY DEF IndexTexts, Index!Records
<1>3. PICK new : new = [read EXCEPT !["p"] = p, !["y"] = y]
  OBVIOUS
<1>4. Index!Projected(read) = new
  BY <1>1, <1>2, <1>3 DEF Index!Projected, IndexTexts, Index!Records
<1>5. new \in IndexTexts /\ new["p"] = p /\ new["y"] = y /\ new["r"] = read["r"]
  BY <1>3 DEF IndexTexts, Index!Records
<1> QED
  BY <1>1, <1>2, <1>4, <1>5

(* A step of one refresh: no other is one that nothing disturbed.          *)
LEMMA OneRefreshes ==
  ASSUME IndexInv, NEW t \in Refreshers, Index!Going(t), NEW n \in Refreshes,
         refresh' = [refresh EXCEPT ![t] = n], n.undisturbed => refresh[t].undisturbed \/ n.at = "none",
         records' = records, mixed' = mixed, Stored', OfOneSize', Index!Closed',
         \A job \in n.todo : job[1][2] = job[2],
         ~ mixed /\ n.at = "embed" /\ n.todo # {} => \A c \in DOMAIN embedded' : embedded'[c].size = n.size,
         n.undisturbed =>
            /\ n.at = "reports" => n.read["e"] = records["e"] /\ n.read["r"] = records["r"]
            /\ n.at = "docs" => n.read = records
            /\ n.at = "list" => docs' = Index!Projected(records)
            /\ n.at = "chunks" => docs' = Index!Projected(records) /\ n.listed = docs'
  PROVE  IndexInv'
<1>1. refresh' \in [Refreshers -> Refreshes] /\ refresh'[t] = n /\ \A o \in Refreshers \ {t} : refresh'[o] = refresh[o]
  BY DEF IndexInv
<1>2. ASSUME NEW o \in Refreshers \ {t} PROVE Index!Going(o) => ~ refresh[o].undisturbed /\ mixed
  BY DEF IndexInv, RefreshesAlone, Stored
<1>3. ASSUME NEW o \in Refreshers PROVE RefreshesAlone(o)'
  <2>1. CASE o = t
    BY <1>1, <2>1 DEF IndexInv, RefreshesAlone, Index!Going
  <2>2. CASE o # t
    BY <1>1, <1>2, <2>2 DEF RefreshesAlone, Index!Going
  <2> QED
    BY <2>1, <2>2
<1>4. ASSUME NEW o \in Refreshers PROVE Embeds(o)'
  <2>1. CASE o = t
    BY <1>1, <2>1 DEF Embeds
  <2>2. CASE o # t
    BY <1>1, <1>2, <2>2 DEF IndexInv, Embeds, Index!Going
  <2> QED
    BY <2>1, <2>2
<1>5. ASSUME NEW o \in Refreshers PROVE Sees(o)'
  <2>1. CASE o = t
    BY <1>1, <2>1 DEF Sees
  <2>2. CASE o # t
    BY <1>1, <1>2, <2>2 DEF Sees, Index!Going
  <2> QED
    BY <2>1, <2>2
<1> QED
  BY <1>1, <1>3, <1>4, <1>5 DEF IndexInv

(* The records change: no refresh is undisturbed any more.                 *)
LEMMA ChangeKeeps ==
  ASSUME IndexInv, NEW k \in Index!Records, NEW text \in Nat, Index!Change(k, text)
  PROVE  IndexInv'
<1>1. /\ records' = [records EXCEPT ![k] = text]
      /\ refresh' = [t \in Refreshers |-> [refresh[t] EXCEPT !.undisturbed = FALSE]]
      /\ UNCHANGED <<docs, chunks, embedded, model, mixed>>
  BY DEF Index!Change
<1>2. ASSUME NEW t \in Refreshers
      PROVE  /\ refresh'[t] \in Refreshes /\ ~ refresh'[t].undisturbed /\ refresh'[t].at = refresh[t].at
             /\ refresh'[t].todo = refresh[t].todo /\ refresh'[t].size = refresh[t].size
  <2>1. PICK m \in Refreshes : m = refresh[t]
    BY DEF IndexInv
  <2>2. PICK n : n = [m EXCEPT !.undisturbed = FALSE]
    OBVIOUS
  <2>3. n \in Refreshes /\ ~ n.undisturbed /\ n.at = m.at /\ n.todo = m.todo /\ n.size = m.size
    BY <2>1, <2>2 DEF Refreshes
  <2> QED
    BY <1>1, <2>1, <2>2, <2>3
<1>3. refresh' \in [Refreshers -> Refreshes]
  BY <1>1, <1>2
<1>4. Stored' /\ OfOneSize' /\ Index!Closed'
  BY <1>1 DEF IndexInv, Stored, OfOneSize, Index!Closed, IndexTexts
<1>5. ASSUME NEW t \in Refreshers PROVE RefreshesAlone(t)' /\ Embeds(t)' /\ Sees(t)'
  BY <1>1, <1>2 DEF IndexInv, RefreshesAlone, Embeds, Sees, Index!Going
<1> QED
  BY <1>3, <1>4, <1>5 DEF IndexInv

LEMMA SwapKeeps ==
  ASSUME IndexInv, Index!Swap
  PROVE  IndexInv'
<1>1. model' \in Index!Dimensions /\ UNCHANGED <<records, docs, chunks, embedded, refresh, mixed>>
  BY DEF Index!Swap
<1> QED
  BY <1>1 DEF IndexInv, Stored, OfOneSize, Index!Closed, RefreshesAlone, Embeds, Sees, Index!Going

LEMMA RefreshBegins ==
  ASSUME IndexInv, NEW t \in Refreshers, Index!Begin(t)
  PROVE  IndexInv'
<1>1. PICK alone \in BOOLEAN : alone = \A o \in Refreshers : ~Index!Going(o)
  OBVIOUS
<1>2. PICK n : n = [Index!Asleep EXCEPT !.at = "relations", !.undisturbed = alone]
  OBVIOUS
<1>3. n \in Refreshes /\ n.at = "relations" /\ n.undisturbed = alone /\ n.todo = {}
  BY <1>2, SleepIs DEF Refreshes, Stages
<1>4. /\ ~ Index!Going(t) /\ refresh' = [o \in Refreshers |-> IF o = t THEN n ELSE [refresh[o] EXCEPT !.undisturbed = FALSE]]
      /\ mixed' = (mixed \/ ~alone)
      /\ UNCHANGED <<records, docs, chunks, embedded, model>>
  BY <1>1, <1>2 DEF Index!Begin
<1>5. ASSUME NEW o \in Refreshers \ {t}
      PROVE  /\ refresh'[o] \in Refreshes /\ ~ refresh'[o].undisturbed /\ refresh'[o].at = refresh[o].at
             /\ refresh'[o].todo = refresh[o].todo /\ refresh'[o].size = refresh[o].size
  <2>1. PICK m \in Refreshes : m = refresh[o]
    BY DEF IndexInv
  <2>2. PICK new : new = [m EXCEPT !.undisturbed = FALSE]
    OBVIOUS
  <2>3. new \in Refreshes /\ ~ new.undisturbed /\ new.at = m.at /\ new.todo = m.todo /\ new.size = m.size
    BY <2>1, <2>2 DEF Refreshes
  <2> QED
    BY <1>4, <2>1, <2>2, <2>3
<1>6. refresh'[t] = n /\ refresh' \in [Refreshers -> Refreshes]
  BY <1>3, <1>4, <1>5
<1>7. Stored' /\ OfOneSize' /\ Index!Closed'
  <2>1. mixed' \in BOOLEAN /\ (~ mixed' => ~ mixed)
    BY <1>4 DEF IndexInv, Stored
  <2> QED
    BY <1>4, <2>1 DEF IndexInv, Stored, OfOneSize, Index!Closed
<1>8. ASSUME NEW o \in Refreshers PROVE RefreshesAlone(o)'
  <2>1. alone => \A r \in Refreshers : refresh[r].at = "none"
    BY <1>1 DEF Index!Going
  <2>2. ~ mixed' => alone
    BY <1>1, <1>4
  <2>3. CASE o = t
    BY <1>3, <1>5, <1>6, <2>1, <2>2, <2>3 DEF RefreshesAlone, Index!Going
  <2>4. CASE o # t
    BY <1>5, <2>1, <2>2, <2>4 DEF RefreshesAlone, Index!Going
  <2> QED
    BY <2>3, <2>4
<1>9. ASSUME NEW o \in Refreshers PROVE Embeds(o)' /\ Sees(o)'
  BY <1>3, <1>4, <1>5, <1>6 DEF IndexInv, Stored, Embeds, Sees
<1> QED
  BY <1>6, <1>7, <1>8, <1>9 DEF IndexInv

LEMMA ReadRelationsKeeps ==
  ASSUME IndexInv, NEW t \in Refreshers, Index!ReadRelations(t)
  PROVE  IndexInv'
<1>1. PICK m \in Refreshes : m = refresh[t]
  BY DEF IndexInv
<1>2. PICK read : read = [m.read EXCEPT !["e"] = records["e"], !["r"] = records["r"]]
  OBVIOUS
<1>3. read \in IndexTexts /\ read["e"] = records["e"] /\ read["r"] = records["r"]
  BY <1>1, <1>2 DEF IndexInv, Stored, Refreshes, IndexTexts, Index!Records
<1>4. PICK n : n = [m EXCEPT !.at = "reports", !.read = read]
  OBVIOUS
<1>5. n \in Refreshes /\ n.at = "reports" /\ n.read = read /\ n.undisturbed = m.undisturbed /\ n.todo = m.todo
  BY <1>1, <1>3, <1>4 DEF Refreshes, Stages
<1>6. /\ m.at = "relations" /\ refresh' = [refresh EXCEPT ![t] = n]
      /\ UNCHANGED <<records, docs, chunks, embedded, model, mixed>>
  BY <1>1, <1>2, <1>4 DEF Index!ReadRelations, IndexInv, Refreshes
<1>7. Index!Going(t) /\ Stored' /\ OfOneSize' /\ Index!Closed' /\ \A job \in n.todo : job[1][2] = job[2]
  BY <1>1, <1>5, <1>6 DEF IndexInv, Stored, OfOneSize, Index!Closed, Embeds, Index!Going
<1> QED
  BY <1>1, <1>3, <1>5, <1>6, <1>7, OneRefreshes

LEMMA ReadReportsKeeps ==
  ASSUME IndexInv, NEW t \in Refreshers, Index!ReadReports(t)
  PROVE  IndexInv'
<1>1. PICK m \in Refreshes : m = refresh[t]
  BY DEF IndexInv
<1>2. PICK read : read = [m.read EXCEPT !["p"] = records["p"], !["y"] = records["y"]]
  OBVIOUS
<1>3. read \in IndexTexts /\ read["p"] = records["p"] /\ read["y"] = records["y"]
      /\ read["e"] = m.read["e"] /\ read["r"] = m.read["r"]
  BY <1>1, <1>2 DEF IndexInv, Stored, Refreshes, IndexTexts, Index!Records
<1>4. PICK n : n = [m EXCEPT !.at = "docs", !.read = read]
  OBVIOUS
<1>5. n \in Refreshes /\ n.at = "docs" /\ n.read = read /\ n.undisturbed = m.undisturbed /\ n.todo = m.todo
  BY <1>1, <1>3, <1>4 DEF Refreshes, Stages
<1>6. /\ m.at = "reports" /\ refresh' = [refresh EXCEPT ![t] = n]
      /\ UNCHANGED <<records, docs, chunks, embedded, model, mixed>>
  BY <1>1, <1>2, <1>4 DEF Index!ReadReports, IndexInv, Refreshes
<1>7. Index!Going(t) /\ Stored' /\ OfOneSize' /\ Index!Closed' /\ \A job \in n.todo : job[1][2] = job[2]
  BY <1>1, <1>5, <1>6 DEF IndexInv, Stored, OfOneSize, Index!Closed, Embeds, Index!Going
<1>8. n.undisturbed => n.read = records
  <2>1. n.undisturbed => m.read["e"] = records["e"] /\ m.read["r"] = records["r"]
    BY <1>1, <1>5, <1>6 DEF IndexInv, Sees
  <2>2. n.undisturbed => \A k \in Index!Records : read[k] = records[k]
    BY <1>3, <2>1 DEF Index!Records
  <2> QED
    BY <1>3, <1>5, <2>2 DEF IndexInv, Stored, IndexTexts
<1> QED
  BY <1>1, <1>5, <1>6, <1>7, <1>8, OneRefreshes

LEMMA Restricts ==
  ASSUME NEW f, NEW S
  PROVE  DOMAIN Index!Restrict(f, S) = S /\ \A x \in S : Index!Restrict(f, S)[x] = f[x]
BY DEF Index!Restrict

LEMMA SyncDocsKeeps ==
  ASSUME IndexInv, NEW t \in Refreshers, Index!SyncDocs(t)
  PROVE  IndexInv'
<1>1. PICK m \in Refreshes : m = refresh[t]
  BY DEF IndexInv
<1>2. PICK n : n = [m EXCEPT !.at = "list"]
  OBVIOUS
<1>3. n \in Refreshes /\ n.at = "list" /\ n.undisturbed = m.undisturbed /\ n.todo = m.todo /\ m.read \in IndexTexts
  BY <1>1, <1>2 DEF Refreshes, Stages
<1>4. PICK kept : kept = Index!ChunksOf(docs')
  OBVIOUS
<1>5. /\ m.at = "docs" /\ refresh' = [refresh EXCEPT ![t] = n] /\ docs' = Index!Projected(m.read)
      /\ chunks' = Index!Restrict(chunks, kept) /\ embedded' = Index!Restrict(embedded, DOMAIN embedded \cap kept)
      /\ UNCHANGED <<records, model, mixed>>
  BY <1>1, <1>2, <1>4 DEF Index!SyncDocs, Index!Synced, Index!Step, Index!VectorsOf
<1>6. kept \subseteq DOMAIN chunks
  BY <1>4 DEF Index!ChunksOf
<1>7. /\ DOMAIN chunks' = kept /\ \A c \in kept : chunks'[c] = chunks[c]
      /\ DOMAIN embedded' = DOMAIN embedded \cap kept /\ \A c \in DOMAIN embedded' : embedded'[c] = embedded[c]
  BY <1>5, Restricts
<1>8. docs' \in IndexTexts /\ Index!Closed'
  BY <1>3, <1>5, ProjectedIs DEF Index!Closed
<1>9. Index!Going(t) /\ Stored' /\ OfOneSize' /\ \A job \in n.todo : job[1][2] = job[2]
  <2>1. DOMAIN chunks \subseteq ChunkIds /\ DOMAIN embedded \subseteq DOMAIN chunks /\ \A c \in DOMAIN chunks : chunks[c] = c[2]
    BY DEF IndexInv, Stored
  <2>2. \A c \in DOMAIN embedded : embedded[c].text = c[2] /\ embedded[c].size \in Index!Dimensions
    BY DEF IndexInv, Stored
  <2>3. DOMAIN chunks' \subseteq ChunkIds /\ DOMAIN embedded' \subseteq DOMAIN chunks' /\ \A c \in DOMAIN chunks' : chunks'[c] = c[2]
    BY <1>6, <1>7, <2>1
  <2>4. \A c \in DOMAIN embedded' : c \in DOMAIN embedded /\ embedded'[c] = embedded[c]
    BY <1>7
  <2>5. \A c \in DOMAIN embedded' : embedded'[c].text = c[2] /\ embedded'[c].size \in Index!Dimensions
    BY <2>2, <2>4
  <2>6. Stored'
    BY <1>5, <1>8, <2>3, <2>5 DEF IndexInv, Stored
  <2>7. OfOneSize'
    <3>1. ASSUME ~ mixed, NEW c \in DOMAIN embedded', NEW d \in DOMAIN embedded' PROVE embedded'[c].size = embedded'[d].size
      <4>1. embedded[c].size = embedded[d].size
        BY <2>4, <3>1 DEF IndexInv, OfOneSize
      <4> QED
        BY <2>4, <4>1
    <3> QED
      BY <1>5, <3>1 DEF OfOneSize
  <2> QED
    BY <1>1, <1>3, <1>5, <2>6, <2>7 DEF IndexInv, Embeds, Index!Going
<1>10. n.undisturbed => docs' = Index!Projected(records)
  BY <1>1, <1>3, <1>5 DEF IndexInv, Sees
<1> QED
  BY <1>1, <1>3, <1>5, <1>8, <1>9, <1>10, OneRefreshes

LEMMA ListDocsKeeps ==
  ASSUME IndexInv, NEW t \in Refreshers, Index!ListDocs(t)
  PROVE  IndexInv'
<1>1. PICK m \in Refreshes : m = refresh[t]
  BY DEF IndexInv
<1>2. PICK n : n = [m EXCEPT !.at = "chunks", !.listed = docs]
  OBVIOUS
<1>3. n \in Refreshes /\ n.at = "chunks" /\ n.undisturbed = m.undisturbed /\ n.todo = m.todo /\ n.listed = docs
  BY <1>1, <1>2 DEF IndexInv, Stored, Refreshes, Stages
<1>4. /\ m.at = "list" /\ refresh' = [refresh EXCEPT ![t] = n]
      /\ UNCHANGED <<records, docs, chunks, embedded, model, mixed>>
  BY <1>1, <1>2 DEF Index!ListDocs, IndexInv, Refreshes
<1>5. Index!Going(t) /\ Stored' /\ OfOneSize' /\ Index!Closed' /\ \A job \in n.todo : job[1][2] = job[2]
  BY <1>1, <1>3, <1>4 DEF IndexInv, Stored, OfOneSize, Index!Closed, Embeds, Index!Going
<1>6. n.undisturbed => docs' = Index!Projected(records) /\ n.listed = docs'
  BY <1>1, <1>3, <1>4 DEF IndexInv, Sees
<1> QED
  BY <1>1, <1>3, <1>4, <1>5, <1>6, OneRefreshes

(* A refresh that ends, or is refused.                                     *)
LEMMA RefreshEndKeeps ==
  ASSUME IndexInv, NEW t \in Refreshers, Index!Going(t), refresh' = [refresh EXCEPT ![t] = Index!Asleep],
         UNCHANGED <<records, docs, chunks, embedded, model, mixed>>
  PROVE  IndexInv'
<1>1. Stored' /\ OfOneSize' /\ Index!Closed'
  BY DEF IndexInv, Stored, OfOneSize, Index!Closed
<1> QED
  BY <1>1, SleepIs, OneRefreshes

LEMMA WriteChunksKeeps ==
  ASSUME IndexInv, NEW t \in Refreshers, Index!WriteChunks(t)
  PROVE  IndexInv'
<1>1. PICK m \in Refreshes : m = refresh[t]
  BY DEF IndexInv
<1>2. PICK new : new = {k \in Index!Records : m.listed[k] # 0}
  OBVIOUS
<1>3. m.at = "chunks" /\ Index!Going(t) /\ UNCHANGED <<records, docs, model, mixed>>
  BY <1>1 DEF Index!WriteChunks, Index!Going
<1>4. CASE \E k \in new : docs[k] = 0
  BY <1>1, <1>2, <1>3, <1>4, RefreshEndKeeps DEF Index!WriteChunks
<1>5. CASE ~ \E k \in new : docs[k] = 0
  <2>1. PICK n : n = [m EXCEPT !.at = "have"]
    OBVIOUS
  <2>2. n \in Refreshes /\ n.at = "have" /\ n.undisturbed = m.undisturbed /\ n.todo = m.todo
    BY <1>1, <2>1 DEF Refreshes, Stages
  <2>3. PICK kept : kept = {Index!Chunk(k, m.listed[k]) : k \in new}
    OBVIOUS
  <2>4. /\ refresh' = [refresh EXCEPT ![t] = n]
        /\ chunks' = [c \in kept |-> m.listed[c[1]]]
        /\ embedded' = Index!Restrict(embedded, DOMAIN embedded \cap DOMAIN chunks')
    BY <1>1, <1>2, <1>5, <2>1, <2>3 DEF Index!WriteChunks, Index!VectorsOf, Index!Step
  <2>5. ASSUME NEW c \in kept PROVE c \in ChunkIds /\ m.listed[c[1]] = c[2]
    <3>1. PICK k \in new : c = <<k, m.listed[k]>>
      BY <2>3 DEF Index!Chunk
    <3>2. k \in Index!Records /\ m.listed[k] \in Nat
      BY <1>2, <3>1 DEF Refreshes, IndexTexts
    <3> QED
      BY <3>1, <3>2 DEF ChunkIds
  <2>6. /\ DOMAIN chunks' = kept /\ \A c \in kept : chunks'[c] = c[2]
        /\ DOMAIN embedded' = DOMAIN embedded \cap kept /\ \A c \in DOMAIN embedded' : embedded'[c] = embedded[c]
    BY <2>4, <2>5, Restricts
  <2>7. Stored' /\ OfOneSize' /\ Index!Closed' /\ \A job \in n.todo : job[1][2] = job[2]
    BY <1>1, <1>3, <2>2, <2>5, <2>6 DEF IndexInv, Stored, OfOneSize, Index!Closed, Embeds
  <2> QED
    BY <1>1, <1>3, <2>2, <2>4, <2>7, OneRefreshes
<1> QED
  BY <1>4, <1>5

(* The index counts as every module does.                                  *)
LEMMA CountsAgree == ASSUME NEW S PROVE Index!Cardinality(S) = Cardinality(S)
BY DEF Cardinality, Index!Cardinality

(* The sizes of the vectors, if they are one.                              *)
LEMMA SizeIs ==
  ASSUME IndexInv, ~ mixed, NEW sizes, sizes = {embedded[c].size : c \in DOMAIN embedded}
  PROVE  Cardinality(sizes) <= 1 /\ \A c \in DOMAIN embedded : embedded[c].size = Index!SizeOf(sizes)
<1>1. CASE DOMAIN embedded = {}
  <2>1. sizes = {}
    BY <1>1
  <2>2. Cardinality(sizes) = 0
    BY <2>1, FS_EmptySet
  <2> QED
    BY <1>1, <2>2
<1>2. ASSUME NEW c \in DOMAIN embedded PROVE Cardinality(sizes) <= 1 /\ \A d \in DOMAIN embedded : embedded[d].size = Index!SizeOf(sizes)
  <2>1. \A d \in DOMAIN embedded : embedded[d].size = embedded[c].size
    BY DEF IndexInv, OfOneSize
  <2>2. PICK n : n = embedded[c].size
    OBVIOUS
  <2>3. sizes = {n}
    BY <2>1, <2>2
  <2>4. Cardinality(sizes) = 1
    BY <2>3, FS_Singleton
  <2>5. Index!SizeOf(sizes) = n
    BY <2>3, <2>4, CountsAgree DEF Index!SizeOf
  <2> QED
    BY <2>1, <2>2, <2>4, <2>5
<1> QED
  BY <1>1, <1>2

LEMMA ReadVectorsKeeps ==
  ASSUME IndexInv, NEW t \in Refreshers, Index!ReadVectors(t)
  PROVE  IndexInv'
<1>1. PICK m \in Refreshes : m = refresh[t]
  BY DEF IndexInv
<1>2. PICK sizes : sizes = {embedded[c].size : c \in DOMAIN embedded}
  OBVIOUS
<1>3. PICK missing : missing = {c \in DOMAIN chunks : ~(c \in DOMAIN embedded /\ embedded[c].text = chunks[c])}
  OBVIOUS
<1>4. PICK jobs : jobs = {<<c, chunks[c]>> : c \in missing}
  OBVIOUS
<1>5. PICK todo : todo = IF Cardinality(sizes) > 1 THEN {} ELSE jobs
  OBVIOUS
<1>6. PICK size : size = Index!SizeOf(sizes)
  OBVIOUS
<1>7. PICK n : n = [m EXCEPT !.at = "embed", !.size = size, !.todo = todo]
  OBVIOUS
<1>8. /\ m.at = "have" /\ refresh' = [refresh EXCEPT ![t] = n]
      /\ UNCHANGED <<records, docs, chunks, embedded, model, mixed>>
  BY <1>1, <1>2, <1>3, <1>4, <1>5, <1>6, <1>7, CountsAgree DEF Index!ReadVectors, IndexInv, Refreshes
<1>9. ASSUME NEW job \in todo PROVE job \in ChunkIds \X Nat /\ job[1][2] = job[2]
  <2>1. PICK c \in missing : job = <<c, chunks[c]>>
    BY <1>4, <1>5
  <2>2. c \in ChunkIds /\ chunks[c] = c[2] /\ c[2] \in Nat
    BY <1>3, <2>1 DEF IndexInv, Stored, ChunkIds
  <2> QED
    BY <2>1, <2>2
<1>10. size \in Nat
  <2>1. sizes \subseteq Nat
    BY <1>2 DEF IndexInv, Stored, Index!Dimensions
  <2>2. CASE Cardinality(sizes) = 1
    <3>1. IsFiniteSet(sizes)
      <4>1. sizes \subseteq 1..2
        BY <1>2 DEF IndexInv, Stored, Index!Dimensions
      <4>2. IsFiniteSet(1..2)
        BY 1 \in Int, 2 \in Int, FS_Interval
      <4> QED
        BY <4>1, <4>2, FS_Subset
    <3>2. PICK x : sizes = {x}
      BY <2>2, <3>1, FS_Singleton
    <3> QED
      BY <1>6, <2>1, <2>2, <3>2, CountsAgree DEF Index!SizeOf
  <2>3. CASE Cardinality(sizes) # 1
    BY <1>6, <2>3, CountsAgree DEF Index!SizeOf
  <2> QED
    BY <2>2, <2>3
<1>11. n \in Refreshes /\ n.at = "embed" /\ n.undisturbed = m.undisturbed /\ n.todo = todo /\ n.size = size
  <2>1. todo \subseteq ChunkIds \X Nat
    BY <1>9
  <2> QED
    BY <1>1, <1>7, <1>10, <2>1 DEF Refreshes, Stages
<1>12. Index!Going(t) /\ Stored' /\ OfOneSize' /\ Index!Closed'
  BY <1>1, <1>8 DEF IndexInv, Stored, OfOneSize, Index!Closed, Index!Going
<1>13. ~ mixed => \A c \in DOMAIN embedded' : embedded'[c].size = n.size
  BY <1>2, <1>6, <1>8, <1>11, SizeIs
<1> QED
  BY <1>1, <1>8, <1>9, <1>11, <1>12, <1>13, OneRefreshes

(* The next chunk is embedded, refused, or gone.                           *)
LEMMA EmbedKeeps ==
  ASSUME IndexInv, NEW t \in Refreshers, Index!Embed(t)
  PROVE  IndexInv'
<1>1. PICK m \in Refreshes : m = refresh[t]
  BY DEF IndexInv
<1>2. PICK job : job = Index!Job(t)
  OBVIOUS
<1>3. m.at = "embed" /\ m.todo # {} /\ Index!Going(t) /\ UNCHANGED <<records, docs, chunks, model, mixed>>
  BY <1>1 DEF Index!Embed, Index!Going
<1>4. job \in m.todo /\ job \in ChunkIds \X Nat /\ job[1][2] = job[2] /\ job[1] \in ChunkIds
  <2>1. job \in m.todo
    BY <1>1, <1>2, <1>3 DEF Index!Job
  <2>2. m.todo \subseteq ChunkIds \X Nat
    BY DEF Refreshes
  <2> QED
    BY <1>1, <2>1, <2>2 DEF IndexInv, Embeds
<1>5. PICK c \in ChunkIds : c = job[1]
  BY <1>4
<1>6. PICK rest : rest = m.todo \ {job}
  OBVIOUS
<1>7. rest \subseteq ChunkIds \X Nat /\ \A j \in rest : j[1][2] = j[2]
  BY <1>1, <1>6 DEF IndexInv, Embeds, Refreshes
<1>8. PICK done : done = [m EXCEPT !.todo = rest]
  OBVIOUS
<1>9. done \in Refreshes /\ done.at = "embed" /\ done.todo = rest /\ done.size = m.size /\ done.undisturbed = m.undisturbed
  BY <1>1, <1>3, <1>7, <1>8 DEF Refreshes
<1>10. [refresh EXCEPT ![t].todo = @ \ {Index!Job(t)}] = [refresh EXCEPT ![t] = done]
  BY <1>1, <1>2, <1>6, <1>8 DEF IndexInv
<1>11. CASE m.size \notin {0, model}
  <2>1. refresh' = [refresh EXCEPT ![t] = done] /\ embedded' = embedded
    BY <1>1, <1>10, <1>11 DEF Index!Embed
  <2>2. Stored' /\ OfOneSize' /\ Index!Closed'
    BY <1>3, <2>1 DEF IndexInv, Stored, OfOneSize, Index!Closed
  <2>3. ~ mixed => \A d \in DOMAIN embedded' : embedded'[d].size = done.size
    BY <1>1, <1>3, <1>9, <2>1 DEF IndexInv, Embeds
  <2> QED
    BY <1>1, <1>3, <1>7, <1>9, <2>1, <2>2, <2>3, OneRefreshes
<1>12. CASE m.size \in {0, model} /\ c \notin DOMAIN chunks
  <2>1. refresh' = [refresh EXCEPT ![t] = Index!Asleep] /\ embedded' = embedded
    BY <1>1, <1>2, <1>5, <1>12 DEF Index!Embed
  <2> QED
    BY <1>3, <2>1, RefreshEndKeeps
<1>13. CASE m.size \in {0, model} /\ c \in DOMAIN chunks
  <2>1. PICK n : n = [done EXCEPT !.size = model]
    OBVIOUS
  <2>2. n \in Refreshes /\ n.at = "embed" /\ n.todo = rest /\ n.size = model /\ n.undisturbed = m.undisturbed
        /\ model \in Index!Dimensions
    BY <1>9, <2>1 DEF Refreshes, IndexInv, Stored, Index!Dimensions
  <2>3. PICK v : v = [text |-> job[2], size |-> model]
    OBVIOUS
  <2>4. refresh' = [refresh EXCEPT ![t] = n]
        /\ embedded' = [d \in DOMAIN embedded \cup {c} |-> IF d = c THEN v ELSE embedded[d]]
    <3>1. [[refresh EXCEPT ![t].todo = @ \ {Index!Job(t)}] EXCEPT ![t].size = model] = [refresh EXCEPT ![t] = n]
      BY <1>1, <1>10, <2>1 DEF IndexInv
    <3> QED
      BY <1>1, <1>2, <1>5, <1>13, <2>3, <3>1 DEF Index!Embed
  <2>5. /\ DOMAIN embedded' = DOMAIN embedded \cup {c} /\ embedded'[c] = v
        /\ \A d \in DOMAIN embedded \ {c} : embedded'[d] = embedded[d]
    BY <2>4
  <2>6. v.text = c[2] /\ v.size = model
    BY <1>4, <1>5, <2>3
  <2>7. Stored'
    <3>1. ASSUME NEW d \in DOMAIN embedded' PROVE embedded'[d].text = d[2] /\ embedded'[d].size \in Index!Dimensions
      BY <2>2, <2>5, <2>6 DEF IndexInv, Stored
    <3>2. DOMAIN embedded' \subseteq DOMAIN chunks
      BY <1>13, <2>5 DEF IndexInv, Stored
    <3> QED
      BY <1>3, <3>1, <3>2 DEF IndexInv, Stored
  <2>8. ~ mixed => \A d \in DOMAIN embedded' : embedded'[d].size = model
    <3>1. ASSUME ~ mixed, NEW d \in DOMAIN embedded PROVE embedded[d].size = model
      <4>1. embedded[d].size = m.size /\ embedded[d].size \in {1, 2}
        BY <1>1, <1>3, <3>1 DEF IndexInv, Embeds, Stored, Index!Dimensions
      <4> QED
        BY <1>13, <4>1
    <3> QED
      BY <2>5, <2>6, <3>1
  <2>9. OfOneSize' /\ Index!Closed'
    BY <1>3, <2>8 DEF OfOneSize, IndexInv, Index!Closed
  <2> QED
    BY <1>1, <1>3, <1>7, <2>2, <2>4, <2>7, <2>8, <2>9, OneRefreshes
<1> QED
  BY <1>11, <1>12, <1>13

LEMMA EmbedFailsKeeps ==
  ASSUME IndexInv, NEW t \in Refreshers, Index!EmbedFails(t)
  PROVE  IndexInv'
<1>1. PICK m \in Refreshes : m = refresh[t]
  BY DEF IndexInv
<1>2. PICK rest : rest = m.todo \ {Index!Job(t)}
  OBVIOUS
<1>3. PICK n : n = [m EXCEPT !.todo = rest]
  OBVIOUS
<1>4. /\ m.at = "embed" /\ m.todo # {} /\ refresh' = [refresh EXCEPT ![t] = n]
      /\ UNCHANGED <<records, docs, chunks, embedded, model, mixed>>
  BY <1>1, <1>2, <1>3 DEF Index!EmbedFails, IndexInv
<1>5. rest \subseteq ChunkIds \X Nat /\ \A j \in rest : j[1][2] = j[2]
  BY <1>1, <1>2 DEF IndexInv, Embeds, Refreshes
<1>6. n \in Refreshes /\ n.at = "embed" /\ n.todo = rest /\ n.size = m.size /\ n.undisturbed = m.undisturbed
  BY <1>1, <1>3, <1>4, <1>5 DEF Refreshes
<1>7. Index!Going(t) /\ Stored' /\ OfOneSize' /\ Index!Closed'
  BY <1>1, <1>4 DEF IndexInv, Stored, OfOneSize, Index!Closed, Index!Going
<1>8. ~ mixed => \A c \in DOMAIN embedded' : embedded'[c].size = n.size
  BY <1>1, <1>4, <1>6 DEF IndexInv, Embeds
<1> QED
  BY <1>1, <1>4, <1>5, <1>6, <1>7, <1>8, OneRefreshes

LEMMA IndexKeeps == IndexInv /\ [Index!Next]_Index!vars => IndexInv'
<1> SUFFICES ASSUME IndexInv, [Index!Next]_Index!vars PROVE IndexInv'
  OBVIOUS
<1>1. CASE UNCHANGED Index!vars
  <2>1. UNCHANGED <<records, docs, chunks, embedded, model, refresh, mixed>>
    BY <1>1 DEF Index!vars
  <2> QED
    BY <2>1 DEF IndexInv, Stored, OfOneSize, Index!Closed, RefreshesAlone, Embeds, Sees, Index!Going
<1>2. ASSUME NEW k \in Index!Records, NEW text \in 0..2, Index!Change(k, text) PROVE IndexInv'
  <2>1. text \in Nat
    OBVIOUS
  <2> QED
    BY <1>2, <2>1, ChangeKeeps
<1>3. CASE Index!Swap
  BY <1>3, SwapKeeps
<1>4. ASSUME NEW t \in Refreshers, Index!Begin(t) \/ Index!ReadRelations(t) \/ Index!ReadReports(t) \/ Index!SyncDocs(t)
      PROVE IndexInv'
  BY <1>4, RefreshBegins, ReadRelationsKeeps, ReadReportsKeeps, SyncDocsKeeps
<1>5. ASSUME NEW t \in Refreshers, Index!ListDocs(t) \/ Index!WriteChunks(t) \/ Index!ReadVectors(t) PROVE IndexInv'
  BY <1>5, ListDocsKeeps, WriteChunksKeeps, ReadVectorsKeeps
<1>6. ASSUME NEW t \in Refreshers, Index!Embed(t) \/ Index!EmbedFails(t) PROVE IndexInv'
  BY <1>6, EmbedKeeps, EmbedFailsKeeps
<1>7. ASSUME NEW t \in Refreshers, Index!End(t) PROVE IndexInv'
  BY <1>7, RefreshEndKeeps DEF Index!End, Index!Going
<1>8. ASSUME NEW text \in 0..2, Index!Change("e", text) PROVE IndexInv'
  BY <1>2, <1>8 DEF Index!Records
<1>9. ASSUME NEW k \in Index!Records, NEW text \in 0..1, Index!Change(k, text) PROVE IndexInv'
  <2>1. text \in 0..2
    OBVIOUS
  <2> QED
    BY <1>2, <1>9, <2>1
<1> QED
  BY <1>1, <1>3, <1>4, <1>5, <1>6, <1>7, <1>8, <1>9 DEF Index!Next

(* The rebuild of an undisturbed refresh: the documents are those of the   *)
(* records, and the chunks theirs.                                         *)
LEMMA RefreshRepairs == IndexInv => Index!Repairs
<1> SUFFICES ASSUME IndexInv, NEW t \in Refreshers, Index!WriteChunks(t), refresh[t].undisturbed
             PROVE  /\ docs = Index!Projected(records)
                    /\ {<<c[1], chunks'[c]>> : c \in DOMAIN chunks'}
                         = {<<k, docs[k]>> : k \in {k \in Index!Records : docs[k] # 0}}
  BY DEF Index!Repairs
<1>1. docs = Index!Projected(records) /\ refresh[t].listed = docs
  BY DEF Index!WriteChunks, IndexInv, Sees
<1>2. PICK new : new = {k \in Index!Records : docs[k] # 0}
  OBVIOUS
<1>3. chunks' = [c \in {Index!Chunk(k, docs[k]) : k \in new} |-> docs[c[1]]]
  BY <1>1, <1>2 DEF Index!WriteChunks
<1>4. ASSUME NEW c \in DOMAIN chunks' PROVE \E k \in new : <<c[1], chunks'[c]>> = <<k, docs[k]>>
  <2>1. PICK k \in new : c = <<k, docs[k]>>
    BY <1>3 DEF Index!Chunk
  <2>2. c[1] = k /\ chunks'[c] = docs[c[1]]
    BY <1>3, <2>1
  <2> QED
    BY <2>2
<1>5. ASSUME NEW k \in new PROVE \E c \in DOMAIN chunks' : <<c[1], chunks'[c]>> = <<k, docs[k]>>
  <2>1. <<k, docs[k]>> \in DOMAIN chunks'
    BY <1>3 DEF Index!Chunk
  <2>2. chunks'[<<k, docs[k]>>] = docs[k]
    BY <1>3, <2>1
  <2> QED
    BY <2>1, <2>2
<1> QED
  BY <1>1, <1>2, <1>4, <1>5

LEMMA IndexStep == IndexInv => Index!VectorsTrue /\ Index!Closed /\ Index!OneSize
<1> SUFFICES ASSUME IndexInv PROVE Index!VectorsTrue /\ Index!OneSize
  BY DEF IndexInv
<1>1. Index!VectorsTrue
  BY DEF IndexInv, Stored, Index!VectorsTrue
<1>2. Index!OneSize
  BY SizeIs, CountsAgree DEF Index!OneSize
<1> QED
  BY <1>1, <1>2

(* The index stays a true copy, whatever changes while it is rebuilt.      *)
THEOREM IndexIsTruthful == Index!Spec => IndexTruthful
<1>1. IndexInv /\ IndexInv' => Index!Refreshing
  <2>1. IndexInv' => Index!VectorsTrue' /\ Index!Closed' /\ Index!OneSize'
    BY IndexStep, PTL
  <2> QED
    BY <2>1, RefreshRepairs DEF Index!Refreshing
<1> QED
  BY <1>1, IndexStarts, IndexKeeps, PTL DEF Index!Spec, IndexTruthful

-----------------------------------------------------------------------------
(* Questions *)

(* A question has these fields and no other. *)
IsQuestion(k) ==
    k = [at |-> k.at, asked |-> k.asked, policy |-> k.policy, hash |-> k.hash, status |-> k.status,
         terms |-> k.terms, intent |-> k.intent, knowledge |-> k.knowledge, route |-> k.route,
         items |-> k.items, gone |-> k.gone, warnings |-> k.warnings, lists |-> k.lists,
         failed |-> k.failed, excluded |-> k.excluded, fetched |-> k.fetched, cited |-> k.cited,
         error |-> k.error]

Unread == {"policy", "hash", "derive"}
Served == {"budget", "synthesis", "done"}

(* Nothing is found or warned of before the route is chosen. *)
Starts(k) ==
    /\ k.at \in Unread => k.knowledge
    /\ k.at \in Unread \cup {"route"} => k.items = {} /\ k.warnings = {} /\ ~ k.failed

Classified(k) ==
    /\ ~ k.knowledge => k.status = "derived"
    /\ k.at \notin Unread \cup {"route"} => (("skipped" \in k.warnings) <=> ~ k.knowledge)

Warned(k) == k.failed => "vector_failed" \in k.warnings \/ "vector_unavailable" \in k.warnings

InScope(k) ==
    k.at \in Served => \A i \in k.items : \A s \in i.spans \ k.gone : Question!Permits(k.policy, SourceOf[s])

Cited(k) ==
    /\ k.at \in {"synthesis", "done"} => k.fetched = Question!SpansOf(k.items)
    /\ k.at = "done" => k.cited \subseteq k.fetched /\ (k.error => k.cited = k.fetched)

Sound(k) ==
    /\ IsQuestion(k) /\ k.knowledge \in BOOLEAN /\ k.failed \in BOOLEAN /\ k.error \in BOOLEAN
    /\ Starts(k) /\ Classified(k) /\ Warned(k) /\ InScope(k) /\ Cited(k)

LEMMA StartsSound == Question!Init => Sound(question)
<1> SUFFICES ASSUME Question!Init PROVE Sound(question)
  OBVIOUS
<1>1. PICK r \in Requests : question = [Question!Fresh EXCEPT !.asked = r, !.status = IF r.given THEN "given" ELSE "unset"]
  BY DEF Question!Init
<1>2. /\ IsQuestion(question) /\ question.at = "policy" /\ question.knowledge = TRUE /\ question.failed = FALSE /\ question.error = FALSE
      /\ question.items = {} /\ question.warnings = {}
  BY <1>1 DEF Question!Fresh, IsQuestion
<1> QED
  BY <1>2 DEF Sound, Starts, Classified, Warned, InScope, Cited, Unread, Served

(* A step of the search. *)
Searches(at, lists, failed, warnings, items) ==
    /\ question.at \in {"lex", "vec", "vecx", "rerank"} /\ at \in {"vec", "vecx", "rerank", "scope"}
    /\ failed \in BOOLEAN /\ (failed => question.failed \/ "vector_failed" \in warnings \/ "vector_unavailable" \in warnings)
    /\ question.warnings \subseteq warnings /\ ("skipped" \in warnings => "skipped" \in question.warnings)
    /\ question' = [question EXCEPT !.at = at, !.lists = lists, !.failed = failed, !.warnings = warnings, !.items = items]

LEMMA SearchSound ==
  ASSUME Sound(question), Question!Lex \/ Question!VecRaw \/ Question!VecExpanded \/ Question!Rank
  PROVE  Sound(question')
<1>1. ASSUME NEW at, NEW lists, NEW failed, NEW warnings, NEW items, Searches(at, lists, failed, warnings, items)
      PROVE  Sound(question')
  <2>1. /\ IsQuestion(question') /\ question'.at = at /\ question'.failed = failed /\ question'.warnings = warnings
        /\ question'.knowledge = question.knowledge /\ question'.error = question.error /\ question'.status = question.status
    BY <1>1 DEF Searches, Sound, IsQuestion
  <2>2. at \notin Unread \cup {"route"} \cup Served /\ question.at \notin Unread \cup {"route"} \cup Served
    BY <1>1 DEF Searches, Unread, Served
  <2>3. Starts(question') /\ InScope(question') /\ Cited(question')
    BY <2>1, <2>2 DEF Starts, InScope, Cited, Served
  <2>4. Classified(question') /\ Warned(question')
    BY <1>1, <2>1, <2>2 DEF Classified, Warned, Searches, Sound
  <2> QED
    BY <1>1, <2>1, <2>3, <2>4 DEF Searches, Sound
<1>2. CASE Question!Lex
  <2>1. PICK lists : lists = question.lists \cup {"lex"}
    OBVIOUS
  <2>2. Searches("vec", lists, question.failed, question.warnings, question.items)
    BY <1>2, <2>1 DEF Question!Lex, Searches, Sound, IsQuestion
  <2> QED
    BY <1>1, <2>2
<1>3. ASSUME NEW next \in {"vecx", "rerank"}, question.at \in {"vec", "vecx"}, question' = Question!Vector(next)
      PROVE  Sound(question')
  <2>1. CASE Question!VectorFails
    <3>1. PICK warnings : warnings = question.warnings \cup {"vector_failed"}
      OBVIOUS
    <3>2. Searches(next, question.lists, TRUE, warnings, question.items)
      BY <1>3, <2>1, <3>1 DEF Question!Vector, Searches, Sound, IsQuestion
    <3> QED
      BY <1>1, <3>2
  <2>2. CASE ~ Question!VectorFails
    <3>1. PICK lists : lists = question.lists \cup {"vec"}
      OBVIOUS
    <3>2. Searches(next, lists, question.failed, question.warnings, question.items)
      BY <1>3, <2>2, <3>1 DEF Question!Vector, Searches, Sound, IsQuestion
    <3> QED
      BY <1>1, <3>2
  <2> QED
    BY <2>1, <2>2
<1>4. CASE Question!VecRaw
  <2>1. CASE Question!Available
    BY <1>3, <1>4, <2>1 DEF Question!VecRaw
  <2>2. CASE ~ Question!Available
    <3>1. PICK warnings : warnings = question.warnings \cup {"vector_unavailable"}
      OBVIOUS
    <3>2. Searches("rerank", question.lists, TRUE, warnings, question.items)
      BY <1>4, <2>2, <3>1 DEF Question!VecRaw, Searches, Sound, IsQuestion
    <3> QED
      BY <1>1, <3>2
  <2> QED
    BY <2>1, <2>2
<1>5. CASE Question!VecExpanded
  <2>1. CASE question.failed
    <3>1. Searches("rerank", question.lists, question.failed, question.warnings, question.items)
      BY <1>5, <2>1 DEF Question!VecExpanded, Searches, Sound, IsQuestion
    <3> QED
      BY <1>1, <3>1
  <2> QED
    BY <1>3, <1>5, <2>1 DEF Question!VecExpanded
<1>6. CASE Question!Rank
  <2>1. PICK reranked \in BOOLEAN, hits \in SUBSET DOMAIN indexed :
           question' = [question EXCEPT !.at = "scope", !.items = @ \cup {[id |-> d, spans |-> indexed[d]] : d \in hits},
                          !.warnings = IF reranked THEN @ ELSE @ \cup {"reranker_failed"}]
    BY <1>6 DEF Question!Rank
  <2>2. PICK items, warnings : /\ items = question.items \cup {[id |-> d, spans |-> indexed[d]] : d \in hits}
                               /\ warnings = IF reranked THEN question.warnings ELSE question.warnings \cup {"reranker_failed"}
    OBVIOUS
  <2>3. Searches("scope", question.lists, question.failed, warnings, items)
    <3>1. question' = [question EXCEPT !.at = "scope", !.items = items, !.warnings = warnings]
      BY <2>1, <2>2
    <3>2. question.warnings \subseteq warnings /\ ("skipped" \in warnings => "skipped" \in question.warnings)
      BY <2>2
    <3>3. question.at = "rerank" /\ question.failed \in BOOLEAN /\ Warned(question) /\ IsQuestion(question)
      BY <1>6 DEF Question!Rank, Sound
    <3>4. question' = [question EXCEPT !.at = "scope", !.lists = question.lists, !.failed = question.failed, !.warnings = warnings, !.items = items]
      BY <3>1, <3>3 DEF IsQuestion
    <3> QED
      BY <3>2, <3>3, <3>4 DEF Searches, Warned
  <2> QED
    BY <1>1, <2>3
<1> QED
  BY <1>2, <1>4, <1>5, <1>6

LEMMA StepsSound == Sound(question) /\ [Question!Next]_Question!vars => Sound(question)'
<1> SUFFICES ASSUME Sound(question), [Question!Next]_Question!vars PROVE Sound(question')
  OBVIOUS
<1>0. CASE UNCHANGED question
  BY <1>0
<1>1. CASE Question!ReadPolicy
  BY <1>1 DEF Question!ReadPolicy, Sound, IsQuestion, Starts, Classified, Warned, InScope, Cited, Unread, Served
<1>2. CASE Question!HashPolicy
  BY <1>2 DEF Question!HashPolicy, Sound, IsQuestion, Starts, Classified, Warned, InScope, Cited, Unread, Served
<1>3. CASE Question!Derive
  <2>1. CASE question.asked.foreign /\ ~ question.asked.given
    <3>1. PICK status \in {"derived", "fallback"}, verdict \in BOOLEAN, intent \in {"", "lookup", "synthesis", "discovery"} :
             question' = [question EXCEPT !.at = "route", !.status = status, !.intent = intent,
                            !.terms = status = "derived" /\ verdict, !.knowledge = Question!Adopted(status, verdict)]
      BY <1>3, <2>1 DEF Question!Derive
    <3>2. Question!Adopted(status, verdict) \in BOOLEAN /\ (~ Question!Adopted(status, verdict) => status = "derived")
      BY DEF Question!Adopted
    <3>3. PICK known : known = Question!Adopted(status, verdict)
      OBVIOUS
    <3> QED
      BY <1>3, <3>1, <3>2, <3>3 DEF Question!Derive, Sound, IsQuestion, Starts, Classified, Warned, InScope, Cited, Unread, Served
  <2>2. CASE ~ (question.asked.foreign /\ ~ question.asked.given)
    <3>1. question' = [question EXCEPT !.at = "route", !.terms = question.asked.given \/ ~ question.asked.foreign]
      BY <1>3, <2>2 DEF Question!Derive
    <3>2. PICK t : t = (question.asked.given \/ ~ question.asked.foreign)
      OBVIOUS
    <3> QED
      BY <1>3, <3>1, <3>2 DEF Question!Derive, Sound, IsQuestion, Starts, Classified, Warned, InScope, Cited, Unread, Served
  <2> QED
    BY <2>1, <2>2
<1>4. CASE Question!Route
  <2>1. PICK route, at, warnings :
          /\ question.at = "route" /\ at \notin Unread \cup {"route", "synthesis", "done"}
          /\ IF ~ question.knowledge THEN warnings = {"skipped"} ELSE at # "budget" /\ "skipped" \notin warnings
          /\ question' = [question EXCEPT !.at = at, !.route = route, !.warnings = warnings]
    <3>1. PICK route \in Question!Allowed :
             question' = IF ~question.knowledge
                  THEN [question EXCEPT !.at = "budget", !.route = route, !.warnings = {"skipped"}]
                  ELSE [question EXCEPT !.at = CASE route = "local" -> "entities" [] route = "explore" -> "entities"
                                          [] route = "global" -> "primers" [] OTHER -> "source",
                                 !.route = route,
                                 !.warnings = IF question.status \in {"unset", "fallback"} /\ ~question.terms THEN {"unseeded"} ELSE {}]
      BY <1>4 DEF Question!Route
    <3>2. PICK at : at = CASE route = "local" -> "entities" [] route = "explore" -> "entities"
                           [] route = "global" -> "primers" [] OTHER -> "source"
      OBVIOUS
    <3>3. PICK warnings : warnings = IF question.status \in {"unset", "fallback"} /\ ~question.terms THEN {"unseeded"} ELSE {}
      OBVIOUS
    <3>4. at \in {"entities", "primers", "source"} /\ "skipped" \notin warnings
      BY <3>2, <3>3
    <3> QED
      BY <1>4, <3>1, <3>2, <3>3, <3>4 DEF Question!Route, Unread
  <2> QED
    BY <2>1 DEF Sound, IsQuestion, Starts, Classified, Warned, InScope, Cited, Unread, Served
<1>5. CASE \E new, at : question.at \notin Unread \cup {"route"} \cup Served /\ at \in {"primers", "spans", "lex", "scope"} /\ Question!Add(new, at)
  <2>1. PICK new, at : question.at \notin Unread \cup {"route"} \cup Served /\ at \in {"primers", "spans", "lex", "scope"} /\ Question!Add(new, at)
    BY <1>5
  <2>2. PICK items : items = question.items \cup new
    OBVIOUS
  <2>3. question' = [question EXCEPT !.items = items, !.at = at]
    BY <2>1, <2>2 DEF Question!Add
  <2> QED
    BY <2>1, <2>3 DEF Sound, IsQuestion, Starts, Classified, Warned, InScope, Cited, Unread, Served
<1>6. CASE Question!ReadEntities \/ Question!ReadSpans \/ Question!ReadPrimers \/ Question!ReadSource
  BY <1>5, <1>6 DEF Question!ReadEntities, Question!ReadSpans, Question!ReadPrimers, Question!ReadSource, Unread, Served
<1>7. CASE Question!Lex \/ Question!VecRaw \/ Question!VecExpanded \/ Question!Rank
  BY <1>7, SearchSound
<1>8. CASE Question!Scope
  <2>1. PICK all : all = Question!SpansOf(question.items)
    OBVIOUS
  <2>2. PICK gone : gone = all \ spans
    OBVIOUS
  <2>3. PICK kept : kept = {i \in question.items : Question!ItemInScope(i)}
    OBVIOUS
  <2>4. PICK n : n = Question!Cardinality(question.items \ kept)
    OBVIOUS
  <2>5. question.at = "scope" /\ question' = [question EXCEPT !.at = "budget", !.items = kept, !.excluded = n, !.gone = gone]
    BY <1>8, <2>1, <2>2, <2>3, <2>4 DEF Question!Scope
  <2>6. ASSUME NEW i \in kept, NEW s \in i.spans \ gone
        PROVE  Question!Permits(question.policy, SourceOf[s])
    <3>1. s \in all /\ Question!SpanInScope(s)
      BY <2>1, <2>3, <2>6 DEF Question!ItemInScope, Question!SpansOf
    <3>2. s \in spans
      BY <2>2, <2>6, <3>1
    <3> QED
      BY <3>1, <3>2 DEF Question!SpanInScope
  <2> QED
    BY <2>5, <2>6 DEF Sound, IsQuestion, Starts, Classified, Warned, InScope, Cited, Unread, Served
<1>9. CASE Question!Store
  <2>1. PICK found : found = Question!SpansOf(question.items)
    OBVIOUS
  <2>2. question.at = "budget" /\ question' = [question EXCEPT !.at = "synthesis", !.fetched = found, !.cited = found]
    BY <1>9, <2>1 DEF Question!Store
  <2> QED
    BY <2>1, <2>2 DEF Sound, IsQuestion, Starts, Classified, Warned, InScope, Cited, Unread, Served
<1>10. CASE Question!Synthesize
  <2>1. PICK ok \in BOOLEAN, cited \in SUBSET question.fetched :
           question.at = "synthesis" /\ question' = [question EXCEPT !.at = "done", !.cited = Question!CitedAfter(ok, cited), !.error = ~ ok]
    BY <1>10 DEF Question!Synthesize
  <2>2. PICK said, wrong : said = Question!CitedAfter(ok, cited) /\ wrong = ~ ok
    OBVIOUS
  <2>3. wrong \in BOOLEAN /\ said \subseteq question.fetched /\ (wrong => said = question.fetched)
    BY <2>2 DEF Question!CitedAfter
  <2> QED
    BY <2>1, <2>2, <2>3 DEF Sound, IsQuestion, Starts, Classified, Warned, InScope, Cited, Unread, Served
<1> QED
  BY <1>0, <1>1, <1>2, <1>3, <1>4, <1>6, <1>7, <1>8, <1>9, <1>10 DEF Question!Next, Question!Meanwhile, Question!Done, Question!vars

(* An answer is true about how it was found and from what, whatever the     *)
(* library, the policies and the questions, and whatever changes meanwhile. *)
THEOREM AnswersAreTruthful == Question!Spec => []AnswersTruthful
<1>1. Sound(question) => AnswersTruthful
  BY DEF Sound, Starts, Classified, Warned, InScope, Cited, Served, AnswersTruthful, Question!AnswersTruthful, Question!OutageStillRetrieves,
         Question!DegradationTold, Question!ServedInScope, Question!EvidenceSurvives
<1> QED
  BY <1>1, StartsSound, StepsSound, PTL DEF Question!Spec

-----------------------------------------------------------------------------
(* Contradictions *)

(* A process has these fields and no other.                                *)
IsProcess(p) ==
    p = [op |-> p.op, at |-> p.at, alone |-> p.alone, why |-> p.why, seen |-> p.seen, todo |-> p.todo,
         found |-> p.found, pair |-> p.pair, copy |-> p.copy, fresh |-> p.fresh, revises |-> p.revises]

Places == {"end", "check", "flag1", "flag2", "wizard", "load", "save", "clear1", "clear2", "read", "ask", "write1", "write2"}
Checking == {"check", "flag1", "flag2"}
Resolving == {"read", "ask", "write1", "write2"}

(* Why a process is where it is; what it read is what there is, or it was   *)
(* overtaken.                                                               *)
Knows(p, texts, late) ==
    /\ IsProcess(p) /\ p.at \in Places /\ p.alone \in BOOLEAN /\ p.fresh \in BOOLEAN
    /\ p.at \in Checking => p.why = ""
    /\ p.at \in Resolving => p.why = "resolve"
    /\ p.at \in {"ask", "write1", "write2"} /\ p.fresh /\ ~ late => p.copy = texts

(* Who is alone has read every decision, and what it cleared stays so.      *)
Rules(p, decisions, race, flags) ==
    p.alone =>
        /\ p.at \in Checking /\ ~ race => \A d \in decisions : Pairs!IsDismissed(p.seen, d)
        /\ p.at = "clear2" => p.pair[1] \notin flags

Lasting(s, decisions) == s.ok /\ \A d \in decisions : Pairs!IsDismissed(s.pairs, d)

DecideInv ==
    /\ proc = [a \in Actors |-> proc[a]] /\ atoms = [x \in Atoms |-> atoms[x]]
    /\ raced \in BOOLEAN /\ overtaken \in BOOLEAN
    /\ raced \/ Lasting(store, decided)
    /\ \A a \in Actors : Knows(proc[a], atoms, overtaken) /\ Rules(proc[a], decided, raced, flagged)
    /\ \A a, b \in Actors : a # b /\ proc[a].alone /\ proc[a].at # "end" => proc[b].at = "end"

LEMMA DecideIdleIs == IsProcess(Pairs!Idle) /\ Pairs!Idle.at = "end" /\ Pairs!Idle.alone = TRUE /\ Pairs!Idle.why = "" /\ Pairs!Idle.fresh = TRUE
<1>1. PICK c : c = [x \in Atoms |-> 0]
  OBVIOUS
<1>2. Pairs!Idle = [op |-> "none", at |-> "end", alone |-> TRUE, why |-> "", seen |-> {}, todo |-> <<>>, found |-> <<>>,
              pair |-> <<>>, copy |-> c, fresh |-> TRUE, revises |-> {}]
  BY <1>1 DEF Pairs!Idle
<1> QED
  BY <1>2 DEF IsProcess

LEMMA InitDecides == Pairs!Init => DecideInv
<1> SUFFICES ASSUME Pairs!Init PROVE DecideInv
  OBVIOUS
<1>1. \A a \in Actors : proc[a] = Pairs!Idle
  BY DEF Pairs!Init
<1>2. \A a \in Actors : Knows(proc[a], atoms, overtaken) /\ Rules(proc[a], decided, raced, flagged)
  BY <1>1, DecideIdleIs DEF Knows, Rules, Places, Checking, Resolving
<1>3. raced = FALSE /\ overtaken = FALSE /\ Lasting(store, decided)
  BY DEF Pairs!Init, Lasting
<1>4. proc = [a \in Actors |-> proc[a]] /\ atoms = [x \in Atoms |-> atoms[x]]
  BY DEF Pairs!Init
<1> QED
  BY <1>1, <1>2, <1>3, <1>4, DecideIdleIs DEF DecideInv

(* Where a process goes next, and with what.                                *)
LEMMA GoesTo ==
  ASSUME DecideInv, NEW a \in Actors, NEW at \in Places, Pairs!Goto(a, at)
  PROVE  /\ proc' = [proc EXCEPT ![a] = proc'[a]] /\ IsProcess(proc'[a]) /\ proc'[a].at = at
         /\ proc'[a].why = proc[a].why
         /\ at # "end" => proc'[a].alone = proc[a].alone /\ proc'[a].copy = proc[a].copy
         /\ at \notin {"end", "wizard"} => proc'[a] = [proc[a] EXCEPT !.at = at]
         /\ proc'[a].alone \in BOOLEAN /\ proc'[a].fresh \in BOOLEAN
         /\ at = "end" => proc'[a].alone = TRUE
<1>1. IsProcess(proc[a])
  BY DEF DecideInv, Knows
<1>2. CASE at = "end"
  <2>1. PICK n : n = [Pairs!Idle EXCEPT !.why = proc[a].why]
    OBVIOUS
  <2>2. proc' = [proc EXCEPT ![a] = n]
    BY <1>2, <2>1 DEF Pairs!Goto
  <2>3. proc'[a] = n
    BY <2>2 DEF DecideInv
  <2>4. IsProcess(n) /\ n.at = "end" /\ n.why = proc[a].why /\ n.alone = TRUE /\ n.fresh = TRUE
    BY <2>1, DecideIdleIs DEF IsProcess
  <2> QED
    BY <1>2, <2>2, <2>3, <2>4
<1>3. CASE at = "wizard"
  <2>1. PICK n : n = [Pairs!Idle EXCEPT !.op = "sync", !.at = at, !.why = proc[a].why, !.alone = proc[a].alone,
                                  !.found = proc[a].found, !.copy = proc[a].copy]
    OBVIOUS
  <2>2. proc' = [proc EXCEPT ![a] = n]
    BY <1>3, <2>1 DEF Pairs!Goto
  <2>3. proc'[a] = n
    BY <2>2 DEF DecideInv
  <2> QED
    BY <1>3, <2>1, <2>2, <2>3, DecideIdleIs, <1>1 DEF IsProcess, DecideInv, Knows
<1>4. CASE at \notin {"end", "wizard"}
  <2>1. proc' = [proc EXCEPT ![a] = [proc[a] EXCEPT !.at = at]]
    BY <1>4 DEF Pairs!Goto
  <2>2. proc'[a] = [proc[a] EXCEPT !.at = at]
    BY <2>1 DEF DecideInv
  <2> QED
    BY <1>1, <1>4, <2>1, <2>2 DEF IsProcess, DecideInv, Knows
<1> QED
  BY <1>2, <1>3, <1>4

(* What Deciding says of one process.                                       *)
Heeds(a) ==
    proc[a].at = "check" /\ proc[a].alone /\ ~ raced /\ proc'[a].at \in {"check", "flag1"} =>
        \A p \in decided : /\ proc'[a].at = "flag1" => Pairs!Both(proc'[a].pair) # Pairs!Both(p)
                           /\ proc'[a].found # proc[a].found => Pairs!Both(Head(proc[a].todo)) # Pairs!Both(p)

Unflags(a) == Pairs!Finishes(a, "dismiss") => Pairs!Both(proc[a].pair) \cap flagged' = {}

LEMMA DecideTurned ==
  ASSUME NEW s, NEW p, Pairs!IsDismissed(s, p)
  PROVE  Pairs!IsDismissed(s, <<p[2], p[1]>>)
<1>1. Pairs!Both(<<p[2], p[1]>>) = Pairs!Both(p)
  BY DEF Pairs!Both
<1> QED
  BY <1>1 DEF Pairs!IsDismissed

LEMMA LastingLasts == raced \/ Lasting(store, decided) => Pairs!DecisionsLast
BY DecideTurned DEF Lasting, Pairs!DecisionsLast

LEMMA Decides ==
  ASSUME DecideInv', \A a \in Actors : Heeds(a) /\ Unflags(a), Pairs!EditsKept
  PROVE  Pairs!Deciding
<1>1. (raced \/ Lasting(store, decided))'
  BY DEF DecideInv
<1>2. Pairs!DecisionsLast'
  BY <1>1, LastingLasts, PTL
<1>3. Pairs!DecidedNotReported
  BY DEF Heeds, Pairs!DecidedNotReported
<1>4. Pairs!DismissedUnflagged
  BY DEF Unflags, Pairs!DismissedUnflagged
<1> QED
  BY <1>2, <1>3, <1>4 DEF Pairs!Deciding

(* A process that is under way steps, and the others stay as they are.      *)
LEMMA OneMoves ==
  ASSUME DecideInv, NEW a \in Actors, proc[a].at # "end", proc' = [proc EXCEPT ![a] = proc'[a]],
         atoms' = [x \in Atoms |-> atoms'[x]], overtaken' \in BOOLEAN, overtaken => overtaken', ~ overtaken' => atoms' = atoms,
         raced' \in BOOLEAN, raced' \/ Lasting(store', decided'),
         Knows(proc'[a], atoms', overtaken'), Rules(proc'[a], decided', raced', flagged'),
         proc'[a].alone /\ proc'[a].at # "end" => proc[a].alone,
         Heeds(a), Unflags(a), Pairs!EditsKept
  PROVE  DecideInv' /\ Pairs!Deciding
<1>1. \A b \in Actors \ {a} : proc'[b] = proc[b]
  BY DEF DecideInv
<1>2. proc' = [b \in Actors |-> proc'[b]]
  BY DEF DecideInv
<1>3. ASSUME NEW b \in Actors \ {a}
      PROVE  Knows(proc'[b], atoms', overtaken') /\ Rules(proc'[b], decided', raced', flagged')
  <2>1. Knows(proc[b], atoms, overtaken) /\ (proc[b].alone => proc[b].at = "end")
    BY DEF DecideInv
  <2> QED
    BY <1>1, <2>1 DEF Knows, Rules, Checking
<1>4. ASSUME NEW b \in Actors, NEW c \in Actors, b # c, proc'[b].alone, proc'[b].at # "end"
      PROVE  proc'[c].at = "end"
  <2>1. CASE b = a
    BY <1>1, <1>4, <2>1 DEF DecideInv
  <2>2. CASE b # a
    BY <1>1, <1>4, <2>2 DEF DecideInv
  <2> QED
    BY <2>1, <2>2
<1>5. DecideInv'
  BY <1>2, <1>3, <1>4 DEF DecideInv
<1>6. \A b \in Actors \ {a} : Heeds(b) /\ Unflags(b)
  BY <1>1 DEF Heeds, Unflags, Pairs!Finishes
<1> QED
  BY <1>5, <1>6, Decides

(* A process begins, and is alone if no other was under way.                *)
LEMMA StartDecides ==
  ASSUME DecideInv, NEW a \in Actors, NEW p, Pairs!Start(a, p), IsProcess(p), p.at \in {"check", "load", "read"}, p.fresh = TRUE,
         p.at = "check" => p.why = "" /\ p.seen = Pairs!Loaded, p.at = "read" => p.why = "resolve"
  PROVE  DecideInv' /\ Pairs!Deciding
<1>1. PICK alone \in BOOLEAN : alone = \A c \in Actors : Pairs!Ended(c)
  OBVIOUS
<1>2. PICK n : n = [p EXCEPT !.alone = alone]
  OBVIOUS
<1>3. /\ Pairs!Ended(a) /\ proc' = [b \in Actors |-> IF b = a THEN n ELSE [proc[b] EXCEPT !.alone = Pairs!Ended(b)]]
      /\ UNCHANGED <<atoms, flagged, verified, overtaken, store, decided, raced>>
  BY <1>1, <1>2 DEF Pairs!Start, Pairs!Pages, Pairs!Decisions
<1>4. /\ proc'[a] = n /\ IsProcess(n) /\ n.at = p.at /\ n.why = p.why /\ n.seen = p.seen /\ n.fresh = TRUE
      /\ n.alone = alone
  BY <1>2, <1>3 DEF IsProcess
<1>5. Knows(n, atoms', overtaken')
  BY <1>4 DEF Knows, Places, Checking, Resolving
<1>6. Rules(n, decided', raced', flagged')
  <2>1. ~ raced => Pairs!Loaded = store.pairs /\ \A d \in decided : Pairs!IsDismissed(store.pairs, d)
    BY DEF DecideInv, Lasting, Pairs!Loaded
  <2> QED
    BY <1>3, <1>4, <2>1 DEF Rules, Checking
<1>7. ASSUME NEW b \in Actors \ {a}
      PROVE  /\ Knows(proc'[b], atoms', overtaken') /\ Rules(proc'[b], decided', raced', flagged')
             /\ proc'[b].at = proc[b].at /\ proc'[b].found = proc[b].found /\ (proc'[b].alone <=> proc[b].at = "end")
  <2>1. PICK e \in BOOLEAN : e = Pairs!Ended(b)
    BY DEF Pairs!Ended
  <2>2. proc'[b] = [proc[b] EXCEPT !.alone = e] /\ Knows(proc[b], atoms, overtaken)
    BY <1>3, <2>1 DEF DecideInv
  <2>3. /\ IsProcess(proc'[b]) /\ proc'[b].alone = e /\ proc'[b].at = proc[b].at /\ proc'[b].found = proc[b].found
        /\ proc'[b].why = proc[b].why /\ proc'[b].fresh = proc[b].fresh /\ proc'[b].copy = proc[b].copy
    <3>1. PICK m : m = proc[b]
      OBVIOUS
    <3>2. PICK o : o = [m EXCEPT !.alone = e]
      OBVIOUS
    <3>3. IsProcess(m) /\ o = proc'[b]
      BY <2>2, <3>1, <3>2 DEF Knows
    <3>4. IsProcess(o) /\ o.alone = e /\ o.at = m.at /\ o.found = m.found /\ o.why = m.why /\ o.fresh = m.fresh /\ o.copy = m.copy
      BY <3>2, <3>3 DEF IsProcess
    <3> QED
      BY <3>1, <3>3, <3>4
  <2>4. e <=> proc[b].at = "end"
    BY <2>1 DEF Pairs!Ended
  <2> QED
    BY <1>3, <2>2, <2>3, <2>4 DEF Knows, Rules, Checking
<1>8. ASSUME NEW b \in Actors, NEW c \in Actors, b # c, proc'[b].alone, proc'[b].at # "end"
      PROVE  proc'[c].at = "end"
  <2>1. b = a
    BY <1>7, <1>8
  <2>2. c # a /\ alone
    BY <1>4, <1>8, <2>1
  <2> QED
    BY <1>1, <1>7, <2>2 DEF Pairs!Ended
<1>9. DecideInv'
  <2>1. proc' = [b \in Actors |-> proc'[b]]
    BY <1>3
  <2> QED
    <3>1. \A b \in Actors : Knows(proc'[b], atoms', overtaken') /\ Rules(proc'[b], decided', raced', flagged')
      BY <1>4, <1>5, <1>6, <1>7
    <3>2. /\ atoms' = [x \in Atoms |-> atoms'[x]] /\ raced' \in BOOLEAN /\ overtaken' \in BOOLEAN
          /\ (raced' \/ Lasting(store', decided'))
      BY <1>3 DEF DecideInv
    <3> QED
      BY <1>8, <2>1, <3>1, <3>2 DEF DecideInv
<1>10. \A b \in Actors : Heeds(b) /\ Unflags(b)
  <2>1. Heeds(a) /\ Unflags(a)
    BY <1>3 DEF Heeds, Unflags, Pairs!Finishes, Pairs!Ended
  <2>2. \A b \in Actors \ {a} : Heeds(b) /\ Unflags(b)
    BY <1>7 DEF Heeds, Unflags, Pairs!Finishes
  <2> QED
    BY <2>1, <2>2
<1> QED
  BY <1>3, <1>9, <1>10, Decides DEF Pairs!EditsKept

LEMMA EditDecides == DecideInv /\ Pairs!Edit => DecideInv' /\ Pairs!Deciding
<1> SUFFICES ASSUME DecideInv, Pairs!Edit PROVE DecideInv' /\ Pairs!Deciding
  OBVIOUS
<1>1. /\ \E x \in Atoms : atoms' = [atoms EXCEPT ![x] = writings']
      /\ proc' = [a \in Actors |-> [proc[a] EXCEPT !.fresh = Pairs!Ended(a)]]
      /\ UNCHANGED <<flagged, verified, store, decided, raced, overtaken>>
  BY DEF Pairs!Edit, Pairs!Decisions
<1>2. ASSUME NEW a \in Actors
      PROVE  /\ IsProcess(proc'[a]) /\ proc'[a].at = proc[a].at /\ proc'[a].found = proc[a].found
             /\ proc'[a].alone = proc[a].alone /\ proc'[a].why = proc[a].why /\ proc'[a].seen = proc[a].seen
             /\ proc'[a].pair = proc[a].pair /\ (proc'[a].fresh <=> proc[a].at = "end") /\ proc'[a].fresh \in BOOLEAN
  <2>1. PICK m, e : m = proc[a] /\ e = Pairs!Ended(a)
    OBVIOUS
  <2>2. IsProcess(m) /\ proc'[a] = [m EXCEPT !.fresh = e]
    BY <1>1, <2>1 DEF DecideInv, Knows
  <2>3. e \in BOOLEAN /\ (e <=> proc[a].at = "end")
    BY <2>1 DEF Pairs!Ended
  <2> QED
    BY <2>1, <2>2, <2>3 DEF IsProcess
<1>3. ASSUME NEW a \in Actors
      PROVE  Knows(proc'[a], atoms', overtaken') /\ Rules(proc'[a], decided', raced', flagged')
  <2>1. Knows(proc[a], atoms, overtaken) /\ Rules(proc[a], decided, raced, flagged)
    BY DEF DecideInv
  <2>2. Knows(proc'[a], atoms', overtaken')
    BY <1>2, <2>1 DEF Knows
  <2>3. Rules(proc'[a], decided', raced', flagged')
    <3>1. PICK m, n : m = proc[a] /\ n = proc'[a]
      OBVIOUS
    <3>2. n.at = m.at /\ n.alone = m.alone /\ n.seen = m.seen /\ n.pair = m.pair /\ Rules(m, decided, raced, flagged)
      BY <1>2, <2>1, <3>1
    <3>3. decided' = decided /\ raced' = raced /\ flagged' = flagged
      BY <1>1
    <3>4. Rules(n, decided, raced, flagged)
      BY <3>2 DEF Rules
    <3> QED
      BY <3>1, <3>3, <3>4
  <2> QED
    BY <2>2, <2>3
<1>4. \A a, b \in Actors : a # b /\ proc'[a].alone /\ proc'[a].at # "end" => proc'[b].at = "end"
  BY <1>2 DEF DecideInv
<1>5. atoms' = [x \in Atoms |-> atoms'[x]] /\ proc' = [a \in Actors |-> proc'[a]]
  BY <1>1 DEF DecideInv
<1>6. DecideInv'
  BY <1>1, <1>3, <1>4, <1>5 DEF DecideInv
<1>7. \A a \in Actors : Heeds(a) /\ Unflags(a)
  BY <1>2 DEF Heeds, Unflags, Pairs!Finishes
<1> QED
  BY <1>1, <1>6, <1>7, Decides DEF Pairs!EditsKept

LEMMA BeginCheckDecides ==
  ASSUME DecideInv, NEW a \in Actors, Pairs!BeginCheck(a)
  PROVE  DecideInv' /\ Pairs!Deciding
<1>1. PICK op \in {"lint", "sync"} :
         Pairs!Start(a, [Pairs!Idle EXCEPT !.op = op, !.at = "check", !.seen = Pairs!Loaded, !.todo = Pairs!Candidates, !.copy = atoms])
  BY DEF Pairs!BeginCheck
<1>2. PICK p : p = [Pairs!Idle EXCEPT !.op = op, !.at = "check", !.seen = Pairs!Loaded, !.todo = Pairs!Candidates, !.copy = atoms]
  OBVIOUS
<1>3. IsProcess(p) /\ p.at = "check" /\ p.fresh = TRUE /\ p.why = "" /\ p.seen = Pairs!Loaded
  BY <1>2, DecideIdleIs DEF IsProcess
<1>4. Pairs!Start(a, p)
  BY <1>1, <1>2
<1> QED
  BY <1>3, <1>4, StartDecides

LEMMA BeginToolDecides ==
  ASSUME DecideInv, NEW a \in Actors, Pairs!BeginTool(a)
  PROVE  DecideInv' /\ Pairs!Deciding
<1>0. PICK op \in {"dismiss", "resolve"} : \E q :
         Pairs!Start(a, [Pairs!Idle EXCEPT !.op = op, !.why = op, !.pair = q, !.at = IF op = "dismiss" THEN "load" ELSE "read"])
  BY DEF Pairs!BeginTool
<1>1. PICK q :
         Pairs!Start(a, [Pairs!Idle EXCEPT !.op = op, !.why = op, !.pair = q, !.at = IF op = "dismiss" THEN "load" ELSE "read"])
  BY <1>0
<1>2. PICK p : p = [Pairs!Idle EXCEPT !.op = op, !.why = op, !.pair = q, !.at = IF op = "dismiss" THEN "load" ELSE "read"]
  OBVIOUS
<1>3. IsProcess(p) /\ p.at \in {"load", "read"} /\ p.fresh = TRUE /\ (p.at = "read" => p.why = "resolve")
  BY <1>2, DecideIdleIs DEF IsProcess
<1>4. Pairs!Start(a, p)
  BY <1>1, <1>2
<1> QED
  BY <1>3, <1>4, StartDecides

(* A process is killed, wherever it is.                                     *)
LEMMA KilledDecides ==
  ASSUME DecideInv, NEW a \in Actors, Pairs!Killed(a)
  PROVE  DecideInv' /\ Pairs!Deciding
<1>1. /\ proc[a].at # "end" /\ proc' = [proc EXCEPT ![a] = Pairs!Idle] /\ proc'[a] = Pairs!Idle
      /\ UNCHANGED <<atoms, flagged, verified, overtaken, store, decided, raced>>
  BY DEF Pairs!Killed, Pairs!Ended, Pairs!Pages, Pairs!Decisions, DecideInv
<1>2. Knows(proc'[a], atoms', overtaken') /\ Rules(proc'[a], decided', raced', flagged')
  BY <1>1, DecideIdleIs DEF Knows, Rules, Places, Checking, Resolving
<1>3. Heeds(a) /\ Unflags(a) /\ Pairs!EditsKept
  BY <1>1, DecideIdleIs DEF Heeds, Unflags, Pairs!Finishes, Pairs!EditsKept
<1>4. atoms' = [x \in Atoms |-> atoms'[x]] /\ overtaken \in BOOLEAN /\ raced \in BOOLEAN /\ (raced' \/ Lasting(store', decided'))
  BY <1>1 DEF DecideInv
<1> QED
  BY <1>1, <1>2, <1>3, <1>4, DecideIdleIs, OneMoves

(* What a step does that leaves pages and decisions alone.                  *)
LEMMA StepsAlone ==
  ASSUME DecideInv, NEW a \in Actors, proc[a].at # "end", proc' = [proc EXCEPT ![a] = proc'[a]],
         UNCHANGED <<atoms, overtaken, store, decided, raced>>,
         Knows(proc'[a], atoms, overtaken), Rules(proc'[a], decided, raced, flagged'),
         proc'[a].alone /\ proc'[a].at # "end" => proc[a].alone,
         Heeds(a), Unflags(a)
  PROVE  DecideInv' /\ Pairs!Deciding
<1>1. Pairs!EditsKept
  BY DEF Pairs!EditsKept
<1>2. atoms' = [x \in Atoms |-> atoms'[x]] /\ overtaken \in BOOLEAN /\ raced \in BOOLEAN /\ (raced' \/ Lasting(store', decided'))
  BY DEF DecideInv
<1> QED
  BY <1>1, <1>2, OneMoves

LEMMA FlagDecides ==
  ASSUME DecideInv, NEW a \in Actors, NEW k \in {1, 2}, Pairs!Flag(a, k)
  PROVE  DecideInv' /\ Pairs!Deciding
<1>1. PICK at : at = <<"flag2", "check">>[k]
  OBVIOUS
<1>2. /\ proc[a].at \in {"flag1", "flag2"} /\ at \in {"flag2", "check"} /\ Pairs!Goto(a, at)
      /\ UNCHANGED <<atoms, overtaken, store, decided, raced>>
  BY <1>1 DEF Pairs!Flag, Pairs!Decisions
<1>3. /\ proc' = [proc EXCEPT ![a] = proc'[a]] /\ IsProcess(proc'[a]) /\ proc'[a].at = at /\ proc'[a].why = proc[a].why
      /\ proc'[a].alone = proc[a].alone /\ proc'[a].alone \in BOOLEAN /\ proc'[a].fresh \in BOOLEAN
      /\ proc'[a] = [proc[a] EXCEPT !.at = at]
  BY <1>2, GoesTo DEF Places
<1>4. Knows(proc[a], atoms, overtaken) /\ Rules(proc[a], decided, raced, flagged) /\ proc'[a].seen = proc[a].seen
  BY <1>3 DEF DecideInv, Knows, IsProcess
<1>5. Knows(proc'[a], atoms, overtaken)
  BY <1>2, <1>3, <1>4 DEF Knows, Places, Checking, Resolving
<1>6. Rules(proc'[a], decided, raced, flagged')
  BY <1>2, <1>3, <1>4 DEF Rules, Checking
<1>7. Heeds(a) /\ Unflags(a)
  BY <1>2, <1>3 DEF Heeds, Unflags, Pairs!Finishes
<1> QED
  BY <1>2, <1>3, <1>5, <1>6, <1>7, StepsAlone

LEMMA Becomes ==
  ASSUME DecideInv, NEW a \in Actors, NEW n, proc' = [proc EXCEPT ![a] = n]
  PROVE  proc'[a] = n /\ proc' = [proc EXCEPT ![a] = proc'[a]]
<1>1. proc'[a] = n
  BY DEF DecideInv
<1> QED
  BY <1>1

(* A check passes a pair over, flags it, or hands it on for a review.       *)
LEMMA CheckDecides ==
  ASSUME DecideInv, NEW a \in Actors, Pairs!Check(a)
  PROVE  DecideInv' /\ Pairs!Deciding
<1> PICK m : m = proc[a]
  OBVIOUS
<1>1. m.at = "check" /\ UNCHANGED <<atoms, flagged, overtaken, store, decided, raced>>
  BY DEF Pairs!Check, Pairs!Pages, Pairs!Decisions
<1>2. Knows(m, atoms, overtaken) /\ Rules(m, decided, raced, flagged) /\ m.why = ""
  BY <1>1 DEF DecideInv, Knows, Checking
<1>3. CASE m.todo = <<>>
  <2>1. PICK at : at = IF m.op = "sync" /\ m.found # <<>> THEN "wizard" ELSE "end"
    OBVIOUS
  <2>2. Pairs!Goto(a, at) /\ at \in {"wizard", "end"}
    BY <1>3, <2>1 DEF Pairs!Check
  <2>3. /\ proc' = [proc EXCEPT ![a] = proc'[a]] /\ IsProcess(proc'[a]) /\ proc'[a].at = at /\ proc'[a].why = m.why
        /\ (at # "end" => proc'[a].alone = m.alone) /\ proc'[a].alone \in BOOLEAN /\ proc'[a].fresh \in BOOLEAN
    BY <2>2, GoesTo DEF Places
  <2>4. Knows(proc'[a], atoms, overtaken) /\ Rules(proc'[a], decided, raced, flagged')
    BY <2>2, <2>3 DEF Knows, Rules, Places, Checking, Resolving
  <2>5. Heeds(a) /\ Unflags(a)
    BY <1>2, <2>2, <2>3 DEF Heeds, Unflags, Pairs!Finishes
  <2> QED
    BY <1>1, <2>2, <2>3, <2>4, <2>5, StepsAlone
<1>4. CASE m.todo # <<>>
  <2> PICK p, rest : p = Head(m.todo) /\ rest = [m EXCEPT !.todo = Tail(@)]
    OBVIOUS
  <2>1. IsProcess(rest) /\ rest = [m EXCEPT !.todo = Tail(m.todo)]
    BY <1>2 DEF IsProcess, Knows
  <2>2. \/ proc' = [proc EXCEPT ![a] = rest]
        \/ /\ Pairs!Asked(a, p)
           /\ \/ proc' = [proc EXCEPT ![a] = [rest EXCEPT !.at = "flag1", !.pair = p]]
              \/ proc' = [proc EXCEPT ![a] = [rest EXCEPT !.found = Append(m.found, p)]]
    BY <1>4, <2>1 DEF Pairs!Check
  <2>3. /\ proc' = [proc EXCEPT ![a] = proc'[a]] /\ IsProcess(proc'[a]) /\ proc'[a].alone = m.alone /\ proc'[a].why = m.why
        /\ proc'[a].seen = m.seen /\ proc'[a].fresh = m.fresh
        /\ \/ proc'[a].at = "check" /\ proc'[a].found = m.found
           \/ Pairs!Asked(a, p) /\ proc'[a].at = "flag1" /\ proc'[a].pair = p /\ proc'[a].found = m.found
           \/ Pairs!Asked(a, p) /\ proc'[a].at = "check"
    <3> PICK found : found = Append(m.found, p)
      OBVIOUS
    <3>1. PICK n : /\ proc' = [proc EXCEPT ![a] = n]
                   /\ \/ n = rest
                      \/ Pairs!Asked(a, p) /\ n = [rest EXCEPT !.at = "flag1", !.pair = p]
                      \/ Pairs!Asked(a, p) /\ n = [rest EXCEPT !.found = found]
      BY <2>2
    <3>2. /\ IsProcess(rest) /\ rest.at = "check" /\ rest.alone = m.alone /\ rest.why = m.why /\ rest.seen = m.seen
          /\ rest.fresh = m.fresh /\ rest.found = m.found
      BY <1>1, <1>2, <2>1 DEF IsProcess, Knows
    <3>3. /\ IsProcess(n) /\ n.alone = m.alone /\ n.why = m.why /\ n.seen = m.seen /\ n.fresh = m.fresh
          /\ \/ n.at = "check" /\ n.found = m.found
             \/ Pairs!Asked(a, p) /\ n.at = "flag1" /\ n.pair = p /\ n.found = m.found
             \/ Pairs!Asked(a, p) /\ n.at = "check"
      <4>1. CASE n = rest
        BY <3>2, <4>1
      <4>2. CASE Pairs!Asked(a, p) /\ n = [rest EXCEPT !.at = "flag1", !.pair = p]
        BY <3>2, <4>2 DEF IsProcess
      <4>3. CASE Pairs!Asked(a, p) /\ n = [rest EXCEPT !.found = found]
        BY <3>2, <4>3 DEF IsProcess
      <4> QED
        BY <3>1, <4>1, <4>2, <4>3
    <3> QED
      BY <3>1, <3>3, Becomes
  <2>4. Knows(proc'[a], atoms, overtaken)
    BY <1>2, <2>3 DEF Knows, Places, Checking, Resolving
  <2>5. Rules(proc'[a], decided, raced, flagged')
    BY <1>1, <1>2, <2>3 DEF Rules, Checking
  <2>6. Heeds(a)
    <3>1. ASSUME m.alone, ~ raced, Pairs!Asked(a, p), NEW d \in decided PROVE Pairs!Both(p) # Pairs!Both(d)
      <4>1. Pairs!IsDismissed(m.seen, d) /\ ~ Pairs!IsDismissed(m.seen, p)
        BY <1>1, <1>2, <3>1 DEF Rules, Checking, Pairs!Asked
      <4> QED
        BY <4>1 DEF Pairs!IsDismissed
    <3> QED
      BY <2>3, <3>1 DEF Heeds
  <2>7. Unflags(a)
    BY <1>2, <2>3 DEF Unflags, Pairs!Finishes
  <2> QED
    BY <1>1, <2>3, <2>4, <2>5, <2>6, <2>7, StepsAlone
<1> QED
  BY <1>3, <1>4

(* The rest of what a process does without a write: it goes somewhere else, *)
(* but neither to a check nor to the second flag of a dismissal.            *)
LEMMA TurnsTo ==
  ASSUME DecideInv, NEW a \in Actors, proc[a].at \notin {"end", "check"}, proc' = [proc EXCEPT ![a] = proc'[a]],
         UNCHANGED <<atoms, flagged, overtaken, store, decided, raced>>,
         IsProcess(proc'[a]), proc'[a].at \in Places \ (Checking \cup {"clear2"}),
         proc'[a].alone \in BOOLEAN, proc'[a].fresh \in BOOLEAN,
         proc'[a].at \in Resolving => proc'[a].why = "resolve",
         proc'[a].at \in {"ask", "write1", "write2"} /\ proc'[a].fresh /\ ~ overtaken => proc'[a].copy = atoms,
         proc'[a].at # "end" => proc'[a].alone = proc[a].alone,
         Unflags(a)
  PROVE  DecideInv' /\ Pairs!Deciding
<1>1. Knows(proc'[a], atoms, overtaken) /\ Rules(proc'[a], decided, raced, flagged')
  BY DEF Knows, Rules
<1>2. Heeds(a)
  BY DEF Heeds
<1> QED
  BY <1>1, <1>2, StepsAlone

LEMMA WizardDecides ==
  ASSUME DecideInv, NEW a \in Actors, Pairs!Wizard(a)
  PROVE  DecideInv' /\ Pairs!Deciding
<1> PICK m : m = proc[a]
  OBVIOUS
<1>1. m.at = "wizard" /\ UNCHANGED <<atoms, flagged, overtaken, store, decided, raced>> /\ Knows(m, atoms, overtaken)
  BY DEF Pairs!Wizard, Pairs!Pages, Pairs!Decisions, DecideInv
<1>2. Unflags(a)
  BY <1>1 DEF Unflags, Pairs!Finishes
<1>3. CASE Pairs!Goto(a, "end")
  <2>1. /\ proc' = [proc EXCEPT ![a] = proc'[a]] /\ IsProcess(proc'[a]) /\ proc'[a].at = "end"
        /\ proc'[a].alone \in BOOLEAN /\ proc'[a].fresh \in BOOLEAN
    BY <1>3, GoesTo DEF Places
  <2> QED
    BY <1>1, <1>2, <2>1, TurnsTo DEF Places, Checking, Resolving
<1>4. CASE ~ Pairs!Goto(a, "end")
  <2>1. PICK why \in {"dismiss", "resolve", "skip"} :
           proc' = [proc EXCEPT ![a] = [@ EXCEPT !.found = Tail(proc[a].found), !.pair = Head(proc[a].found), !.why = why,
                        !.at = CASE why = "dismiss" -> "load" [] why = "resolve" -> "read" [] OTHER -> "wizard"]]
    BY <1>4 DEF Pairs!Wizard
  <2>2. PICK found, p : found = Tail(m.found) /\ p = Head(m.found)
    OBVIOUS
  <2>3. PICK at : at = CASE why = "dismiss" -> "load" [] why = "resolve" -> "read" [] OTHER -> "wizard"
    OBVIOUS
  <2>4. at \in {"load", "read", "wizard"} /\ (at = "read" => why = "resolve")
    BY <2>3
  <2>5. PICK n : n = [m EXCEPT !.found = found, !.pair = p, !.why = why, !.at = at]
    OBVIOUS
  <2>6. proc' = [proc EXCEPT ![a] = n]
    BY <2>1, <2>2, <2>3, <2>5
  <2>7. IsProcess(n) /\ n.at = at /\ n.why = why /\ n.alone = m.alone /\ n.fresh = m.fresh
    BY <1>1, <2>5 DEF IsProcess, Knows
  <2>8. proc'[a] = n /\ proc' = [proc EXCEPT ![a] = proc'[a]]
    BY <2>6, Becomes
  <2> QED
    BY <1>1, <1>2, <2>4, <2>7, <2>8, TurnsTo DEF Places, Checking, Resolving, Knows
<1> QED
  BY <1>3, <1>4

LEMMA LoadDecides ==
  ASSUME DecideInv, NEW a \in Actors, Pairs!Load(a)
  PROVE  DecideInv' /\ Pairs!Deciding
<1> PICK m : m = proc[a]
  OBVIOUS
<1>1. m.at = "load" /\ UNCHANGED <<atoms, flagged, overtaken, store, decided, raced>> /\ Knows(m, atoms, overtaken)
  BY DEF Pairs!Load, Pairs!Pages, Pairs!Decisions, DecideInv
<1>2. CASE ~ Pairs!IsDismissed(Pairs!Loaded, m.pair)
  <2>1. PICK n : n = [m EXCEPT !.seen = Pairs!Loaded, !.at = "save"]
    OBVIOUS
  <2>2. proc'[a] = n /\ proc' = [proc EXCEPT ![a] = proc'[a]]
    BY <1>2, <2>1, Becomes DEF Pairs!Load
  <2>3. IsProcess(n) /\ n.at = "save" /\ n.alone = m.alone /\ n.fresh = m.fresh
    BY <1>1, <2>1 DEF IsProcess, Knows
  <2>4. Unflags(a)
    BY <2>2, <2>3 DEF Unflags, Pairs!Finishes
  <2> QED
    BY <1>1, <2>2, <2>3, <2>4, TurnsTo DEF Places, Checking, Resolving, Knows
<1>3. CASE Pairs!IsDismissed(Pairs!Loaded, m.pair)
  <2>1. PICK at : at = IF m.why = "dismiss" THEN "clear1" ELSE Pairs!Back(a)
    OBVIOUS
  <2>2. Pairs!Goto(a, at) /\ at \in {"clear1", "wizard", "end"} /\ (m.why = "dismiss" => at = "clear1")
    BY <1>3, <2>1 DEF Pairs!Load, Pairs!Back
  <2>3. /\ proc' = [proc EXCEPT ![a] = proc'[a]] /\ IsProcess(proc'[a]) /\ proc'[a].at = at /\ proc'[a].why = m.why
        /\ (at # "end" => proc'[a].alone = m.alone) /\ proc'[a].alone \in BOOLEAN /\ proc'[a].fresh \in BOOLEAN
    BY <2>2, GoesTo DEF Places
  <2>4. Unflags(a)
    BY <2>2, <2>3 DEF Unflags, Pairs!Finishes
  <2> QED
    BY <1>1, <2>2, <2>3, <2>4, TurnsTo DEF Places, Checking, Resolving
<1> QED
  BY <1>2, <1>3

(* A save adds to the decisions, unless they changed since they were read.  *)
LEMMA SaveDecides ==
  ASSUME DecideInv, NEW a \in Actors, Pairs!Save(a)
  PROVE  DecideInv' /\ Pairs!Deciding
<1> PICK m : m = proc[a]
  OBVIOUS
<1>1. m.at = "save" /\ UNCHANGED <<atoms, flagged, overtaken>> /\ Knows(m, atoms, overtaken)
  BY DEF Pairs!Save, Pairs!Pages, DecideInv
<1>2. Pairs!EditsKept /\ Heeds(a) /\ atoms' = [x \in Atoms |-> atoms'[x]] /\ overtaken' \in BOOLEAN
  BY <1>1 DEF Pairs!EditsKept, Heeds, DecideInv
<1>3. CASE /\ store' = [ok |-> TRUE, pairs |-> Pairs!Saved(m.seen, m.pair)] /\ decided' = decided \cup {m.pair}
           /\ raced' = (raced \/ Pairs!Loaded # m.seen) /\ Pairs!Goto(a, IF m.why = "dismiss" THEN "clear1" ELSE Pairs!Back(a))
  <2>1. PICK at : at = IF m.why = "dismiss" THEN "clear1" ELSE Pairs!Back(a)
    OBVIOUS
  <2>2. Pairs!Goto(a, at) /\ at \in {"clear1", "wizard", "end"} /\ (m.why = "dismiss" => at = "clear1")
    BY <1>3, <2>1 DEF Pairs!Back
  <2>3. /\ proc' = [proc EXCEPT ![a] = proc'[a]] /\ IsProcess(proc'[a]) /\ proc'[a].at = at /\ proc'[a].why = m.why
        /\ (at # "end" => proc'[a].alone = m.alone) /\ proc'[a].alone \in BOOLEAN /\ proc'[a].fresh \in BOOLEAN
    BY <2>2, GoesTo DEF Places
  <2>4. Knows(proc'[a], atoms', overtaken') /\ Rules(proc'[a], decided', raced', flagged')
    BY <2>2, <2>3 DEF Knows, Rules, Places, Checking, Resolving
  <2>5. Unflags(a)
    BY <2>2, <2>3 DEF Unflags, Pairs!Finishes
  <2>6. raced' \in BOOLEAN
    BY <1>3 DEF DecideInv
  <2>7. ASSUME ~ raced' PROVE Lasting(store', decided')
    <3>1. Pairs!Loaded = m.seen /\ Lasting(store, decided)
      BY <1>3, <2>7 DEF DecideInv
    <3>2. Pairs!Loaded = store.pairs
      BY <3>1 DEF Lasting, Pairs!Loaded
    <3>3. store'.ok = TRUE /\ store'.pairs = store.pairs \cup {m.pair}
      BY <1>3, <3>1, <3>2 DEF Pairs!Saved
    <3>4. ASSUME NEW d \in decided' PROVE Pairs!IsDismissed(store'.pairs, d)
      <4>1. CASE d = m.pair
        BY <3>3, <4>1 DEF Pairs!IsDismissed
      <4>2. CASE d \in decided
        BY <3>1, <3>3, <4>2 DEF Pairs!IsDismissed, Lasting
      <4> QED
        BY <1>3, <4>1, <4>2
    <3> QED
      BY <3>3, <3>4 DEF Lasting
  <2> QED
    BY <1>1, <1>2, <2>2, <2>3, <2>4, <2>5, <2>6, <2>7, OneMoves
<1>4. CASE raced' = TRUE /\ proc' = [proc EXCEPT ![a] = Pairs!Idle]
  <2>1. proc'[a] = Pairs!Idle /\ proc' = [proc EXCEPT ![a] = proc'[a]]
    BY <1>4, Becomes
  <2>2. Knows(proc'[a], atoms', overtaken') /\ Rules(proc'[a], decided', raced', flagged')
    BY <2>1, DecideIdleIs DEF Knows, Rules, Places, Checking, Resolving
  <2>3. Unflags(a)
    BY <2>1, DecideIdleIs DEF Unflags, Pairs!Finishes
  <2> QED
    BY <1>1, <1>2, <1>4, <2>1, <2>2, <2>3, DecideIdleIs, OneMoves
<1> QED
  BY <1>3, <1>4 DEF Pairs!Save

(* The flags of a dismissed pair go one after the other.                    *)
LEMMA ClearDecides ==
  ASSUME DecideInv, NEW a \in Actors, NEW k \in {1, 2}, Pairs!Clear(a, k)
  PROVE  DecideInv' /\ Pairs!Deciding
<1> PICK m : m = proc[a]
  OBVIOUS
<1>1. PICK at : at = <<"clear2", Pairs!Back(a)>>[k]
  OBVIOUS
<1>2. /\ m.at = <<"clear1", "clear2">>[k] /\ Pairs!Goto(a, at) /\ flagged' = flagged \ {m.pair[k]}
      /\ UNCHANGED <<atoms, overtaken, store, decided, raced>>
  <2>1. {m.pair[i] : i \in Pairs!Cleared(k)} = {m.pair[k]}
    BY DEF Pairs!Cleared
  <2> QED
    BY <1>1, <2>1 DEF Pairs!Clear, Pairs!Decisions
<1>3. Knows(m, atoms, overtaken) /\ Rules(m, decided, raced, flagged)
  BY DEF DecideInv
<1>4. \/ k = 1 /\ m.at = "clear1" /\ at = "clear2"
      \/ k = 2 /\ m.at = "clear2" /\ at \in {"wizard", "end"}
  BY <1>1, <1>2 DEF Pairs!Back
<1>5. /\ proc' = [proc EXCEPT ![a] = proc'[a]] /\ IsProcess(proc'[a]) /\ proc'[a].at = at /\ proc'[a].why = m.why
      /\ (at # "end" => proc'[a].alone = m.alone) /\ proc'[a].alone \in BOOLEAN /\ proc'[a].fresh \in BOOLEAN
      /\ (at = "clear2" => proc'[a] = [m EXCEPT !.at = at])
  <2>1. at \in Places /\ Pairs!Goto(a, at)
    BY <1>2, <1>4 DEF Places
  <2> QED
    BY <2>1, GoesTo
<1>6. at = "clear2" => proc'[a].pair = m.pair
  BY <1>3, <1>5 DEF Knows, IsProcess
<1>7. Knows(proc'[a], atoms, overtaken)
  BY <1>4, <1>5 DEF Knows, Places, Checking, Resolving
<1>8. Rules(proc'[a], decided, raced, flagged')
  BY <1>2, <1>4, <1>5, <1>6 DEF Rules, Checking
<1>9. Heeds(a)
  BY <1>4 DEF Heeds
<1>10. Unflags(a)
  <2>1. ASSUME k = 2, m.alone PROVE Pairs!Both(m.pair) \cap flagged' = {}
    BY <1>2, <1>3, <1>4, <2>1 DEF Rules, Pairs!Both
  <2> QED
    BY <1>4, <1>5, <2>1 DEF Unflags, Pairs!Finishes
<1> QED
  BY <1>2, <1>4, <1>5, <1>7, <1>8, <1>9, <1>10, StepsAlone

LEMMA ReadDecides ==
  ASSUME DecideInv, NEW a \in Actors, Pairs!Read(a)
  PROVE  DecideInv' /\ Pairs!Deciding
<1> PICK m : m = proc[a]
  OBVIOUS
<1>1. m.at = "read" /\ UNCHANGED <<atoms, flagged, overtaken, store, decided, raced>> /\ Knows(m, atoms, overtaken)
  BY DEF Pairs!Read, Pairs!Pages, Pairs!Decisions, DecideInv
<1>2. PICK n : n = [m EXCEPT !.copy = atoms, !.fresh = TRUE, !.at = "ask"]
  OBVIOUS
<1>3. proc'[a] = n /\ proc' = [proc EXCEPT ![a] = proc'[a]]
  BY <1>2, Becomes DEF Pairs!Read, Pairs!PagesRead
<1>4. IsProcess(n) /\ n.at = "ask" /\ n.alone = m.alone /\ n.fresh = TRUE /\ n.copy = atoms /\ n.why = m.why
  BY <1>1, <1>2 DEF IsProcess, Knows
<1>5. Unflags(a)
  BY <1>3, <1>4 DEF Unflags, Pairs!Finishes
<1> QED
  BY <1>1, <1>3, <1>4, <1>5, TurnsTo DEF Places, Checking, Resolving, Knows

LEMMA ProposeDecides ==
  ASSUME DecideInv, NEW a \in Actors, Pairs!Propose(a)
  PROVE  DecideInv' /\ Pairs!Deciding
<1> PICK m : m = proc[a]
  OBVIOUS
<1>1. /\ m.at = "ask" /\ UNCHANGED <<atoms, flagged, overtaken, store, decided, raced>> /\ Knows(m, atoms, overtaken)
      /\ m.why = "resolve"
  BY DEF Pairs!Propose, Pairs!Pages, Pairs!Decisions, DecideInv, Knows, Resolving
<1>2. Unflags(a)
  BY <1>1 DEF Unflags, Pairs!Finishes
<1>3. CASE Pairs!Goto(a, Pairs!Back(a))
  <2>1. PICK at \in {"wizard", "end"} : at = Pairs!Back(a)
    BY DEF Pairs!Back
  <2>2. Pairs!Goto(a, at)
    BY <1>3, <2>1
  <2>3. /\ proc' = [proc EXCEPT ![a] = proc'[a]] /\ IsProcess(proc'[a]) /\ proc'[a].at = at
        /\ (at # "end" => proc'[a].alone = m.alone) /\ proc'[a].alone \in BOOLEAN /\ proc'[a].fresh \in BOOLEAN
    BY <2>2, GoesTo DEF Places
  <2> QED
    BY <1>1, <1>2, <2>3, TurnsTo DEF Places, Checking, Resolving
<1>4. ASSUME NEW revises \in SUBSET {1, 2}, proc' = [proc EXCEPT ![a] = [@ EXCEPT !.revises = revises, !.at = "write1"]]
      PROVE  DecideInv' /\ Pairs!Deciding
  <2>1. PICK n : n = [m EXCEPT !.revises = revises, !.at = "write1"]
    OBVIOUS
  <2>2. proc'[a] = n /\ proc' = [proc EXCEPT ![a] = proc'[a]]
    BY <1>4, <2>1, Becomes
  <2>3. IsProcess(n) /\ n.at = "write1" /\ n.alone = m.alone /\ n.fresh = m.fresh /\ n.copy = m.copy /\ n.why = m.why
    BY <1>1, <2>1 DEF IsProcess, Knows
  <2> QED
    BY <1>1, <1>2, <2>2, <2>3, TurnsTo DEF Places, Checking, Resolving, Knows
<1> QED
  BY <1>3, <1>4 DEF Pairs!Propose

(* What a resolution writes over a page that is as it was read changes      *)
(* nothing, so another process's write leaves the copies true.              *)
LEMMA ApplyDecides ==
  ASSUME DecideInv, NEW a \in Actors, NEW k \in {1, 2}, Pairs!Apply(a, k)
  PROVE  DecideInv' /\ Pairs!Deciding
<1> PICK m : m = proc[a]
  OBVIOUS
<1> PICK x, at : x = m.pair[k] /\ at = <<"write2", "load">>[k]
  OBVIOUS
<1>1. /\ m.at = <<"write1", "write2">>[k] /\ UNCHANGED <<store, decided, raced>> /\ Pairs!Goto(a, at)
      /\ \/ atoms' = [atoms EXCEPT ![x] = m.copy[x]] /\ overtaken' = (overtaken \/ atoms[x] # m.copy[x])
         \/ UNCHANGED <<atoms, overtaken>>
  BY DEF Pairs!Apply, Pairs!Pages, Pairs!Decisions
<1>2. Knows(m, atoms, overtaken)
  BY DEF DecideInv
<1>3. \/ k = 1 /\ m.at = "write1" /\ at = "write2"
      \/ k = 2 /\ m.at = "write2" /\ at = "load"
  BY <1>1
<1>4. m.why = "resolve" /\ (m.fresh /\ ~ overtaken => m.copy = atoms)
  BY <1>2, <1>3 DEF Knows, Resolving
<1>5. atoms' = [y \in Atoms |-> atoms'[y]] /\ overtaken' \in BOOLEAN /\ (overtaken => overtaken')
  <2>1. overtaken \in BOOLEAN /\ atoms = [y \in Atoms |-> atoms[y]]
    BY DEF DecideInv
  <2>2. PICK late \in BOOLEAN : late = (atoms[x] # m.copy[x])
    OBVIOUS
  <2>3. overtaken' = (overtaken \/ late) \/ overtaken' = overtaken
    BY <1>1, <2>2
  <2>4. atoms' = [y \in Atoms |-> atoms'[y]]
    BY <1>1, <2>1
  <2> QED
    BY <2>1, <2>2, <2>3, <2>4
<1>6. ~ overtaken' => atoms' = atoms
  BY <1>1 DEF DecideInv
<1>7. Pairs!EditsKept
  <2>1. ASSUME overtaken' # overtaken PROVE ~ m.fresh
    BY <1>1, <1>4, <2>1 DEF DecideInv
  <2> QED
    BY <1>3, <2>1 DEF Pairs!EditsKept
<1>8. /\ proc' = [proc EXCEPT ![a] = proc'[a]] /\ IsProcess(proc'[a]) /\ proc'[a].at = at /\ proc'[a].why = m.why
      /\ proc'[a].alone = m.alone /\ proc'[a].alone \in BOOLEAN /\ proc'[a].fresh \in BOOLEAN
      /\ proc'[a].copy = m.copy /\ proc'[a] = [m EXCEPT !.at = at]
  <2>1. at \in Places /\ at \notin {"end", "wizard"} /\ Pairs!Goto(a, at)
    BY <1>1, <1>3 DEF Places
  <2> QED
    BY <2>1, GoesTo
<1>9. proc'[a].fresh = m.fresh
  BY <1>2, <1>8 DEF Knows, IsProcess
<1>10. Knows(proc'[a], atoms', overtaken')
  BY <1>3, <1>4, <1>5, <1>6, <1>8, <1>9 DEF Knows, Places, Checking, Resolving
<1>11. Rules(proc'[a], decided', raced', flagged')
  BY <1>3, <1>8 DEF Rules, Checking
<1>12. Heeds(a) /\ Unflags(a)
  BY <1>3, <1>8 DEF Heeds, Unflags, Pairs!Finishes
<1>13. raced' \in BOOLEAN /\ (raced' \/ Lasting(store', decided'))
  BY <1>1 DEF DecideInv
<1> QED
  BY <1>3, <1>5, <1>6, <1>7, <1>8, <1>10, <1>11, <1>12, <1>13, OneMoves

LEMMA StepDecides == DecideInv /\ Pairs!Next => DecideInv' /\ Pairs!Deciding
<1> SUFFICES ASSUME DecideInv, Pairs!Next PROVE DecideInv' /\ Pairs!Deciding
  OBVIOUS
<1>1. CASE Pairs!Edit
  BY <1>1, EditDecides
<1>2. ASSUME NEW a \in Actors, Pairs!Step(a) PROVE DecideInv' /\ Pairs!Deciding
  BY <1>2, BeginCheckDecides, BeginToolDecides, KilledDecides, CheckDecides, WizardDecides, LoadDecides, SaveDecides,
     ReadDecides, ProposeDecides, FlagDecides, ClearDecides, ApplyDecides DEF Pairs!Step
<1> QED
  BY <1>1, <1>2 DEF Pairs!Next

LEMMA StillDecides == DecideInv /\ UNCHANGED Pairs!vars => DecideInv'
<1> SUFFICES ASSUME DecideInv, UNCHANGED Pairs!vars PROVE DecideInv'
  OBVIOUS
<1>1. UNCHANGED <<atoms, flagged, store, proc, decided, raced, overtaken>>
  BY DEF Pairs!vars
<1>2. \A a \in Actors : Knows(proc'[a], atoms', overtaken') /\ Rules(proc'[a], decided', raced', flagged')
  BY <1>1 DEF DecideInv
<1>3. raced' \/ Lasting(store', decided')
  BY <1>1 DEF DecideInv
<1> QED
  BY <1>1, <1>2, <1>3 DEF DecideInv

(* Decisions last, are heeded, and cost no edit, for any atoms, links and   *)
(* actors, however many of them overlap, are killed, or are edited between. *)
THEOREM DecisionsAlwaysHold == Pairs!Spec => DecisionsHold
<1>1. DecideInv /\ [Pairs!Next]_Pairs!vars => DecideInv' /\ [Pairs!Deciding]_Pairs!vars
  BY StepDecides, StillDecides
<1> QED
  BY <1>1, InitDecides, PTL DEF Pairs!Spec, DecisionsHold
=============================================================================
