---------------------------- MODULE ResultProofs ----------------------------
(***************************************************************************)
(* Lemmas about EvalScoring, LayerTools and SiteTools, for any tasks,      *)
(* manifests, calls and requests: what the score of a viewer answer says   *)
(* of what the viewer would run, what the layers say that are made of      *)
(* others, what the tools about sites save, and score, of each, and what   *)
(* the score of a manifest says of the pipeline.                           *)
(***************************************************************************)
EXTENDS ResultParts, TLAPS, SequenceTheorems, FiniteSetTheorems, WellFoundedInduction

-----------------------------------------------------------------------------
(* EvalScoring: a score is full when every check passes.                   *)
LEMMA PerfectIsAll ==
    ASSUME NEW checks, checks \in Seq(BOOLEAN)
    PROVE  /\ Scoring!Passed(checks) \in 0 .. Len(checks)
           /\ Scoring!Passed(checks) = Len(checks) <=> \A i \in DOMAIN checks : checks[i]
  <1> DEFINE all == 1 .. Len(checks)
             good == {i \in DOMAIN checks : checks[i]}
  <1>1. DOMAIN checks = all /\ Len(checks) \in Nat
    OBVIOUS
  <1>2. IsFiniteSet(all) /\ Cardinality(all) = Len(checks)
    BY <1>1, FS_Interval
  <1>3. good \subseteq all
    BY <1>1
  <1>4. IsFiniteSet(good) /\ Cardinality(good) \in 0 .. Len(checks)
    BY <1>1, <1>2, <1>3, FS_Subset, FS_CardinalityType
  <1>5. Cardinality(good) = Len(checks) <=> good = all
    BY <1>2, <1>3, FS_Subset
  <1>6. good = all <=> \A i \in DOMAIN checks : checks[i]
    BY <1>1
  <1>7. Scoring!Passed(checks) = Cardinality(good)
    BY Zenon DEF Scoring!Passed, Scoring!Cardinality, Cardinality
  <1> QED
    BY <1>4, <1>5, <1>6, <1>7

(* The keys of an object, one after the other: each is there.              *)
LEMMA KeysInTurn ==
    ASSUME NEW keys, IsFiniteSet(keys)
    PROVE  /\ Scoring!SetToSeq(keys) \in Seq(keys)
           /\ Len(Scoring!SetToSeq(keys)) = Cardinality(keys)
           /\ \A k \in keys : \E i \in DOMAIN Scoring!SetToSeq(keys) :
                                  Scoring!SetToSeq(keys)[i] = k
  <1> DEFINE s == Scoring!SetToSeq(keys)
             n == Cardinality(keys)
  <1>1. n \in Nat
    BY FS_CardinalityType
  <1>2. \E f \in [1 .. n -> keys] : Scoring!IsInjective(f)
    <2>1. PICK m \in Nat : ExistsBijection(1 .. m, keys)
      BY FS_NatBijection
    <2>2. n = m
      BY <2>1, FS_CountingElements
    <2>3. PICK f \in [1 .. m -> keys] : \A i, j \in 1 .. m : f[i] = f[j] => i = j
      BY <2>1 DEF ExistsBijection, Bijection, Injection, IsInjective
    <2> QED
      BY <2>2, <2>3 DEF Scoring!IsInjective
  <1>3. s \in [1 .. n -> keys] /\ Scoring!IsInjective(s)
    <2>1. Scoring!Cardinality(keys) = n
      BY Zenon DEF Scoring!Cardinality, Cardinality
    <2> QED
      BY <1>2, <2>1 DEF Scoring!SetToSeq
  <1> HIDE DEF s
  <1>4. s \in Seq(keys) /\ Len(s) = n /\ DOMAIN s = 1 .. n
    BY <1>1, <1>3
  <1>5. s \in Injection(1 .. n, keys)
    BY <1>3, <1>4 DEF Scoring!IsInjective, Injection, IsInjective
  <1>6. s \in Surjection(1 .. n, keys)
    <2>1. IsFiniteSet(1 .. n) /\ Cardinality(1 .. n) = n
      BY <1>1, FS_Interval
    <2>2. IsFiniteSet({s[i] : i \in 1 .. n}) /\ Cardinality({s[i] : i \in 1 .. n}) = n
      <3>1. s \in Bijection(1 .. n, {s[i] : i \in 1 .. n})
        BY <1>5 DEF Bijection, Injection, Surjection, IsInjective
      <3> QED
        BY <2>1, <3>1, FS_Bijection DEF ExistsBijection
    <2>3. {s[i] : i \in 1 .. n} \subseteq keys
      BY <1>3
    <2>4. {s[i] : i \in 1 .. n} = keys
      BY <2>2, <2>3, FS_Subset
    <2> QED
      BY <1>3, <2>4 DEF Surjection
  <1>7. \A k \in keys : \E i \in 1 .. n : s[i] = k
    BY <1>6 DEF Surjection
  <1> QED
    BY <1>4, <1>7 DEF s

-----------------------------------------------------------------------------
(* EvalScoring: the checks of one call all pass when it is the call that   *)
(* the task asks for, as far as the scorer reads it.                       *)

AskedFor(task, call) ==
    /\ call.name = task.name
    /\ \A k \in DOMAIN task.args :
           /\ k \in DOMAIN Scoring!CallArguments(call)
           /\ Scoring!CallArguments(call)[k] = task.args[k]

LEMMA CallIsScored ==
    ASSUME NEW task, IsFiniteSet(DOMAIN task.args), NEW call
    PROVE  /\ Scoring!ScoreCall(task, call) \in Seq(BOOLEAN)
           /\ Len(Scoring!ScoreCall(task, call)) = 1 + Cardinality(DOMAIN task.args)
           /\ (\A i \in DOMAIN Scoring!ScoreCall(task, call) : Scoring!ScoreCall(task, call)[i])
                  <=> AskedFor(task, call)
  <1> DEFINE keys == Scoring!SetToSeq(DOMAIN task.args)
             n == Cardinality(DOMAIN task.args)
             given == Scoring!CallArguments(call)
             named == (call.name = task.name)
             Same(k) == k \in DOMAIN given /\ given[k] = task.args[k]
             same == [i \in DOMAIN keys |-> Same(keys[i])]
             checks == <<named>> \o same
  <1>1. /\ keys \in Seq(DOMAIN task.args) /\ Len(keys) = n
        /\ \A k \in DOMAIN task.args : \E i \in DOMAIN keys : keys[i] = k
    BY KeysInTurn
  <1>2. n \in Nat
    BY FS_CardinalityType
  <1>3. Scoring!ScoreCall(task, call) = checks
    BY DEF Scoring!ScoreCall
  <1>4. DOMAIN keys = 1 .. n
    BY <1>1, <1>2
  <1>5. named \in BOOLEAN /\ \A k : Same(k) \in BOOLEAN
    OBVIOUS
  <1>6. AskedFor(task, call) <=> named /\ \A k \in DOMAIN task.args : Same(k)
    BY Zenon DEF AskedFor
  <1>7. \A i \in 1 .. n : keys[i] \in DOMAIN task.args
    BY <1>1, <1>4
  <1> HIDE DEF keys, n, given, named, Same
  <1>8. same \in Seq(BOOLEAN) /\ Len(same) = n /\ \A i \in 1 .. n : same[i] = Same(keys[i])
    BY <1>2, <1>4, <1>5
  <1>9. <<named>> \in Seq(BOOLEAN) /\ Len(<<named>>) = 1 /\ <<named>>[1] = named
    BY <1>5
  <1> HIDE DEF same
  <1>10. /\ checks \in Seq(BOOLEAN) /\ Len(checks) = 1 + n
         /\ checks[1] = named /\ \A i \in 1 .. n : checks[1 + i] = same[i]
    BY <1>2, <1>8, <1>9
  <1> HIDE DEF checks
  <1>11. (\A i \in DOMAIN checks : checks[i]) <=> named /\ \A i \in 1 .. n : same[i]
    <2>1. DOMAIN checks = 1 .. 1 + n
      BY <1>2, <1>10
    <2>2. ASSUME named, \A i \in 1 .. n : same[i], NEW i \in 1 .. 1 + n
          PROVE  checks[i]
      <3>1. CASE i = 1
        BY <1>10, <2>2, <3>1
      <3>2. CASE i # 1
        <4>1. i - 1 \in 1 .. n /\ i = 1 + (i - 1)
          BY <1>2, <3>2
        <4> QED
          BY <1>10, <2>2, <4>1
      <3> QED
        BY <3>1, <3>2
    <2>3. ASSUME \A i \in 1 .. 1 + n : checks[i]
          PROVE  named /\ \A i \in 1 .. n : same[i]
      <3>1. 1 \in 1 .. 1 + n /\ \A i \in 1 .. n : 1 + i \in 1 .. 1 + n
        BY <1>2
      <3> QED
        BY <1>10, <2>3, <3>1
    <2> QED
      BY <2>1, <2>2, <2>3
  <1>12. (\A i \in 1 .. n : same[i]) <=> \A k \in DOMAIN task.args : Same(k)
    <2>1. \A k \in DOMAIN task.args : \E i \in 1 .. n : keys[i] = k
      BY <1>1, <1>4
    <2>2. ASSUME \A i \in 1 .. n : same[i], NEW k \in DOMAIN task.args PROVE Same(k)
      <3>1. PICK i \in 1 .. n : keys[i] = k
        BY <2>1
      <3>2. Same(keys[i])
        BY <1>8, <2>2
      <3> QED
        BY <3>1, <3>2
    <2>3. ASSUME \A k \in DOMAIN task.args : Same(k), NEW i \in 1 .. n PROVE same[i]
      BY <1>7, <1>8, <2>3
    <2> QED
      BY <2>2, <2>3
  <1>13. checks \in Seq(BOOLEAN) /\ Len(checks) = 1 + n
    BY <1>10
  <1>14. (\A i \in DOMAIN checks : checks[i]) <=> AskedFor(task, call)
    BY Zenon, <1>6, <1>11, <1>12
  <1> QED
    BY <1>3, <1>13, <1>14 DEF n

(* What the scorer reads of a call that the tool accepts is what the tool  *)
(* sends, though each puts a call together in an order of its own.         *)
LEMMA ReadIsSent ==
    ASSUME NEW call, "url" \notin DOMAIN call.fields,
           Scoring!ToolAccepts(call), Scoring!WrittenOnce(call)
    PROVE  /\ DOMAIN Scoring!CallArguments(call) = DOMAIN Scoring!ToolSends(call)
           /\ \A k \in DOMAIN Scoring!ToolSends(call) :
                  Scoring!CallArguments(call)[k] = Scoring!ToolSends(call)[k]
  <1> DEFINE fields == call.fields
             inArgs == Scoring!ObjectIn(call.args)
             inUrl == Scoring!ObjectIn(call.url)
             None == Scoring!NoObject
             written == IF inArgs # None THEN inArgs ELSE inUrl
             decoded == IF call.args.kind = "nothing" THEN inUrl ELSE inArgs
             address == IF call.url.kind = "address" THEN Scoring!Address(call) ELSE None
             named == DOMAIN fields \cap Scoring!NamedParameters
             Part(keys) == [k \in keys |-> fields[k]]
             read == Scoring!Over(Scoring!Over(fields, address), written)
             plain == Part(DOMAIN fields \ named)
             last == Part(named)
             sent == Scoring!Over(Scoring!Over(Scoring!Over(plain, decoded), address), last)
  <1>1. call.args.kind # "object" => inArgs = None
    BY DEF Scoring!ObjectIn
  <1>2. call.url.kind # "object" => inUrl = None
    BY DEF Scoring!ObjectIn
  <1>3. written = decoded
    BY <1>1, <1>2 DEF Scoring!ToolAccepts
  <1>4. Scoring!CallArguments(call) = read
    BY Zenon DEF Scoring!CallArguments, Scoring!ToolAccepts
  <1>5. Scoring!ToolSends(call) = sent
    BY DEF Scoring!ToolSends
  <1>6. DOMAIN None = {}
    BY DEF Scoring!NoObject
  <1>7. DOMAIN address \subseteq {"url"} /\ \A k \in DOMAIN address : address[k] = "address"
    BY <1>6 DEF Scoring!Address
  <1>8. \A k \in DOMAIN decoded : k \notin DOMAIN fields
    BY DEF Scoring!WrittenOnce
  <1>9. "url" \in DOMAIN address /\ "url" \in DOMAIN decoded => decoded["url"] = "address"
    BY <1>2, <1>6, <1>7 DEF Scoring!ToolAccepts
  <1>10. /\ DOMAIN plain \cap DOMAIN last = {} /\ DOMAIN plain \cup DOMAIN last = DOMAIN fields
         /\ \A k \in DOMAIN plain : plain[k] = fields[k]
         /\ \A k \in DOMAIN last : last[k] = fields[k]
    OBVIOUS
  <1>11. "url" \notin DOMAIN fields
    OBVIOUS
  <1> HIDE DEF written, decoded, address, plain, last, fields, named
  <1>12. read = Scoring!Over(Scoring!Over(fields, address), decoded)
    BY <1>3
  <1>13. /\ DOMAIN read = DOMAIN fields \cup DOMAIN address \cup DOMAIN decoded
         /\ \A k \in DOMAIN fields : read[k] = fields[k]
         /\ \A k \in DOMAIN address : read[k] = address[k]
         /\ \A k \in DOMAIN decoded :
                k \notin DOMAIN fields \cup DOMAIN address => read[k] = decoded[k]
    <2> DEFINE one == Scoring!Over(fields, address)
    <2>1. /\ DOMAIN one = DOMAIN fields \cup DOMAIN address
          /\ \A k \in DOMAIN fields : one[k] = fields[k]
          /\ \A k \in DOMAIN address : k \notin DOMAIN fields => one[k] = address[k]
      BY DEF Scoring!Over
    <2> HIDE DEF one
    <2>2. /\ DOMAIN read = DOMAIN one \cup DOMAIN decoded
          /\ \A k \in DOMAIN one : read[k] = one[k]
          /\ \A k \in DOMAIN decoded : k \notin DOMAIN one => read[k] = decoded[k]
      BY <1>12 DEF one, Scoring!Over
    <2> HIDE DEF read
    <2> QED
      BY <1>7, <1>11, <2>1, <2>2
  <1>14. /\ DOMAIN sent = DOMAIN plain \cup DOMAIN decoded \cup DOMAIN address \cup DOMAIN last
         /\ \A k \in DOMAIN plain : sent[k] = plain[k]
         /\ \A k \in DOMAIN decoded : k \notin DOMAIN plain => sent[k] = decoded[k]
         /\ \A k \in DOMAIN address :
                k \notin DOMAIN plain \cup DOMAIN decoded => sent[k] = address[k]
         /\ \A k \in DOMAIN last :
                k \notin DOMAIN plain \cup DOMAIN decoded \cup DOMAIN address => sent[k] = last[k]
    <2> DEFINE one == Scoring!Over(plain, decoded)
               two == Scoring!Over(one, address)
    <2>1. /\ DOMAIN one = DOMAIN plain \cup DOMAIN decoded
          /\ \A k \in DOMAIN plain : one[k] = plain[k]
          /\ \A k \in DOMAIN decoded : k \notin DOMAIN plain => one[k] = decoded[k]
      BY DEF Scoring!Over
    <2> HIDE DEF one
    <2>2. /\ DOMAIN two = DOMAIN one \cup DOMAIN address
          /\ \A k \in DOMAIN one : two[k] = one[k]
          /\ \A k \in DOMAIN address : k \notin DOMAIN one => two[k] = address[k]
      BY DEF Scoring!Over
    <2> HIDE DEF two
    <2>3. /\ DOMAIN sent = DOMAIN two \cup DOMAIN last
          /\ \A k \in DOMAIN two : sent[k] = two[k]
          /\ \A k \in DOMAIN last : k \notin DOMAIN two => sent[k] = last[k]
      BY DEF one, two, Scoring!Over
    <2> HIDE DEF sent
    <2> QED
      BY <2>1, <2>2, <2>3
  <1> HIDE DEF read, sent
  <1>15. DOMAIN read = DOMAIN sent
    BY <1>10, <1>13, <1>14
  <1>16. ASSUME NEW k \in DOMAIN sent PROVE read[k] = sent[k]
    <2>1. CASE k \in DOMAIN fields
      BY <1>7, <1>8, <1>10, <1>11, <1>13, <1>14, <2>1
    <2>2. CASE k \in DOMAIN decoded
      <3>1. k \notin DOMAIN fields /\ k \notin DOMAIN plain
        BY <1>8, <1>10, <2>2
      <3>2. sent[k] = decoded[k]
        BY <1>14, <2>2, <3>1
      <3>3. CASE k \in DOMAIN address
        BY <1>7, <1>9, <1>13, <2>2, <3>2, <3>3
      <3>4. CASE k \notin DOMAIN address
        BY <1>13, <2>2, <3>1, <3>2, <3>4
      <3> QED
        BY <3>3, <3>4
    <2>3. CASE k \in DOMAIN address /\ k \notin DOMAIN decoded /\ k \notin DOMAIN fields
      BY <1>10, <1>13, <1>14, <2>3
    <2> QED
      BY <1>10, <1>14, <2>1, <2>2, <2>3
  <1> QED
    BY <1>4, <1>5, <1>15, <1>16

(* A set of naturals has a least element, and a bounded one a greatest.    *)
LEMMA LeastOf ==
    ASSUME NEW S \in SUBSET Nat, S # {}
    PROVE  \E m \in S : \A n \in S : m <= n
  <1>1. PICK m \in S : \A n \in S : ~ (<<n, m>> \in OpToRel(<, Nat))
    BY WFMin, NatLessThanWellFounded
  <1>2. \A n \in S : ~ (n < m)
    BY <1>1 DEF OpToRel
  <1> QED
    BY <1>2

LEMMA GreatestOf ==
    ASSUME NEW N \in Nat, NEW S \in SUBSET (0 .. N), S # {}
    PROVE  \E m \in S : \A n \in S : n <= m
  <1> DEFINE Left == {N - s : s \in S}
  <1>1. Left \in SUBSET Nat /\ Left # {}
    <2>1. \A s \in S : N - s \in Nat
      OBVIOUS
    <2>2. PICK s \in S : TRUE
      OBVIOUS
    <2>3. N - s \in Left
      BY <2>2
    <2> QED
      BY <2>1, <2>3
  <1>2. PICK m \in Left : \A n \in Left : m <= n
    BY <1>1, LeastOf
  <1>3. PICK s \in S : m = N - s
    BY <1>2
  <1>4. \A n \in S : N - s <= N - n
    BY <1>2, <1>3
  <1> QED
    BY <1>3, <1>4

(* score_calls takes the first of the calls with the most checks passed.   *)
LEMMA BestIsScored ==
    ASSUME NEW task, IsFiniteSet(DOMAIN task.args),
           NEW calls, NEW Sent, calls \in Seq(Sent), calls # <<>>
    PROVE  \E b \in DOMAIN calls :
              /\ Scoring!ScoreCalls(task, calls) = Scoring!ScoreCall(task, calls[b])
              /\ \A c \in DOMAIN calls : Scoring!Passed(Scoring!ScoreCall(task, calls[c]))
                                          <= Scoring!Passed(Scoring!ScoreCall(task, calls[b]))
  <1> DEFINE checks == [c \in DOMAIN calls |-> Scoring!ScoreCall(task, calls[c])]
             P(c) == Scoring!Passed(checks[c])
             N == 1 + Cardinality(DOMAIN task.args)
             Best(b) == /\ \A c \in DOMAIN checks : P(c) <= P(b)
                        /\ \A c \in 1 .. b - 1 : P(c) < P(b)
  <1>1. DOMAIN checks = 1 .. Len(calls) /\ Len(calls) \in Nat /\ Len(calls) > 0
    OBVIOUS
  <1>2. N \in Nat
    BY FS_CardinalityType
  <1>3. \A c \in DOMAIN checks : P(c) \in 0 .. N
    BY CallIsScored, PerfectIsAll
  <1>4. Scoring!ScoreCalls(task, calls) = checks[CHOOSE b \in DOMAIN checks : Best(b)]
    BY DEF Scoring!ScoreCalls
  <1>5. \A c \in DOMAIN calls : checks[c] = Scoring!ScoreCall(task, calls[c])
    OBVIOUS
  <1> HIDE DEF P, N, checks
  <1>6. \E b \in DOMAIN checks : Best(b)
    <2> DEFINE passed == {P(c) : c \in DOMAIN checks}
    <2>1. passed \in SUBSET (0 .. N) /\ passed # {}
      BY <1>1, <1>3
    <2>2. PICK most \in passed : \A n \in passed : n <= most
      BY <1>2, <2>1, GreatestOf
    <2> DEFINE tops == {c \in DOMAIN checks : P(c) = most}
    <2>3. tops \in SUBSET Nat /\ tops # {}
      BY <1>1, <2>2
    <2>4. PICK b \in tops : \A c \in tops : b <= c
      BY <2>3, LeastOf
    <2>5. \A c \in DOMAIN checks : P(c) <= P(b)
      BY <2>2, <2>4
    <2>6. ASSUME NEW c \in 1 .. b - 1 PROVE P(c) < P(b)
      <3>1. c \in DOMAIN checks /\ c \notin tops
        BY <1>1, <2>4
      <3> QED
        BY <1>2, <1>3, <2>4, <2>5, <3>1
    <2> QED
      BY <2>4, <2>5, <2>6
  <1>7. PICK b \in DOMAIN checks : Best(b) /\ Scoring!ScoreCalls(task, calls) = checks[b]
    BY <1>4, <1>6
  <1>8. DOMAIN calls = DOMAIN checks
    BY <1>1
  <1> QED
    BY <1>5, <1>7, <1>8 DEF P

-----------------------------------------------------------------------------
(* EvalScoring: a result is the score of the question that was asked.      *)

ScoringInv ==
    /\ \/ question \in GoldenTasks /\ answer \in ModelAnswers
       \/ question \in GoldenViewerTasks /\ answer \in ViewerAnswers
    /\ \/ result = Scoring!Unscored
       \/ result = IF question \in GoldenTasks
                     THEN Scoring!ScoreManifest(question, answer, called)
                     ELSE Scoring!ScoreCalls(question, answer)

LEMMA ScoringInitially == Scoring!Init => ScoringInv
  BY DEF Scoring!Init, ScoringInv

LEMMA ScoringInvariance == ScoringInv /\ [Scoring!Next]_scoringVars => ScoringInv'
  BY Zenon DEF Scoring!Next, Scoring!Score, ScoringInv, scoringVars

LEMMA ViewerScorePromised == ScoringInv => Scoring!PerfectIsWhatTheViewerRuns
  <1> DEFINE Does(call) == /\ call.name = question.name
                           /\ \A k \in DOMAIN question.args :
                                  k \in DOMAIN Scoring!ToolSends(call)
                                     /\ Scoring!ToolSends(call)[k] = question.args[k]
  <1> SUFFICES ASSUME ScoringInv, result # Scoring!Unscored, question \in GoldenViewerTasks,
                      \A c \in DOMAIN answer : /\ Scoring!ToolAccepts(answer[c])
                                               /\ Scoring!WrittenOnce(answer[c])
               PROVE  Scoring!Perfect(result) <=> \E c \in DOMAIN answer : Does(answer[c])
    BY Zenon DEF Scoring!PerfectIsWhatTheViewerRuns
  <1>1. question \notin GoldenTasks /\ IsFiniteSet(DOMAIN question.args)
    BY ResultAssumption
  <1>2. answer \in Seq(CallsSent) /\ answer \in ViewerAnswers
    BY <1>1, ResultAssumption DEF ScoringInv
  <1>3. result = Scoring!ScoreCalls(question, answer)
    BY <1>1 DEF ScoringInv
  <1> DEFINE n == Cardinality(DOMAIN question.args)
             Checks(c) == Scoring!ScoreCall(question, answer[c])
  <1>4. n \in Nat
    BY <1>1, FS_CardinalityType
  <1>5. ASSUME NEW c \in DOMAIN answer PROVE AskedFor(question, answer[c]) <=> Does(answer[c])
    <2>1. answer[c] \in CallsSent
      BY <1>2
    <2>2. "url" \notin DOMAIN answer[c].fields
      BY <2>1, ResultAssumption
    <2>3. /\ DOMAIN Scoring!CallArguments(answer[c]) = DOMAIN Scoring!ToolSends(answer[c])
          /\ \A k \in DOMAIN Scoring!ToolSends(answer[c]) :
                 Scoring!CallArguments(answer[c])[k] = Scoring!ToolSends(answer[c])[k]
      BY <2>2, ReadIsSent
    <2> QED
      BY <2>3 DEF AskedFor
  <1>6. ASSUME NEW c \in DOMAIN answer
        PROVE  /\ Scoring!Passed(Checks(c)) \in 0 .. 1 + n
               /\ Checks(c) \in Seq(BOOLEAN) /\ Len(Checks(c)) = 1 + n
               /\ Scoring!Passed(Checks(c)) = 1 + n <=> Does(answer[c])
    <2> DEFINE checks == Checks(c)
    <2>1. /\ checks \in Seq(BOOLEAN) /\ Len(checks) = 1 + n
          /\ (\A i \in DOMAIN checks : checks[i]) <=> AskedFor(question, answer[c])
      BY <1>1, CallIsScored
    <2> HIDE DEF checks
    <2>2. /\ Scoring!Passed(checks) \in 0 .. Len(checks)
          /\ Scoring!Passed(checks) = Len(checks) <=> \A i \in DOMAIN checks : checks[i]
      BY <2>1, PerfectIsAll
    <2>3. Scoring!Passed(checks) = 1 + n <=> Does(answer[c])
      BY <1>5, <2>1, <2>2, Zenon
    <2> QED
      BY <2>1, <2>2, <2>3 DEF checks
  <1>7. CASE answer = <<>>
    <2> DEFINE rest == [k \in 1 .. n |-> FALSE]
    <2>1. result = <<FALSE>> \o rest
      BY <1>3, <1>7, Zenon DEF Scoring!ScoreCalls, Scoring!Cardinality, Cardinality
    <2>2. rest \in [1 .. n -> BOOLEAN] /\ <<FALSE>> \in Seq(BOOLEAN)
      OBVIOUS
    <2>3. rest \in Seq(BOOLEAN)
      <3> HIDE DEF n, rest
      <3> QED
        BY <1>4, <2>2
    <2> HIDE DEF rest
    <2>4. result \in Seq(BOOLEAN) /\ result[1] = FALSE /\ 1 \in DOMAIN result
      BY <2>1, <2>2, <2>3
    <2>5. ~ Scoring!Perfect(result)
      BY <2>4, PerfectIsAll DEF Scoring!Perfect
    <2>6. DOMAIN answer = {}
      BY <1>7
    <2> QED
      BY <2>5, <2>6
  <1>8. CASE answer # <<>>
    <2>1. PICK b \in DOMAIN answer :
              /\ Scoring!ScoreCalls(question, answer) = Checks(b)
              /\ \A c \in DOMAIN answer : Scoring!Passed(Checks(c)) <= Scoring!Passed(Checks(b))
      BY <1>1, <1>2, <1>8, BestIsScored
    <2>2. result = Checks(b)
      BY <1>3, <2>1
    <2> HIDE DEF Checks, Does
    <2>3. Scoring!Perfect(result) <=> Scoring!Passed(Checks(b)) = 1 + n
      <3>1. result \in Seq(BOOLEAN) /\ Len(result) = 1 + n
        BY <1>6, <2>2
      <3>2. result # <<>>
        BY <1>4, <3>1
      <3> QED
        BY <2>2, <3>1, <3>2 DEF Scoring!Perfect
    <2>4. \A c \in DOMAIN answer : Does(answer[c]) => Does(answer[b])
      BY <1>4, <1>6, <2>1
    <2> QED
      BY <1>6, <2>3, <2>4
  <1> QED
    BY <1>7, <1>8

-----------------------------------------------------------------------------
(* A finite set of integers has a least element and a greatest.            *)
HasEnds(S) == /\ \E m \in S : \A n \in S : m <= n
              /\ \E m \in S : \A n \in S : n <= m

LEMMA EndsOf ==
    ASSUME NEW S \in SUBSET Int, IsFiniteSet(S), S # {}
    PROVE  HasEnds(S)
  <1> DEFINE Endless == {T \in SUBSET S : T # {} /\ ~HasEnds(T)}
             sizes == {Cardinality(T) : T \in Endless}
  <1> SUFFICES Endless = {}
    BY Zenon
  <1> SUFFICES ASSUME Endless # {} PROVE FALSE
    BY Zenon
  <1>1. \A T \in Endless : IsFiniteSet(T) /\ Cardinality(T) \in Nat
    BY FS_Subset, FS_CardinalityType
  <1>2. sizes \in SUBSET Nat /\ sizes # {}
    BY <1>1
  <1>3. PICK least \in sizes : \A n \in sizes : least <= n
    BY <1>2, LeastOf
  <1>4. PICK T \in Endless : least = Cardinality(T)
    BY <1>3
  <1>5. PICK x \in T : TRUE
    BY <1>4
  <1> DEFINE rest == T \ {x}
  <1>6. x \in Int /\ T = rest \cup {x} /\ rest \in SUBSET S
    BY <1>4, <1>5
  <1>7. Cardinality(rest) = least - 1 /\ least \in Nat
    BY <1>1, <1>4, <1>5, FS_RemoveElement
  <1>8. rest \notin Endless
    <2> SUFFICES ASSUME rest \in Endless PROVE FALSE
      OBVIOUS
    <2>1. Cardinality(rest) \in sizes
      OBVIOUS
    <2> QED
      BY <1>3, <1>7, <2>1
  <1>9. CASE rest = {}
    <2>1. T = {x}
      BY <1>6, <1>9
    <2> QED
      BY <1>4, <1>6, <2>1 DEF HasEnds
  <1>10. CASE rest # {}
    <2>1. HasEnds(rest)
      BY <1>6, <1>8, <1>10
    <2> HIDE DEF rest
    <2>2. PICK m \in rest : \A n \in rest : m <= n
      BY <2>1 DEF HasEnds
    <2>3. PICK k \in rest : \A n \in rest : n <= k
      BY <2>1 DEF HasEnds
    <2>4. m \in Int /\ k \in Int /\ rest \in SUBSET Int
      BY <1>6
    <2>5. \E e \in T : \A n \in T : e <= n
      <3>1. CASE m <= x
        BY <1>6, <2>2, <2>4, <3>1
      <3>2. CASE x < m
        BY <1>6, <2>2, <2>4, <3>2
      <3> QED
        BY <1>6, <2>4, <3>1, <3>2
    <2>6. \E e \in T : \A n \in T : n <= e
      <3>1. CASE x <= k
        BY <1>6, <2>3, <2>4, <3>1
      <3>2. CASE k < x
        BY <1>6, <2>3, <2>4, <3>2
      <3> QED
        BY <1>6, <2>4, <3>1, <3>2
    <2> QED
      BY <1>4, <2>5, <2>6 DEF HasEnds
  <1> QED
    BY <1>9, <1>10

(* A sum takes one element after another, the same whatever is summed.     *)
Some(s) == CHOOSE x \in s : TRUE

Takes(g, S, f) ==
    /\ g \in [SUBSET S -> Int]
    /\ g[{}] = 0
    /\ \A s \in SUBSET S :
           s # {} => Some(s) \in s /\ g[s] = f[Some(s)] + g[s \ {Some(s)}]

LEMMA SumTakes ==
    ASSUME NEW S, IsFiniteSet(S), NEW f \in [S -> Int]
    PROVE  \E g : Takes(g, S, f) /\ Layers!SumFunction(f) = g[S]
  <1> DEFINE After(g, s) == IF s = {} THEN 0 ELSE f[Some(s)] + g[s \ {Some(s)}]
             Known(g, n) == \A s \in SUBSET S : Cardinality(s) <= n => g[s] = After(g, s)
             known == {n \in Nat : \E g \in [SUBSET S -> Int] : Known(g, n)}
             unknown == Nat \ known
  <1>1. \A s \in SUBSET S : IsFiniteSet(s) /\ Cardinality(s) \in Nat
    BY FS_Subset, FS_CardinalityType
  <1>2. \A s \in SUBSET S : s # {} => Some(s) \in s
    BY DEF Some
  <1>3. \A g \in [SUBSET S -> Int] : \A s \in SUBSET S : After(g, s) \in Int
    BY <1>2
  <1>4. 0 \in known
    <2> DEFINE g == [s \in SUBSET S |-> 0]
    <2>1. g \in [SUBSET S -> Int]
      OBVIOUS
    <2>2. \A s \in SUBSET S : Cardinality(s) <= 0 => s = {}
      BY <1>1, FS_EmptySet
    <2>3. Known(g, 0)
      BY <2>2
    <2> QED
      BY <2>1, <2>3
  <1>5. ASSUME NEW n \in known PROVE n + 1 \in known
    <2>1. PICK g \in [SUBSET S -> Int] : Known(g, n)
      OBVIOUS
    <2> DEFINE h == [s \in SUBSET S |-> After(g, s)]
    <2>2. h \in [SUBSET S -> Int]
      BY <1>3
    <2>3. ASSUME NEW s \in SUBSET S, Cardinality(s) <= n + 1 PROVE h[s] = After(h, s)
      <3>1. CASE s = {}
        BY <3>1
      <3>2. CASE s # {}
        <4>1. Some(s) \in s /\ s \ {Some(s)} \in SUBSET S
          BY <1>2, <3>2
        <4>2. Cardinality(s \ {Some(s)}) = Cardinality(s) - 1
          BY <1>1, <4>1, FS_RemoveElement
        <4>3. Cardinality(s \ {Some(s)}) <= n
          BY <1>1, <2>3, <4>2
        <4>4. g[s \ {Some(s)}] = h[s \ {Some(s)}]
          BY <2>1, <4>1, <4>3
        <4> QED
          BY <3>2, <4>4
      <3> QED
        BY <3>1, <3>2
    <2> HIDE DEF h
    <2>4. Known(h, n + 1)
      BY <2>3
    <2>5. n + 1 \in Nat
      OBVIOUS
    <2> HIDE DEF Known
    <2> QED
      BY <2>2, <2>4, <2>5
  <1>6. unknown = {}
    <2> SUFFICES ASSUME unknown # {} PROVE FALSE
      OBVIOUS
    <2> HIDE DEF known
    <2>1. PICK n \in unknown : \A k \in unknown : n <= k
      BY LeastOf
    <2>2. n # 0 /\ n \in Nat
      BY <1>4, <2>1
    <2>3. n - 1 \in known
      BY <2>1, <2>2
    <2>4. n - 1 + 1 \in known
      BY <1>5, <2>3
    <2> QED
      BY <2>1, <2>2, <2>4
  <1>7. PICK g \in [SUBSET S -> Int] : Known(g, Cardinality(S))
    BY <1>1, <1>6
  <1>8. \A s \in SUBSET S : g[s] = After(g, s)
    BY <1>1, <1>7, FS_Subset
  <1>9. g = [s \in SUBSET S |-> After(g, s)]
    BY <1>8
  <1> DEFINE iter == CHOOSE it : it = [s \in SUBSET S |-> After(it, s)]
  <1>10. iter = [s \in SUBSET S |-> After(iter, s)]
    BY <1>9, Zenon
  <1>11. \A s \in SUBSET S : iter[s] = After(iter, s)
    BY <1>10
  <1> DEFINE unlike == {s \in SUBSET S : iter[s] # g[s]}
             sizes == {Cardinality(s) : s \in unlike}
  <1>12. unlike = {}
    <2> SUFFICES ASSUME unlike # {} PROVE FALSE
      BY Zenon
    <2> HIDE DEF iter
    <2>1. sizes \in SUBSET Nat /\ sizes # {}
      BY <1>1
    <2>2. PICK least \in sizes : \A n \in sizes : least <= n
      BY <2>1, LeastOf
    <2>3. PICK s \in unlike : least = Cardinality(s)
      BY <2>2
    <2>4. s # {}
      BY <1>8, <1>11, <2>3
    <2>5. Some(s) \in s /\ s \ {Some(s)} \in SUBSET S
      BY <1>2, <2>4
    <2>6. Cardinality(s \ {Some(s)}) = least - 1 /\ least \in Nat
      BY <1>1, <2>3, <2>5, FS_RemoveElement
    <2>7. s \ {Some(s)} \notin unlike
      <3> SUFFICES ASSUME s \ {Some(s)} \in unlike PROVE FALSE
        OBVIOUS
      <3>1. Cardinality(s \ {Some(s)}) \in sizes
        OBVIOUS
      <3> QED
        BY <2>2, <2>6, <3>1
    <2> QED
      BY <1>8, <1>11, <2>4, <2>5, <2>7
  <1>13. Layers!SumFunction(f) = iter[S]
    <2>1. DOMAIN f = S
      OBVIOUS
    <2> QED
      BY <2>1, Zenon DEF Layers!SumFunction, Layers!SumFunctionOnSet,
                         Layers!FoldFunctionOnSet, Layers!MapThenFoldSet, Some
  <1>14. Layers!SumFunction(f) = g[S]
    BY <1>12, <1>13, Zenon
  <1>15. Takes(g, S, f)
    <2>1. g[{}] = 0
      BY <1>8
    <2>2. ASSUME NEW s \in SUBSET S, s # {}
          PROVE  Some(s) \in s /\ g[s] = f[Some(s)] + g[s \ {Some(s)}]
      BY <1>2, <1>8, <2>2
    <2> QED
      BY <2>1, <2>2 DEF Takes
  <1> QED
    BY <1>14, <1>15

LEMMA SumBetween ==
    ASSUME NEW S, IsFiniteSet(S), NEW f \in [S -> Int], NEW low \in Int, NEW high \in Int,
           \A x \in S : low <= f[x] /\ f[x] <= high
    PROVE  /\ Layers!SumFunction(f) \in Int
           /\ Cardinality(S) * low <= Layers!SumFunction(f)
           /\ Layers!SumFunction(f) <= Cardinality(S) * high
  <1>1. PICK g : Takes(g, S, f) /\ Layers!SumFunction(f) = g[S]
    BY SumTakes
  <1> DEFINE Between(s) == Cardinality(s) * low <= g[s] /\ g[s] <= Cardinality(s) * high
             outside == {s \in SUBSET S : ~Between(s)}
             sizes == {Cardinality(s) : s \in outside}
  <1>2. g \in [SUBSET S -> Int]
    BY <1>1 DEF Takes
  <1>3. outside = {}
    <2> SUFFICES ASSUME outside # {} PROVE FALSE
      BY Zenon
    <2>1. \A s \in SUBSET S : IsFiniteSet(s) /\ Cardinality(s) \in Nat
      BY FS_Subset, FS_CardinalityType
    <2>2. sizes \in SUBSET Nat /\ sizes # {}
      BY <2>1
    <2>3. PICK least \in sizes : \A n \in sizes : least <= n
      BY <2>2, LeastOf
    <2>4. PICK s \in outside : least = Cardinality(s)
      BY <2>3
    <2>5. s # {}
      <3> SUFFICES ASSUME s = {} PROVE FALSE
        BY Zenon
      <3>1. g[s] = 0 /\ Cardinality(s) = 0
        BY <1>1, FS_EmptySet DEF Takes
      <3> QED
        BY <2>4, <3>1
    <2>6. PICK x \in s : g[s] = f[x] + g[s \ {x}]
      BY <1>1, <2>4, <2>5 DEF Takes
    <2> DEFINE rest == s \ {x}
    <2>7. rest \in SUBSET S /\ x \in S
      BY <2>4
    <2>8. Cardinality(rest) = least - 1 /\ least \in Nat
      BY <2>1, <2>4, FS_RemoveElement
    <2>9. rest \notin outside
      <3> SUFFICES ASSUME rest \in outside PROVE FALSE
        OBVIOUS
      <3>1. Cardinality(rest) \in sizes
        OBVIOUS
      <3> QED
        BY <2>3, <2>8, <3>1
    <2>10. (least - 1) * low <= g[rest] /\ g[rest] <= (least - 1) * high
      BY <2>7, <2>8, <2>9
    <2>11. g[rest] \in Int /\ f[x] \in Int /\ low <= f[x] /\ f[x] <= high
      BY <1>2, <2>7
    <2>12. g[s] = f[x] + g[rest]
      BY <2>6
    <2> HIDE DEF rest
    <2>13. (least - 1) * low = least * low - low /\ (least - 1) * high = least * high - high
      BY <2>8
    <2>14. least * low \in Int /\ least * high \in Int
      BY <2>8
    <2>15. least * low <= g[s] /\ g[s] <= least * high
      BY <2>10, <2>11, <2>12, <2>13, <2>14
    <2> QED
      BY <2>4, <2>15
  <1>4. S \in SUBSET S
    OBVIOUS
  <1> QED
    BY <1>1, <1>2, <1>3, <1>4

(* The sizes of sets that do not overlap add up to that of all together.   *)
LEMMA SumOfSizes ==
    ASSUME NEW S, IsFiniteSet(S), NEW D, IsFiniteSet(D), NEW M \in [S -> SUBSET D],
           \A x, y \in S : x # y => M[x] \cap M[y] = {},
           NEW f \in [S -> Int], \A x \in S : f[x] = Cardinality(M[x]),
           NEW T, \A i : i \in T <=> \E x \in S : i \in M[x]
    PROVE  Layers!SumFunction(f) = Cardinality(T)
  <1>1. PICK g : Takes(g, S, f) /\ Layers!SumFunction(f) = g[S]
    BY SumTakes
  <1> DEFINE Of(s) == UNION {M[x] : x \in s}
             wrong == {s \in SUBSET S : g[s] # Cardinality(Of(s))}
             sizes == {Cardinality(s) : s \in wrong}
  <1>3. wrong = {}
    <2> SUFFICES ASSUME wrong # {} PROVE FALSE
      BY Zenon
    <2> HIDE DEF Of
    <2>1. \A s \in SUBSET S : IsFiniteSet(s) /\ Cardinality(s) \in Nat
      BY FS_Subset, FS_CardinalityType
    <2>2. sizes \in SUBSET Nat /\ sizes # {}
      BY <2>1
    <2>3. PICK least \in sizes : \A n \in sizes : least <= n
      BY <2>2, LeastOf
    <2>4. PICK s \in wrong : least = Cardinality(s)
      BY <2>3
    <2>5. s # {}
      <3> SUFFICES ASSUME s = {} PROVE FALSE
        BY Zenon
      <3>1. g[s] = 0 /\ Cardinality({}) = 0
        BY <1>1, FS_EmptySet DEF Takes
      <3>2. Of(s) = {}
        BY DEF Of
      <3>3. Cardinality(Of(s)) = 0
        BY <3>1, <3>2, Zenon
      <3> QED
        BY <2>4, <3>1, <3>3
    <2>6. PICK x \in s : g[s] = f[x] + g[s \ {x}]
      BY <1>1, <2>4, <2>5 DEF Takes
    <2> DEFINE rest == s \ {x}
    <2>7. rest \in SUBSET S /\ x \in S
      BY <2>4
    <2>8. Cardinality(rest) = least - 1 /\ least \in Nat
      BY <2>1, <2>4, FS_RemoveElement
    <2>9. rest \notin wrong
      <3> SUFFICES ASSUME rest \in wrong PROVE FALSE
        OBVIOUS
      <3>1. Cardinality(rest) \in sizes
        OBVIOUS
      <3> QED
        BY <2>3, <2>8, <3>1
    <2>10. g[rest] = Cardinality(Of(rest))
      BY <2>7, <2>9
    <2>11. Of(s) = Of(rest) \cup M[x]
      BY DEF Of
    <2>12. Of(rest) \cap M[x] = {}
      BY <2>4 DEF Of
    <2>13. IsFiniteSet(Of(rest)) /\ IsFiniteSet(M[x])
      <3>1. Of(rest) \in SUBSET D /\ M[x] \in SUBSET D
        BY <2>7 DEF Of
      <3> QED
        BY <3>1, FS_Subset
    <2> DEFINE others == Of(rest)
    <2>14. others \cup M[x] = Of(s) /\ others \cap M[x] = {} /\ IsFiniteSet(others)
           /\ g[rest] = Cardinality(others)
      BY <2>10, <2>11, <2>12, <2>13
    <2> HIDE DEF others
    <2>15. Cardinality(others \cup M[x]) = Cardinality(others) + Cardinality(M[x])
      <3>1. Cardinality(others \cap M[x]) = 0
        BY <2>14, FS_EmptySet
      <3>2. Cardinality(others) \in Nat /\ Cardinality(M[x]) \in Nat
        BY <2>13, <2>14, FS_CardinalityType
      <3>3. Cardinality(others \cup M[x])
               = Cardinality(others) + Cardinality(M[x]) - Cardinality(others \cap M[x])
        BY <2>13, <2>14, FS_Union
      <3> QED
        BY <3>1, <3>2, <3>3
    <2>16. g[s] = Cardinality(M[x]) + Cardinality(others)
      BY <2>6, <2>7, <2>14
    <2>17. Cardinality(others) \in Nat /\ Cardinality(M[x]) \in Nat
      BY <2>13, <2>14, FS_CardinalityType
    <2>18. Cardinality(Of(s)) = Cardinality(others) + Cardinality(M[x])
      BY <2>14, <2>15, Zenon
    <2>19. g[s] = Cardinality(Of(s))
      BY <2>16, <2>17, <2>18
    <2> QED
      BY <2>4, <2>19
  <1>4. S \in SUBSET S /\ S \notin wrong
    BY <1>3
  <1>5. Of(S) = T
    OBVIOUS
  <1> QED
    BY <1>1, <1>4, <1>5

-----------------------------------------------------------------------------
(* LayerTools: what each tool answers, of the request it is given.         *)

(* compare_layers *)
LEMMA ComparedIsBoth ==
    ASSUME NEW q, Layers!CompareLayers(q).is = "saved"
    PROVE  LET rows == Layers!CompareLayers(q).rows IN
           /\ UNION {p.area : p \in rows} = UNION (Layers!ToSet(q.a) \cup Layers!ToSet(q.b))
           /\ \A p, s \in rows : p # s => p.area \cap s.area = {}
  <1> DEFINE a == UNION Layers!ToSet(q.a)
             b == UNION Layers!ToSet(q.b)
             three == {[layer |-> "intersection", area |-> a \cap b],
                       [layer |-> "only_a", area |-> a \ b],
                       [layer |-> "only_b", area |-> b \ a]}
             rows == {p \in three : p.area # {}}
  <1>1. Layers!CompareLayers(q).rows = rows
    BY DEF Layers!CompareLayers, Layers!Saved, Layers!Refused
  <1>2. UNION (Layers!ToSet(q.a) \cup Layers!ToSet(q.b)) = a \cup b
    OBVIOUS
  <1> HIDE DEF a, b
  <1>3. \A p \in three : p.area \in {a \cap b, a \ b, b \ a}
    OBVIOUS
  <1>4. \A area \in {a \cap b, a \ b, b \ a} : \E p \in three : p.area = area
    OBVIOUS
  <1>5. \A p, s \in three : p # s => p.area \cap s.area = {}
    OBVIOUS
  <1>6. UNION {p.area : p \in rows} = a \cup b
    <2>1. \A at \in a \cup b : \E area \in {a \cap b, a \ b, b \ a} : at \in area
      OBVIOUS
    <2>2. \A at \in a \cup b : \E p \in rows : at \in p.area
      BY <1>4, <2>1
    <2>3. \A p \in rows : \A at \in p.area : at \in a \cup b
      BY <1>3
    <2> QED
      BY <2>2, <2>3
  <1> QED
    BY <1>1, <1>2, <1>5, <1>6

(* cluster_points *)
LEMMA EachIsCounted ==
    ASSUME NEW q, q.labels \in Seq(Int), Layers!ClusterPoints(q).is = "saved"
    PROVE  Layers!SumFunction([hull \in Layers!ClusterPoints(q).rows |-> hull.point_count])
               = Cardinality({i \in DOMAIN q.labels : q.labels[i] # Layers!Noise})
  <1> DEFINE Mask(cid) == {i \in DOMAIN q.labels : q.labels[i] = cid}
             Hull(cid) == [cluster_id |-> cid, point_count |-> Cardinality(Mask(cid))]
             cids == Layers!ToSet(q.labels) \ {Layers!Noise}
             rows == {Hull(cid) : cid \in cids}
             loud == {i \in DOMAIN q.labels : q.labels[i] # Layers!Noise}
             counts == [hull \in rows |-> hull.point_count]
             masks == [hull \in rows |-> Mask(hull.cluster_id)]
  <1>1. Layers!ClusterPoints(q).rows = rows
    <2>1. \A S : Layers!Cardinality(S) = Cardinality(S)
      BY Zenon DEF Layers!Cardinality, Cardinality
    <2> QED
      BY <2>1 DEF Layers!ClusterPoints, Layers!Saved, Layers!Refused
  <1>2. IsFiniteSet(DOMAIN q.labels)
    <2>1. DOMAIN q.labels = 1 .. Len(q.labels) /\ Len(q.labels) \in Nat
      OBVIOUS
    <2> QED
      BY <2>1, FS_Interval
  <1>3. \A cid : Mask(cid) \in SUBSET DOMAIN q.labels /\ Cardinality(Mask(cid)) \in Nat
    BY <1>2, FS_Subset, FS_CardinalityType
  <1>4. IsFiniteSet(rows)
    <2>1. cids = {q.labels[i] : i \in loud}
      BY DEF Layers!ToSet
    <2> DEFINE hulls == [i \in loud |-> Hull(q.labels[i])]
    <2> HIDE DEF loud, Hull, cids
    <2>2. \A hull \in rows : \E i \in loud : hulls[i] = hull
      BY <2>1
    <2>3. hulls \in Surjection(loud, rows)
      BY <2>1, <2>2 DEF Surjection
    <2>4. IsFiniteSet(loud)
      BY <1>2, FS_Subset DEF loud
    <2> QED
      BY <2>3, <2>4, FS_Surjection
  <1>5. \A hull \in rows : \E cid \in cids :
            hull.cluster_id = cid /\ hull.point_count = Cardinality(Mask(cid)) /\ hull = Hull(cid)
    <2> HIDE DEF Mask, cids
    <2> QED
      OBVIOUS
  <1>6. \A i : i \in loud <=> \E hull \in rows : i \in masks[hull]
    <2>1. \A i \in loud : q.labels[i] \in cids /\ Hull(q.labels[i]) \in rows
      BY DEF Layers!ToSet
    <2>2. \A i \in loud : i \in masks[Hull(q.labels[i])]
      BY <2>1
    <2>3. \A hull \in rows : masks[hull] \subseteq loud
      BY <1>5
    <2> QED
      BY <2>1, <2>2, <2>3
  <1>7. counts \in [rows -> Int] /\ \A hull \in rows : counts[hull] = Cardinality(masks[hull])
    <2> HIDE DEF Mask, cids, rows
    <2> QED
      BY <1>3, <1>5
  <1>8. masks \in [rows -> SUBSET DOMAIN q.labels]
    BY <1>3
  <1>9. \A g, h \in rows : g # h => masks[g] \cap masks[h] = {}
    <2> SUFFICES ASSUME NEW g \in rows, NEW h \in rows, g.cluster_id # h.cluster_id
                 PROVE  masks[g] \cap masks[h] = {}
      <3> HIDE DEF rows, masks, Mask
      <3> QED
        BY <1>5
    <2> HIDE DEF rows
    <2> QED
      OBVIOUS
  <1> HIDE DEF rows, masks, counts, loud
  <1>10. Layers!SumFunction(counts) = Cardinality(loud)
    <2>1. PICK D : D = DOMAIN q.labels
      OBVIOUS
    <2>2. PICK M : M = masks
      OBVIOUS
    <2>3. PICK f : f = counts
      OBVIOUS
    <2>4. IsFiniteSet(D) /\ M \in [rows -> SUBSET D] /\ f \in [rows -> Int]
      BY <1>2, <1>7, <1>8, <2>1, <2>2, <2>3
    <2>5. /\ \A g, h \in rows : g # h => M[g] \cap M[h] = {}
          /\ \A hull \in rows : f[hull] = Cardinality(M[hull])
      BY <1>7, <1>9, <2>2, <2>3
    <2>6. \A i : i \in loud <=> \E hull \in rows : i \in M[hull]
      BY <1>6, <2>2
    <2>7. Layers!SumFunction(f) = Cardinality(loud)
      BY <1>4, <2>4, <2>5, <2>6, SumOfSizes
    <2> QED
      BY <2>3, <2>7
  <1> QED
    BY <1>1, <1>10, Zenon DEF counts, loud

(* aggregate_by_region *)
InsideOf(q, r) == {f \in DOMAIN q.features : q.features[f].at \in q.regions[r].area}

LEMMA RegionShowsItsOwn ==
    ASSUME NEW q \in LayerRequests, q.tool = "aggregate_by_region",
           Layers!AggregateByRegion(q).is = "saved", q.labelled = "regions",
           \A r, s \in DOMAIN q.regions : r # s => q.regions[r].label # q.regions[s].label,
           NEW r \in DOMAIN q.regions
    PROVE  LET row == Layers!AggregateByRegion(q).rows[r] IN
           /\ row.feature_count =
                  (IF q.regions[r].label = {} THEN {}
                   ELSE Layers!Give(InsideOf(q, r) # {}, Cardinality(InsideOf(q, r))))
           /\ (q.func = "max" /\ row.value # {}) =>
                  row.value \subseteq UNION {q.features[f].value : f \in InsideOf(q, r)}
  <1> DEFINE row == Layers!AggregateByRegion(q).rows[r]
             inside == InsideOf(q, r)
             label == Layers!Held(q.regions[r].label)
             group == Layers!Group(q, label)
  <1>1. /\ \A s \in DOMAIN q.regions : \A a, b \in q.regions[s].label : a = b
        /\ IsFiniteSet(DOMAIN q.features)
        /\ \A f \in DOMAIN q.features : /\ q.features[f].value \subseteq Int
                                        /\ \A a, b \in q.features[f].value : a = b
    BY LayerAssumption
  <1>2. Layers!AggregateByRegion(q).rows = Layers!Merged(q)
    BY DEF Layers!AggregateByRegion, Layers!Saved, Layers!Refused
  <1>3. row = IF q.regions[r].label \subseteq Layers!Labels(q) /\ q.regions[r].label # {}
                THEN Layers!Figures(q, label) ELSE Layers!NoFigures
    BY <1>2 DEF Layers!Merged
  <1>4. CASE q.regions[r].label = {}
    BY <1>3, <1>4 DEF Layers!NoFigures
  <1>5. CASE q.regions[r].label # {}
    <2>1. q.regions[r].label = {label}
      <3>1. label \in q.regions[r].label
        BY <1>5 DEF Layers!Held
      <3> HIDE DEF label
      <3> QED
        BY <1>1, <3>1
    <2> HIDE DEF label
    <2>2. \A s \in DOMAIN q.regions : label \in q.regions[s].label => s = r
      <3> SUFFICES ASSUME NEW s \in DOMAIN q.regions, label \in q.regions[s].label, s # r
                   PROVE  FALSE
        OBVIOUS
      <3>1. q.regions[s].label = {label}
        BY <1>1
      <3> QED
        BY <2>1, <3>1
    <2>3. group = {<<r, f>> : f \in inside}
      <3>1. \A pair \in group : pair[1] = r /\ pair[2] \in inside /\ pair = <<r, pair[2]>>
        BY <2>2 DEF Layers!Group, Layers!Joined, InsideOf
      <3>2. \A f \in inside : <<r, f>> \in group
        BY <2>1 DEF Layers!Group, Layers!Joined, InsideOf
      <3> QED
        BY <3>1, <3>2
    <2>4. IsFiniteSet(group) /\ Cardinality(group) = Cardinality(inside)
      <3> DEFINE pairOf == [f \in inside |-> <<r, f>>]
      <3>1. pairOf \in Bijection(inside, group)
        BY <2>3 DEF Bijection, Injection, Surjection, IsInjective
      <3>2. IsFiniteSet(inside)
        BY <1>1, FS_Subset DEF InsideOf
      <3> QED
        BY <3>1, <3>2, FS_Bijection DEF ExistsBijection
    <2>5. label \in Layers!Labels(q) <=> inside # {}
      <3>1. label \in Layers!Labels(q) <=> group # {}
        BY DEF Layers!Labels, Layers!Group
      <3> QED
        BY <2>3, <3>1
    <2>6. CASE inside = {}
      <3>1. row = Layers!NoFigures
        BY <1>3, <2>1, <2>5, <2>6
      <3> QED
        BY <1>5, <2>6, <3>1 DEF Layers!NoFigures, Layers!Give
    <2>7. CASE inside # {}
      <3>1. row = Layers!Figures(q, label)
        BY <1>3, <1>5, <2>1, <2>5, <2>7
      <3>2. row.feature_count = {Cardinality(inside)}
        <4>1. Layers!Cardinality(group) = Cardinality(group)
          BY Zenon DEF Layers!Cardinality, Cardinality
        <4> QED
          BY <2>4, <3>1, <4>1 DEF Layers!Figures
      <3>3. ASSUME q.func = "max", row.value # {}
            PROVE  row.value \subseteq UNION {q.features[f].value : f \in inside}
        <4> DEFINE vals == UNION {q.features[pair[2]].value : pair \in group}
        <4>1. row.value = Layers!Give(vals # {}, Layers!Max(vals))
          BY <3>1, <3>3 DEF Layers!Figures, Layers!Aggregated
        <4>2. vals = UNION {q.features[f].value : f \in inside}
          <5>1. \A pair \in group : pair[2] \in inside
            BY <2>3
          <5>2. \A f \in inside : \E pair \in group : pair[2] = f
            <6>1. \A f \in inside : <<r, f>> \in group /\ <<r, f>>[2] = f
              BY <2>3
            <6> HIDE DEF inside, group
            <6> QED
              BY <6>1
          <5> QED
            BY <5>1, <5>2
        <4>3. vals # {} /\ row.value = {Layers!Max(vals)}
          BY <3>3, <4>1 DEF Layers!Give
        <4>4. vals \in SUBSET Int
          BY <1>1, <4>2 DEF InsideOf
        <4>5. IsFiniteSet(vals)
          <5> DEFINE held == {f \in inside : q.features[f].value # {}}
                     valueOf == [f \in held |-> Layers!Held(q.features[f].value)]
          <5>1. \A f \in held : valueOf[f] \in q.features[f].value
            BY DEF Layers!Held
          <5>2. \A f \in held : q.features[f].value = {valueOf[f]}
            <6> HIDE DEF valueOf
            <6> QED
              BY <1>1, <5>1 DEF InsideOf
          <5>3. valueOf \in Surjection(held, vals)
            <6>1. \A f \in held : valueOf[f] \in vals
              BY <4>2, <5>1
            <6>2. \A v \in vals : \E f \in held : v \in q.features[f].value
              BY <4>2
            <6>3. \A v \in vals : \E f \in held : valueOf[f] = v
              <7> HIDE DEF valueOf
              <7> QED
                BY <5>2, <6>2
            <6> QED
              BY <6>1, <6>3 DEF Surjection
          <5>4. IsFiniteSet(held)
            BY <1>1, FS_Subset DEF InsideOf
          <5> QED
            BY <5>3, <5>4, FS_Surjection
        <4> HIDE DEF vals
        <4>6. Layers!Max(vals) \in vals
          <5>1. \E m \in vals : \A n \in vals : m >= n
            BY <4>3, <4>4, <4>5, EndsOf DEF HasEnds
          <5> QED
            BY <5>1 DEF Layers!Max
        <4> QED
          BY <4>2, <4>3, <4>6
      <3> QED
        BY <1>5, <2>7, <3>2, <3>3 DEF Layers!Give
    <2> QED
      BY <2>6, <2>7
  <1> QED
    BY <1>4, <1>5

(* voronoi: how wide what is clipped to is.                                *)
LEMMA ExtentBounds ==
    ASSUME NEW area \in SUBSET SmallPlane, area # {}, NEW axis \in {1, 2}
    PROVE  /\ Layers!Extent(area, axis) \in Nat
           /\ \A a, b \in area : a[axis] - b[axis] <= Layers!Extent(area, axis)
  <1> DEFINE along == {at[axis] : at \in area}
             coord == [at \in area |-> at[axis]]
  <1>1. \A at \in area : at[axis] \in Int
    BY LayerAssumption
  <1>2. along \in SUBSET Int /\ along # {}
    BY <1>1
  <1>3. IsFiniteSet(along)
    <2>1. coord \in Surjection(area, along)
      BY DEF Surjection
    <2>2. IsFiniteSet(area)
      BY LayerAssumption, FS_Subset
    <2> QED
      BY <2>1, <2>2, FS_Surjection
  <1>4. Layers!Extent(area, axis) = Layers!Max(along) - Layers!Min(along)
    BY DEF Layers!Extent
  <1>5. \A a \in area : a[axis] \in along
    OBVIOUS
  <1> HIDE DEF along
  <1>6. /\ \E m \in along : \A n \in along : m =< n
        /\ \E m \in along : \A n \in along : m >= n
    BY <1>2, <1>3, EndsOf DEF HasEnds
  <1>7. Layers!Max(along) \in along /\ \A n \in along : Layers!Max(along) >= n
    BY <1>6 DEF Layers!Max
  <1>8. Layers!Min(along) \in along /\ \A n \in along : Layers!Min(along) =< n
    BY <1>6 DEF Layers!Min
  <1>9. PICK high \in Int : high = Layers!Max(along)
    BY <1>2, <1>7
  <1>10. PICK low \in Int : low = Layers!Min(along)
    BY <1>2, <1>8
  <1>11. Layers!Extent(area, axis) = high - low
    BY <1>4, <1>9, <1>10
  <1>12. \A a \in area : a[axis] \in Int /\ low <= a[axis] /\ a[axis] <= high
    BY <1>1, <1>2, <1>5, <1>7, <1>8, <1>9, <1>10
  <1> QED
    BY <1>11, <1>12

LEMMA LongSideBounds ==
    ASSUME NEW q, Layers!ClipPoly(q) \in SUBSET SmallPlane, Layers!ClipPoly(q) # {}
    PROVE  /\ Layers!LongSide(q) \in Nat
           /\ \A a, b \in Layers!ClipPoly(q) : /\ a[1] - b[1] <= Layers!LongSide(q)
                                               /\ a[2] - b[2] <= Layers!LongSide(q)
  <1> DEFINE across == Layers!Extent(Layers!ClipPoly(q), 1)
             up == Layers!Extent(Layers!ClipPoly(q), 2)
  <1>1. across \in Nat /\ up \in Nat
    BY ExtentBounds
  <1>2. \A a, b \in Layers!ClipPoly(q) : a[1] - b[1] <= across /\ a[2] - b[2] <= up
    BY ExtentBounds
  <1>3. Layers!LongSide(q) = Layers!Max({across, up})
    BY DEF Layers!LongSide
  <1> HIDE DEF across, up
  <1>4. Layers!LongSide(q) \in {across, up} /\ Layers!LongSide(q) >= across
            /\ Layers!LongSide(q) >= up
    <2>1. \E m \in {across, up} : \A n \in {across, up} : m >= n
      BY <1>1
    <2> QED
      BY <1>3, <2>1 DEF Layers!Max
  <1>5. \A a \in Layers!ClipPoly(q) : a[1] \in Int /\ a[2] \in Int
    BY LayerAssumption
  <1> QED
    BY <1>1, <1>2, <1>4, <1>5

(* voronoi: products.                                                      *)
LEMMA ProductWithin ==
    ASSUME NEW u \in Int, NEW v \in Int, NEW m \in Nat, NEW d \in Nat,
           -m <= u, u <= m, -d <= v, v <= d
    PROVE  -(m * d) <= u * v /\ u * v <= m * d
  <1>1. (m - u) * (d + v) >= 0 /\ (m + u) * (d - v) >= 0
    OBVIOUS
  <1>2. (m - u) * (d - v) >= 0 /\ (m + u) * (d + v) >= 0
    OBVIOUS
  <1>3. /\ (m - u) * (d + v) = m * d + m * v - u * d - u * v
        /\ (m + u) * (d - v) = m * d - m * v + u * d - u * v
        /\ (m - u) * (d - v) = m * d - m * v - u * d + u * v
        /\ (m + u) * (d + v) = m * d + m * v + u * d + u * v
    OBVIOUS
  <1>4. m * d \in Int /\ m * v \in Int /\ u * d \in Int /\ u * v \in Int
    OBVIOUS
  <1> QED
    BY <1>1, <1>2, <1>3, <1>4

LEMMA SquareBeyond ==
    ASSUME NEW v \in Int, NEW n \in Nat, v >= 2 * n \/ v <= -(2 * n)
    PROVE  v * v >= 4 * (n * n)
  <1>1. (v - 2 * n) * (v + 2 * n) >= 0
    <2>1. CASE v >= 2 * n
      BY <2>1
    <2>2. CASE v <= -(2 * n)
      BY <2>2
    <2> QED
      BY <2>1, <2>2
  <1>2. (v - 2 * n) * (v + 2 * n) = v * v - 4 * (n * n)
    OBVIOUS
  <1> QED
    BY <1>1, <1>2

(* voronoi: the points, scaled, lie about their mean.                      *)
CentreOf(q, axis) == Layers!SumFunction([i \in DOMAIN q.points |-> q.points[i][axis]])

LEMMA CentreIsNear ==
    ASSUME NEW q, q.points \in Seq(Int \X Int), Len(q.points) > 0,
           NEW axis \in {1, 2}, NEW long \in Nat, NEW at \in Int,
           \A i \in DOMAIN q.points : /\ at - q.points[i][axis] <= long
                                     /\ q.points[i][axis] - at <= long
    PROVE  /\ CentreOf(q, axis) \in Int
           /\ -(Len(q.points) * long) <= Len(q.points) * at - CentreOf(q, axis)
           /\ Len(q.points) * at - CentreOf(q, axis) <= Len(q.points) * long
  <1> DEFINE all == DOMAIN q.points
             coord == [i \in all |-> q.points[i][axis]]
  <1>1. PICK n \in Nat : n = Len(q.points)
    OBVIOUS
  <1>2. IsFiniteSet(all) /\ Cardinality(all) = n
    <2>1. all = 1 .. n
      BY <1>1
    <2> QED
      BY <2>1, FS_Interval
  <1>3. coord \in [all -> Int]
    OBVIOUS
  <1>4. \A i \in all : at - long <= coord[i] /\ coord[i] <= at + long
    <2>1. \A i \in all : coord[i] = q.points[i][axis] /\ coord[i] \in Int
      BY <1>3
    <2> HIDE DEF coord
    <2> QED
      BY <2>1
  <1>5. PICK low \in Int : low = at - long
    OBVIOUS
  <1>6. PICK high \in Int : high = at + long
    OBVIOUS
  <1>7. PICK f \in [all -> Int] : f = coord
    BY <1>3
  <1>8. \A i \in all : low <= f[i] /\ f[i] <= high
    BY <1>4, <1>5, <1>6, <1>7
  <1>9. /\ Layers!SumFunction(f) \in Int
        /\ Cardinality(all) * low <= Layers!SumFunction(f)
        /\ Layers!SumFunction(f) <= Cardinality(all) * high
    BY <1>2, <1>8, SumBetween
  <1>10. PICK c \in Int : c = CentreOf(q, axis) /\ n * low <= c /\ c <= n * high
    BY <1>2, <1>7, <1>9 DEF CentreOf
  <1>11. n * low = n * at - n * long /\ n * high = n * at + n * long
    BY <1>5, <1>6
  <1>12. PICK middle \in Int : middle = n * at
    OBVIOUS
  <1>13. PICK wide \in Int : wide = n * long
    OBVIOUS
  <1>14. middle - wide <= c /\ c <= middle + wide
    BY <1>10, <1>11, <1>12, <1>13
  <1>15. -wide <= middle - c /\ middle - c <= wide
    BY <1>14
  <1> QED
    BY <1>1, <1>10, <1>12, <1>13, <1>15

(* voronoi: from a place within the mirrors, in every direction one of     *)
(* them is to the right.                                                   *)
LEMMA OneIsToTheRight ==
    ASSUME NEW a \in Int, NEW b \in Int, ~(a = 0 /\ b = 0),
           NEW dx \in Int, NEW dy \in Int, NEW near \in Nat, NEW radius \in Int,
           -near <= dx, dx <= near, -near <= dy, dy <= near, 2 * near < radius
    PROVE  \/ b * dx - a * dy - b * radius < 0
           \/ b * dx - a * dy + b * radius < 0
           \/ b * dx - a * dy + a * radius < 0
           \/ b * dx - a * dy - a * radius < 0
  <1>1. ASSUME NEW m \in Nat, m > 0, -m <= a, a <= m, -m <= b, b <= m
        PROVE  b * dx - a * dy < m * radius
    <2>1. b * dx <= m * near /\ -(m * near) <= a * dy
      BY <1>1, ProductWithin
    <2>2. m * radius >= m * (2 * near + 1)
      <3>1. m * (radius - (2 * near + 1)) >= 0
        BY <1>1
      <3>2. m * (radius - (2 * near + 1)) = m * radius - m * (2 * near + 1)
        OBVIOUS
      <3>3. m * radius \in Int /\ m * (2 * near + 1) \in Int
        OBVIOUS
      <3> QED
        BY <3>1, <3>2, <3>3
    <2>3. m * (2 * near + 1) = 2 * (m * near) + m
      OBVIOUS
    <2>4. b * dx \in Int /\ a * dy \in Int /\ m * near \in Int /\ m * radius \in Int
      OBVIOUS
    <2> QED
      BY <1>1, <2>1, <2>2, <2>3, <2>4
  <1>2. \E m \in Nat : /\ m > 0 /\ -m <= a /\ a <= m /\ -m <= b /\ b <= m
                       /\ m \in {a, -a, b, -b}
    <2>1. CASE a >= b /\ a >= -b
      BY <2>1
    <2>2. CASE -a >= b /\ -a >= -b
      BY <2>2
    <2>3. CASE b >= a /\ b >= -a
      BY <2>3
    <2>4. CASE -b >= a /\ -b >= -a
      BY <2>4
    <2> QED
      BY <2>1, <2>2, <2>3, <2>4
  <1>3. PICK m \in Nat : /\ m > 0 /\ -m <= a /\ a <= m /\ -m <= b /\ b <= m
                         /\ m \in {a, -a, b, -b}
    BY <1>2
  <1>4. b * dx - a * dy < m * radius
    BY <1>1, <1>3
  <1>5. /\ (-a) * radius = -(a * radius) /\ (-b) * radius = -(b * radius)
        /\ a * radius \in Int /\ b * radius \in Int
        /\ b * dx \in Int /\ a * dy \in Int
    OBVIOUS
  <1>6. m * radius \in {a * radius, -(a * radius), b * radius, -(b * radius)}
    BY <1>3, <1>5
  <1> QED
    BY <1>4, <1>5, <1>6

(* voronoi: the request, its points and their mirrors in numbers.          *)
DrawsCells(q) ==
    /\ q \in LayerRequests /\ q.tool = "voronoi"
    /\ Len(q.points) >= 3
    /\ Layers!ToSet(q.points) \subseteq Layers!ClipPoly(q)

LEMMA ClipIsInThePlane ==
    ASSUME NEW q, DrawsCells(q)
    PROVE  /\ q.points \in Seq(Int \X Int)
           /\ Layers!ClipPoly(q) \in SUBSET SmallPlane /\ Layers!ClipPoly(q) # {}
           /\ \A i \in DOMAIN q.points : q.points[i] \in Layers!ClipPoly(q)
           /\ \A at \in Layers!ClipPoly(q) : at \in Int \X Int
  <1>1. q.points \in Seq(Int \X Int) /\ UNION q.boundary \subseteq SmallPlane
    BY LayerAssumption DEF DrawsCells
  <1>2. Layers!ClipPoly(q) \in SUBSET SmallPlane
    BY <1>1 DEF Layers!ClipPoly, Layers!Box
  <1>3. \A i \in DOMAIN q.points : q.points[i] \in Layers!ClipPoly(q)
    BY DEF DrawsCells, Layers!ToSet
  <1>4. 1 \in DOMAIN q.points
    BY <1>1 DEF DrawsCells
  <1> QED
    BY <1>1, <1>2, <1>3, <1>4, LayerAssumption

\* n points, scaled about <<cx, cy>> and no further from it than near
Around(q, n, long, near, cx, cy) ==
    /\ n = Len(q.points) /\ n > 0
    /\ \A a, b \in Layers!ClipPoly(q) : a[1] - b[1] <= long /\ a[2] - b[2] <= long
    /\ near = n * long
    /\ \A at \in Layers!ClipPoly(q) :
           /\ -near <= n * at[1] - cx /\ n * at[1] - cx <= near
           /\ -near <= n * at[2] - cy /\ n * at[2] - cy <= near
    /\ Layers!Mirrors(q) = {<<cx + 3 * near, cy>>, <<cx - 3 * near, cy>>,
                            <<cx, cy + 3 * near>>, <<cx, cy - 3 * near>>}

LEMMA AboutTheCentre ==
    ASSUME NEW q, DrawsCells(q)
    PROVE  \E n \in Nat, long \in Nat, near \in Nat, cx \in Int, cy \in Int :
              Around(q, n, long, near, cx, cy)
  <1>1. /\ q.points \in Seq(Int \X Int)
        /\ \A i \in DOMAIN q.points : q.points[i] \in Layers!ClipPoly(q)
        /\ \A at \in Layers!ClipPoly(q) : at[1] \in Int /\ at[2] \in Int
    BY ClipIsInThePlane
  <1>2. PICK long \in Nat :
            /\ long = Layers!LongSide(q)
            /\ \A a, b \in Layers!ClipPoly(q) : a[1] - b[1] <= long /\ a[2] - b[2] <= long
    BY ClipIsInThePlane, LongSideBounds
  <1>3. PICK n \in Nat : n = Len(q.points)
    BY <1>1
  <1>4. n > 0
    BY <1>3 DEF DrawsCells
  <1>5. 1 \in DOMAIN q.points /\ q.points[1] \in Layers!ClipPoly(q)
    BY <1>1, <1>3, <1>4
  <1>6. ASSUME NEW axis \in {1, 2}, NEW at \in Layers!ClipPoly(q)
        PROVE  /\ CentreOf(q, axis) \in Int
               /\ -(n * long) <= n * at[axis] - CentreOf(q, axis)
               /\ n * at[axis] - CentreOf(q, axis) <= n * long
    <2>1. at[axis] \in Int
      BY <1>1
    <2>2. \A i \in DOMAIN q.points : /\ at[axis] - q.points[i][axis] <= long
                                     /\ q.points[i][axis] - at[axis] <= long
      BY <1>1, <1>2
    <2> QED
      BY <1>1, <1>3, <1>4, <2>1, <2>2, CentreIsNear
  <1>7. PICK cx \in Int : cx = CentreOf(q, 1)
    BY <1>5, <1>6
  <1>8. PICK cy \in Int : cy = CentreOf(q, 2)
    BY <1>5, <1>6
  <1>9. \A at \in Layers!ClipPoly(q) :
            /\ -(n * long) <= n * at[1] - cx /\ n * at[1] - cx <= n * long
            /\ -(n * long) <= n * at[2] - cy /\ n * at[2] - cy <= n * long
    BY <1>6, <1>7, <1>8
  <1>10. PICK near \in Nat : near = n * long
    OBVIOUS
  <1>11. n * (3 * long) = 3 * near
    BY <1>10
  <1>12. Layers!Mirrors(q) = {<<cx + 3 * near, cy>>, <<cx - 3 * near, cy>>,
                              <<cx, cy + 3 * near>>, <<cx, cy - 3 * near>>}
    <2>1. Layers!Mirrors(q) =
              {<<cx + n * (3 * long), cy>>, <<cx - n * (3 * long), cy>>,
               <<cx, cy + n * (3 * long)>>, <<cx, cy - n * (3 * long)>>}
      BY <1>2, <1>3, <1>7, <1>8 DEF Layers!Mirrors, Layers!MirrorsAt, CentreOf
    <2> QED
      BY <1>11, <2>1, Zenon
  <1>13. Around(q, n, long, near, cx, cy)
    BY <1>2, <1>3, <1>4, <1>9, <1>10, <1>12 DEF Around
  <1> QED
    BY <1>13

(* voronoi: no point is on the hull, so that every region has an end.      *)
LEMMA NoneIsInfinite ==
    ASSUME NEW q, DrawsCells(q), NEW i \in DOMAIN q.points
    PROVE  ~Layers!Infinite(Layers!AllCoords(q), Layers!Scaled(q, q.points[i]))
  <1>1. PICK n \in Nat, long \in Nat, near \in Nat, cx \in Int, cy \in Int :
            Around(q, n, long, near, cx, cy)
    BY AboutTheCentre
  <1>2. /\ \A j \in DOMAIN q.points : q.points[j] \in Layers!ClipPoly(q)
        /\ \A j \in DOMAIN q.points : q.points[j][1] \in Int /\ q.points[j][2] \in Int
    BY ClipIsInThePlane
  <1> DEFINE all == Layers!AllCoords(q)
             o == Layers!Scaled(q, q.points[i])
  <1>3. \A j \in DOMAIN q.points :
            Layers!Scaled(q, q.points[j]) = <<n * q.points[j][1], n * q.points[j][2]>>
    BY <1>1 DEF Layers!Scaled, Around
  <1>4. all = {Layers!Scaled(q, q.points[j]) : j \in DOMAIN q.points} \cup Layers!Mirrors(q)
    BY DEF Layers!AllCoords, Layers!ToSet
  <1>5. Layers!Mirrors(q) = {<<cx + 3 * near, cy>>, <<cx - 3 * near, cy>>,
                             <<cx, cy + 3 * near>>, <<cx, cy - 3 * near>>}
    BY <1>1 DEF Around
  <1>6. \A j \in DOMAIN q.points : \E x, y \in Int :
            /\ Layers!Scaled(q, q.points[j]) = <<x, y>>
            /\ -near <= x - cx /\ x - cx <= near /\ -near <= y - cy /\ y - cy <= near
    <2> SUFFICES ASSUME NEW j \in DOMAIN q.points
                 PROVE  \E x, y \in Int :
                           /\ Layers!Scaled(q, q.points[j]) = <<x, y>>
                           /\ -near <= x - cx /\ x - cx <= near
                           /\ -near <= y - cy /\ y - cy <= near
      OBVIOUS
    <2>1. PICK x \in Int : x = n * q.points[j][1]
      BY <1>2
    <2>2. PICK y \in Int : y = n * q.points[j][2]
      BY <1>2
    <2>3. -near <= x - cx /\ x - cx <= near /\ -near <= y - cy /\ y - cy <= near
      BY <1>1, <1>2, <2>1, <2>2 DEF Around
    <2> QED
      BY <1>3, <2>1, <2>2, <2>3
  <1>7. PICK ox \in Int, oy \in Int :
            /\ o = <<ox, oy>>
            /\ -near <= ox - cx /\ ox - cx <= near /\ -near <= oy - cy /\ oy - cy <= near
    BY <1>6
  <1>8. \A p \in Layers!Mirrors(q) : \E x, y \in Int : p = <<x, y>>
    BY <1>5
  <1>9. \A p \in all : \E x, y \in Int : p = <<x, y>>
    BY <1>4, <1>6, <1>8
  <1>10. CASE near = 0
    <2>1. \A j \in DOMAIN q.points : Layers!Scaled(q, q.points[j]) = <<cx, cy>>
      BY <1>6, <1>10
    <2>2. \A p \in Layers!Mirrors(q) : p = <<cx, cy>>
      BY <1>5, <1>10
    <2>3. \A p \in all : p = <<cx, cy>>
      BY <1>4, <2>1, <2>2
    <2>4. all \ {o} = {}
      BY <2>1, <2>3
    <2> QED
      BY <2>4 DEF Layers!Infinite
  <1>11. CASE near > 0
    <2> SUFFICES ASSUME NEW p \in all \ {o}
                 PROVE  \E r \in all : ~(Layers!Cross(o, p, r) >= 0)
      BY DEF Layers!Infinite
    <2>1. PICK px \in Int, py \in Int : p = <<px, py>>
      BY <1>9
    <2>2. PICK a \in Int : a = px - ox
      OBVIOUS
    <2>3. PICK b \in Int : b = py - oy
      OBVIOUS
    <2>4. ~(a = 0 /\ b = 0)
      BY <1>7, <2>1, <2>2, <2>3
    <2>5. PICK dx \in Int : dx = ox - cx
      OBVIOUS
    <2>6. PICK dy \in Int : dy = oy - cy
      OBVIOUS
    <2> DEFINE radius == 3 * near
    <2>7. \/ b * dx - a * dy - b * radius < 0
          \/ b * dx - a * dy + b * radius < 0
          \/ b * dx - a * dy + a * radius < 0
          \/ b * dx - a * dy - a * radius < 0
      BY <1>7, <1>11, <2>4, <2>5, <2>6, OneIsToTheRight
    <2>8. \A rx, ry \in Int : Layers!Cross(o, p, <<rx, ry>>) = a * (ry - oy) - b * (rx - ox)
      BY <1>7, <2>1, <2>2, <2>3 DEF Layers!Cross
    <2>9. /\ <<cx + radius, cy>> \in all /\ <<cx - radius, cy>> \in all
          /\ <<cx, cy + radius>> \in all /\ <<cx, cy - radius>> \in all
      BY <1>4, <1>5
    <2>10. /\ a * (cy - oy) - b * (cx + radius - ox) = b * dx - a * dy - b * radius
           /\ a * (cy - oy) - b * (cx - radius - ox) = b * dx - a * dy + b * radius
           /\ a * (cy + radius - oy) - b * (cx - ox) = b * dx - a * dy + a * radius
           /\ a * (cy - radius - oy) - b * (cx - ox) = b * dx - a * dy - a * radius
      BY <2>5, <2>6
    <2>11. /\ Layers!Cross(o, p, <<cx + radius, cy>>) = b * dx - a * dy - b * radius
           /\ Layers!Cross(o, p, <<cx - radius, cy>>) = b * dx - a * dy + b * radius
           /\ Layers!Cross(o, p, <<cx, cy + radius>>) = b * dx - a * dy + a * radius
           /\ Layers!Cross(o, p, <<cx, cy - radius>>) = b * dx - a * dy - a * radius
      BY <2>8, <2>10
    <2>12. /\ b * dx \in Int /\ a * dy \in Int /\ b * radius \in Int /\ a * radius \in Int
      OBVIOUS
    <2> QED
      BY <2>7, <2>9, <2>11, <2>12
  <1> QED
    BY <1>10, <1>11

(* voronoi: within what is clipped to, the mirrors are further away.       *)
LEMMA MirrorsAreFurther ==
    ASSUME NEW q, DrawsCells(q), NEW at \in Layers!ClipPoly(q), NEW i \in DOMAIN q.points,
           NEW m \in Layers!Mirrors(q)
    PROVE  Layers!SquaredDistance(Layers!Scaled(q, at), Layers!Scaled(q, q.points[i]))
               <= Layers!SquaredDistance(Layers!Scaled(q, at), m)
  <1>1. PICK n \in Nat, long \in Nat, near \in Nat, cx \in Int, cy \in Int :
            Around(q, n, long, near, cx, cy)
    BY AboutTheCentre
  <1>2. /\ at[1] \in Int /\ at[2] \in Int
        /\ q.points[i] \in Layers!ClipPoly(q)
        /\ q.points[i][1] \in Int /\ q.points[i][2] \in Int
    BY ClipIsInThePlane
  <1>3. PICK x \in Int : x = n * at[1]
    BY <1>2
  <1>4. PICK y \in Int : y = n * at[2]
    BY <1>2
  <1>5. PICK u \in Int : u = n * q.points[i][1]
    BY <1>2
  <1>6. PICK v \in Int : v = n * q.points[i][2]
    BY <1>2
  <1>7. Layers!Scaled(q, at) = <<x, y>> /\ Layers!Scaled(q, q.points[i]) = <<u, v>>
    BY <1>1, <1>3, <1>4, <1>5, <1>6 DEF Layers!Scaled, Around
  <1>8. -near <= x - cx /\ x - cx <= near /\ -near <= y - cy /\ y - cy <= near
    BY <1>1, <1>3, <1>4 DEF Around
  <1>9. -near <= x - u /\ x - u <= near /\ -near <= y - v /\ y - v <= near
    <2>1. ASSUME NEW a \in Int, NEW b \in Int, a - b <= long
          PROVE  n * a - n * b <= near
      <3>1. n * (long - (a - b)) >= 0
        BY <2>1
      <3>2. n * (long - (a - b)) = n * long - (n * a - n * b)
        OBVIOUS
      <3>3. near = n * long
        BY <1>1 DEF Around
      <3>4. n * long \in Int /\ n * a \in Int /\ n * b \in Int
        OBVIOUS
      <3> QED
        BY <3>1, <3>2, <3>3, <3>4
    <2>2. \A a, b \in Layers!ClipPoly(q) : a[1] - b[1] <= long /\ a[2] - b[2] <= long
      BY <1>1 DEF Around
    <2>3. x - u <= near /\ u - x <= near
      BY <1>2, <1>3, <1>5, <2>1, <2>2
    <2>4. y - v <= near /\ v - y <= near
      BY <1>2, <1>4, <1>6, <2>1, <2>2
    <2> QED
      BY <2>3, <2>4
  <1>10. PICK square \in Int : square = near * near
    OBVIOUS
  <1>11. (x - u) * (x - u) + (y - v) * (y - v) <= 2 * square
    <2>1. (x - u) * (x - u) <= near * near
      BY <1>9, ProductWithin
    <2>2. (y - v) * (y - v) <= near * near
      BY <1>9, ProductWithin
    <2> QED
      BY <1>10, <2>1, <2>2
  <1>12. m \in {<<cx + 3 * near, cy>>, <<cx - 3 * near, cy>>,
                <<cx, cy + 3 * near>>, <<cx, cy - 3 * near>>}
    BY <1>1 DEF Around
  <1>13. PICK mx \in Int, my \in Int :
             /\ m = <<mx, my>>
             /\ \/ x - mx >= 2 * near \/ x - mx <= -(2 * near)
                \/ y - my >= 2 * near \/ y - my <= -(2 * near)
    <2>1. CASE m = <<cx + 3 * near, cy>>
      BY <1>8, <2>1
    <2>2. CASE m = <<cx - 3 * near, cy>>
      BY <1>8, <2>2
    <2>3. CASE m = <<cx, cy + 3 * near>>
      BY <1>8, <2>3
    <2>4. CASE m = <<cx, cy - 3 * near>>
      BY <1>8, <2>4
    <2> QED
      BY <1>12, <2>1, <2>2, <2>3, <2>4
  <1>14. (x - mx) * (x - mx) + (y - my) * (y - my) >= 4 * square
    <2>1. (x - mx) * (x - mx) >= 0 /\ (y - my) * (y - my) >= 0
      OBVIOUS
    <2>2. (x - mx) * (x - mx) \in Int /\ (y - my) * (y - my) \in Int
      OBVIOUS
    <2>3. CASE x - mx >= 2 * near \/ x - mx <= -(2 * near)
      <3>1. (x - mx) * (x - mx) >= 4 * (near * near)
        BY <2>3, SquareBeyond
      <3> QED
        BY <1>10, <2>1, <2>2, <3>1
    <2>4. CASE y - my >= 2 * near \/ y - my <= -(2 * near)
      <3>1. (y - my) * (y - my) >= 4 * (near * near)
        BY <2>4, SquareBeyond
      <3> QED
        BY <1>10, <2>1, <2>2, <3>1
    <2> QED
      BY <1>13, <2>3, <2>4
  <1>15. square >= 0
    BY <1>10
  <1>16. /\ Layers!SquaredDistance(<<x, y>>, <<u, v>>) = (x - u) * (x - u) + (y - v) * (y - v)
         /\ Layers!SquaredDistance(<<x, y>>, <<mx, my>>)
                = (x - mx) * (x - mx) + (y - my) * (y - my)
    BY DEF Layers!SquaredDistance
  <1>17. PICK d \in Int : d = (x - u) * (x - u) + (y - v) * (y - v)
    OBVIOUS
  <1>18. PICK e \in Int : e = (x - mx) * (x - mx) + (y - my) * (y - my)
    OBVIOUS
  <1>19. d <= e
    BY <1>11, <1>14, <1>15, <1>17, <1>18
  <1> QED
    BY <1>7, <1>13, <1>16, <1>17, <1>18, <1>19

LEMMA ScaledAlike ==
    ASSUME NEW q, DrawsCells(q), NEW at \in Layers!ClipPoly(q),
           NEW o \in Layers!ClipPoly(q), NEW p \in Layers!ClipPoly(q)
    PROVE  Layers!SquaredDistance(Layers!Scaled(q, at), Layers!Scaled(q, o))
               <= Layers!SquaredDistance(Layers!Scaled(q, at), Layers!Scaled(q, p))
           <=> Layers!SquaredDistance(at, o) <= Layers!SquaredDistance(at, p)
  <1>1. PICK n \in Nat, long \in Nat, near \in Nat, cx \in Int, cy \in Int :
            Around(q, n, long, near, cx, cy)
    BY AboutTheCentre
  <1>2. n = Len(q.points) /\ n > 0
    BY <1>1 DEF Around
  <1>3. PICK s \in Nat : s = n * n
    OBVIOUS
  <1>4. s > 0
    BY <1>2, <1>3
  <1>5. ASSUME NEW b \in Layers!ClipPoly(q)
        PROVE  /\ Layers!SquaredDistance(at, b) \in Int
               /\ Layers!SquaredDistance(Layers!Scaled(q, at), Layers!Scaled(q, b))
                      = s * Layers!SquaredDistance(at, b)
    <2>1. PICK x \in Int : x = at[1] - b[1]
      BY ClipIsInThePlane
    <2>2. PICK y \in Int : y = at[2] - b[2]
      BY ClipIsInThePlane
    <2>3. Layers!SquaredDistance(at, b) = x * x + y * y
      BY <2>1, <2>2 DEF Layers!SquaredDistance
    <2>4. n * at[1] - n * b[1] = n * x /\ n * at[2] - n * b[2] = n * y
      <3>1. at[1] \in Int /\ at[2] \in Int /\ b[1] \in Int /\ b[2] \in Int
        BY ClipIsInThePlane
      <3> QED
        BY <2>1, <2>2, <3>1
    <2>5. Layers!SquaredDistance(Layers!Scaled(q, at), Layers!Scaled(q, b))
              = (n * x) * (n * x) + (n * y) * (n * y)
      BY <1>2, <2>4 DEF Layers!SquaredDistance, Layers!Scaled
    <2>6. (n * x) * (n * x) + (n * y) * (n * y) = s * (x * x + y * y)
      BY <1>3
    <2> QED
      BY <2>3, <2>5, <2>6
  <1>6. PICK d \in Int : d = Layers!SquaredDistance(at, o)
    BY <1>5
  <1>7. PICK e \in Int : e = Layers!SquaredDistance(at, p)
    BY <1>5
  <1>8. s * d <= s * e <=> d <= e
    BY <1>4
  <1> QED
    BY <1>5, <1>6, <1>7, <1>8

LEMMA CellsAreOfTheNearest ==
    ASSUME NEW q, DrawsCells(q), NEW at \in Layers!ClipPoly(q), NEW i \in DOMAIN q.points
    PROVE  at \in Layers!Voronoi(q).rows[i]
           <=> \A p \in Layers!ToSet(q.points) :
                   Layers!SquaredDistance(at, q.points[i]) <= Layers!SquaredDistance(at, p)
  <1> DEFINE all == Layers!AllCoords(q)
             o == Layers!Scaled(q, q.points[i])
             points == Layers!ToSet(q.points)
             clip_poly == Layers!ClipPoly(q)
             clipped == Layers!Region(q, all, o) \cap clip_poly
  <1>1. /\ clip_poly \in SUBSET SmallPlane
        /\ q.points[i] \in clip_poly
        /\ points \subseteq clip_poly
    BY ClipIsInThePlane DEF DrawsCells
  <1>2. Layers!Voronoi(q).rows[i] = Layers!Polygon(q, all, clip_poly, o)
    BY DEF Layers!Voronoi, Layers!Saved, DrawsCells
  <1>3. ~Layers!Infinite(all, o)
    BY NoneIsInfinite
  <1>4. ASSUME NEW place \in clip_poly
        PROVE  place \in clipped
               <=> \A p \in points :
                       Layers!SquaredDistance(place, q.points[i])
                           <= Layers!SquaredDistance(place, p)
    <2> DEFINE Near(c) == Layers!SquaredDistance(Layers!Scaled(q, place), o)
                              <= Layers!SquaredDistance(Layers!Scaled(q, place), c)
    <2>1. place \in clipped <=> \A c \in all : Near(c)
      BY <1>1 DEF Layers!Region
    <2>2. \A c \in Layers!Mirrors(q) : Near(c)
      BY MirrorsAreFurther
    <2>3. all = {Layers!Scaled(q, p) : p \in points} \cup Layers!Mirrors(q)
      BY DEF Layers!AllCoords
    <2>4. \A p \in points :
              Near(Layers!Scaled(q, p))
              <=> Layers!SquaredDistance(place, q.points[i]) <= Layers!SquaredDistance(place, p)
      BY <1>1, ScaledAlike
    <2> HIDE DEF Near, clipped, all, points
    <2> QED
      BY <2>1, <2>2, <2>3, <2>4
  <1>5. q.points[i] \in clipped
    <2>1. \A p \in clip_poly : p[1] \in Int /\ p[2] \in Int
      BY ClipIsInThePlane
    <2>2. ASSUME NEW p \in points
          PROVE  Layers!SquaredDistance(q.points[i], q.points[i])
                     <= Layers!SquaredDistance(q.points[i], p)
      <3>1. PICK x \in Int : x = q.points[i][1] - p[1]
        BY <1>1, <2>1
      <3>2. PICK y \in Int : y = q.points[i][2] - p[2]
        BY <1>1, <2>1
      <3>3. Layers!SquaredDistance(q.points[i], p) = x * x + y * y
        BY <3>1, <3>2 DEF Layers!SquaredDistance
      <3>4. Layers!SquaredDistance(q.points[i], q.points[i]) = 0
        BY <1>1, <2>1 DEF Layers!SquaredDistance
      <3>5. x * x >= 0 /\ y * y >= 0
        OBVIOUS
      <3> QED
        BY <3>3, <3>4, <3>5
    <2> QED
      BY <1>1, <1>4, <2>2
  <1>6. Layers!Voronoi(q).rows[i] = clipped
    BY <1>2, <1>3, <1>5 DEF Layers!Polygon
  <1> QED
    BY <1>4, <1>6

-----------------------------------------------------------------------------
(* LayerTools: an answer is what the tool makes of the request.            *)

LayersInv ==
    /\ layerRequest \in LayerRequests
    /\ \/ layerAnswer = Layers!Unanswered
       \/ /\ layerRequest.tool = "aggregate_by_region"
          /\ layerAnswer = Layers!AggregateByRegion(layerRequest)
       \/ /\ layerRequest.tool = "compare_layers"
          /\ layerAnswer = Layers!CompareLayers(layerRequest)
       \/ /\ layerRequest.tool = "cluster_points"
          /\ layerAnswer = Layers!ClusterPoints(layerRequest)
       \/ /\ layerRequest.tool = "voronoi"
          /\ layerAnswer = Layers!Voronoi(layerRequest)

LEMMA LayersInitially == Layers!Init => LayersInv
  BY DEF Layers!Init, LayersInv

LEMMA LayersInvariance == LayersInv /\ [Layers!Next]_layerVars => LayersInv'
  BY DEF LayersInv, Layers!Next, Layers!Answer, layerVars

LEMMA LayersPromised == LayersInv => Layers!EveryFeatureInItsPlace
  <1> SUFFICES ASSUME LayersInv, layerAnswer.is = "saved" PROVE Layers!EveryFeatureInItsPlace
    BY DEF Layers!EveryFeatureInItsPlace
  <1>1. layerRequest \in LayerRequests
    BY DEF LayersInv
  <1>2. layerAnswer # Layers!Unanswered
    BY DEF Layers!Unanswered
  <1>3. CASE /\ layerRequest.tool = "aggregate_by_region"
             /\ layerAnswer = Layers!AggregateByRegion(layerRequest)
    <2>1. \A r : Layers!Inside(r) = InsideOf(layerRequest, r)
      BY DEF Layers!Inside, InsideOf
    <2>2. \A S : Layers!Cardinality(S) = Cardinality(S)
      BY Zenon DEF Layers!Cardinality, Cardinality
    <2> SUFFICES ASSUME layerRequest.labelled = "regions",
                        \A r, s \in DOMAIN layerRequest.regions :
                            r # s => layerRequest.regions[r].label # layerRequest.regions[s].label,
                        NEW r \in DOMAIN layerRequest.regions
                 PROVE  LET row == layerAnswer.rows[r] IN
                        /\ row.feature_count =
                               (IF layerRequest.regions[r].label = {} THEN {}
                                ELSE Layers!Give(InsideOf(layerRequest, r) # {},
                                                 Cardinality(InsideOf(layerRequest, r))))
                        /\ (layerRequest.func = "max" /\ row.value # {}) =>
                               row.value \subseteq UNION {layerRequest.features[f].value :
                                                             f \in InsideOf(layerRequest, r)}
      BY <1>3, <2>1, <2>2 DEF Layers!EveryFeatureInItsPlace
    <2> QED
      BY <1>1, <1>3, RegionShowsItsOwn
  <1>4. CASE /\ layerRequest.tool = "compare_layers"
             /\ layerAnswer = Layers!CompareLayers(layerRequest)
    BY <1>4, ComparedIsBoth DEF Layers!EveryFeatureInItsPlace
  <1>5. CASE /\ layerRequest.tool = "cluster_points"
             /\ layerAnswer = Layers!ClusterPoints(layerRequest)
    <2>1. layerRequest.labels \in Seq(Int)
      BY <1>1, <1>5, LayerAssumption
    <2>2. \A S : Layers!Cardinality(S) = Cardinality(S)
      BY Zenon DEF Layers!Cardinality, Cardinality
    <2>3. Layers!SumFunction([hull \in layerAnswer.rows |-> hull.point_count])
              = Cardinality({i \in DOMAIN layerRequest.labels :
                                 layerRequest.labels[i] # Layers!Noise})
      BY <1>5, <2>1, EachIsCounted
    <2> QED
      BY <1>5, <2>2, <2>3 DEF Layers!EveryFeatureInItsPlace
  <1>6. CASE layerRequest.tool = "voronoi" /\ layerAnswer = Layers!Voronoi(layerRequest)
    <2> DEFINE points == Layers!ToSet(layerRequest.points)
               Nearest(at) == {p \in points :
                   \A r \in points :
                       Layers!SquaredDistance(at, p) <= Layers!SquaredDistance(at, r)}
    <2> SUFFICES ASSUME points \subseteq Layers!ClipPoly(layerRequest),
                        NEW at \in Layers!ClipPoly(layerRequest)
                 PROVE  {i \in DOMAIN layerRequest.points : at \in layerAnswer.rows[i]}
                            = {i \in DOMAIN layerRequest.points :
                                   layerRequest.points[i] \in Nearest(at)}
      BY <1>6 DEF Layers!EveryFeatureInItsPlace
    <2>1. Len(layerRequest.points) >= 3
      <3>1. layerRequest.points \in Seq(Int \X Int)
        BY <1>1, <1>6, LayerAssumption
      <3>2. ~(Len(layerRequest.points) < 3)
        BY <1>6 DEF Layers!Voronoi, Layers!Refused
      <3> QED
        BY <3>1, <3>2
    <2>2. DrawsCells(layerRequest)
      BY <1>1, <1>6, <2>1 DEF DrawsCells
    <2>3. \A i \in DOMAIN layerRequest.points :
              at \in layerAnswer.rows[i]
              <=> \A p \in points : Layers!SquaredDistance(at, layerRequest.points[i])
                                        <= Layers!SquaredDistance(at, p)
      BY <1>6, <2>2, CellsAreOfTheNearest
    <2>4. \A i \in DOMAIN layerRequest.points : layerRequest.points[i] \in points
      BY DEF Layers!ToSet
    <2> HIDE DEF points
    <2> QED
      BY <2>3, <2>4
  <1> QED
    BY <1>2, <1>3, <1>4, <1>5, <1>6 DEF LayersInv

-----------------------------------------------------------------------------
(* SiteTools: what is put in order is all there, one after the other.      *)
Orders(before, set) ==
    /\ \A x \in set : <<x, x>> \notin before
    /\ \A x, y \in set : x # y => <<x, y>> \in before \/ <<y, x>> \in before
    /\ \A x, y, z \in set : <<x, y>> \in before /\ <<y, z>> \in before => <<x, z>> \in before

LEMMA InOrderHolds ==
    ASSUME NEW set, IsFiniteSet(set), NEW before, Orders(before, set)
    PROVE  LET s == Sites!InOrder(set, before) IN
           /\ Cardinality(set) \in Nat
           /\ s \in [1 .. Cardinality(set) -> set]
           /\ \A i, j \in 1 .. Cardinality(set) : i < j => <<s[i], s[j]>> \in before
           /\ \A x \in set : \E i \in 1 .. Cardinality(set) : s[i] = x
  <1> DEFINE n == Cardinality(set)
             Below(x) == {y \in set : <<y, x>> \in before}
             size == [x \in set |-> Cardinality(Below(x))]
             s == Sites!InOrder(set, before)
  <1>1. n \in Nat
    BY FS_CardinalityType
  <1>2. \A x \in set : Below(x) \in SUBSET set /\ size[x] = Cardinality(Below(x))
    OBVIOUS
  <1> HIDE DEF size, Below
  <1>3. size \in [set -> 0 .. n - 1]
    <2>1. ASSUME NEW x \in set PROVE size[x] \in 0 .. n - 1
      <3>1. Below(x) \in SUBSET (set \ {x})
        BY <1>2 DEF Orders, Below
      <3>2. IsFiniteSet(set \ {x}) /\ Cardinality(set \ {x}) = n - 1
        BY FS_RemoveElement
      <3>3. IsFiniteSet(Below(x)) /\ Cardinality(Below(x)) <= n - 1
        BY <3>1, <3>2, FS_Subset
      <3>4. Cardinality(Below(x)) \in Nat
        BY <3>3, FS_CardinalityType
      <3> QED
        BY <1>1, <1>2, <3>3, <3>4
    <2> QED
      BY <2>1 DEF size
  <1>4. ASSUME NEW x \in set, NEW y \in set, <<x, y>> \in before
        PROVE  size[x] < size[y]
    <2>1. Below(x) \in SUBSET (Below(y) \ {x}) /\ x \in Below(y)
      BY <1>4 DEF Orders, Below
    <2>2. IsFiniteSet(Below(y))
      BY <1>2, FS_Subset
    <2>3. /\ IsFiniteSet(Below(y) \ {x})
          /\ Cardinality(Below(y) \ {x}) = Cardinality(Below(y)) - 1
      BY <2>1, <2>2, FS_RemoveElement
    <2>4. Cardinality(Below(x)) <= Cardinality(Below(y) \ {x})
      BY <2>1, <2>3, FS_Subset
    <2>5. size[x] <= size[y] - 1
      BY <1>2, <2>3, <2>4
    <2> QED
      BY <1>1, <1>3, <2>5
  <1>5. ASSUME NEW x \in set, NEW y \in set, size[x] = size[y] PROVE x = y
    <2> SUFFICES ASSUME x # y PROVE FALSE
      OBVIOUS
    <2>1. <<x, y>> \in before \/ <<y, x>> \in before
      BY DEF Orders
    <2>2. size[x] < size[y] \/ size[y] < size[x]
      BY <1>4, <2>1
    <2> QED
      BY <1>1, <1>3, <1>5, <2>2
  <1>6. size \in Surjection(set, 0 .. n - 1)
    <2>1. size \in Injection(set, 0 .. n - 1)
      BY <1>3, <1>5 DEF Injection, IsInjective
    <2>2. IsFiniteSet(0 .. n - 1) /\ Cardinality(0 .. n - 1) = n
      BY <1>1, FS_Interval
    <2> QED
      BY <2>1, <2>2, FS_Injection
  <1>7. \A i \in 1 .. n : i - 1 \in 0 .. n - 1
    BY <1>1
  <1>8. \A i \in 1 .. n : \E x \in set : size[x] = i - 1
    BY <1>6, <1>7 DEF Surjection
  <1>9. s = [i \in 1 .. n |-> CHOOSE x \in set : size[x] = i - 1]
    <2>1. s = [i \in 1 .. n |-> CHOOSE x \in set : Cardinality(Below(x)) = i - 1]
      BY Zenon DEF Sites!InOrder, Sites!Cardinality, Cardinality, Below
    <2>2. \A i \in 1 .. n : (CHOOSE x \in set : Cardinality(Below(x)) = i - 1)
                             = CHOOSE x \in set : size[x] = i - 1
      BY <1>2
    <2> QED
      BY <2>1, <2>2
  <1> HIDE DEF s
  <1>10. \A i \in 1 .. n : s[i] \in set /\ size[s[i]] = i - 1
    BY <1>8, <1>9
  <1>11. s \in [1 .. n -> set]
    BY <1>9, <1>10
  <1>12. ASSUME NEW i \in 1 .. n, NEW j \in 1 .. n, i < j
         PROVE  <<s[i], s[j]>> \in before
    <2>1. /\ s[i] \in set /\ size[s[i]] = i - 1
          /\ s[j] \in set /\ size[s[j]] = j - 1
      BY <1>10
    <2>2. s[i] # s[j]
      BY <1>1, <1>12, <2>1
    <2>3. ASSUME <<s[j], s[i]>> \in before PROVE FALSE
      <3>1. size[s[j]] < size[s[i]]
        BY <1>4, <2>1, <2>3
      <3> QED
        BY <1>1, <1>12, <2>1, <3>1
    <2> QED
      BY <2>1, <2>2, <2>3 DEF Orders
  <1>13. ASSUME NEW x \in set PROVE \E i \in 1 .. n : s[i] = x
    <2>1. size[x] \in 0 .. n - 1
      BY <1>3
    <2>2. PICK i \in 1 .. n : i = size[x] + 1
      <3>1. size[x] + 1 \in 1 .. n
        BY <1>1, <2>1
      <3> QED
        BY <3>1
    <2>3. s[i] = x
      BY <1>1, <1>5, <1>10, <2>1, <2>2
    <2> QED
      BY <2>3
  <1> QED
    BY <1>1, <1>11, <1>12, <1>13 DEF s

LEMMA AscendingHolds ==
    ASSUME NEW set \in SUBSET Int, IsFiniteSet(set)
    PROVE  LET s == Sites!Ascending(set) IN
           /\ Cardinality(set) \in Nat
           /\ s \in [1 .. Cardinality(set) -> set]
           /\ \A x \in set : \E i \in 1 .. Cardinality(set) : s[i] = x
  <1> DEFINE before == {p \in set \X set : p[1] < p[2]}
             n == Cardinality(set)
             s == Sites!Ascending(set)
  <1>1. \A x, y \in set : <<x, y>> \in before <=> x < y
    OBVIOUS
  <1>2. s = Sites!InOrder(set, before)
    BY Zenon DEF Sites!Ascending
  <1> HIDE DEF before, s
  <1>3. Orders(before, set)
    BY <1>1 DEF Orders
  <1>4. /\ n \in Nat /\ s \in [1 .. n -> set]
        /\ \A x \in set : \E i \in 1 .. n : s[i] = x
    BY <1>2, <1>3, InOrderHolds
  <1> QED
    BY <1>4 DEF s

LEMMA DescendingHolds ==
    ASSUME NEW set \in SUBSET Int, IsFiniteSet(set)
    PROVE  LET s == Sites!Descending(set) IN
           /\ Cardinality(set) \in Nat
           /\ s \in [1 .. Cardinality(set) -> set]
           /\ \A i, j \in 1 .. Cardinality(set) : s[i] = s[j] => i = j
           /\ \A x \in set : \E i \in 1 .. Cardinality(set) : s[i] = x
  <1> DEFINE before == {p \in set \X set : p[1] > p[2]}
             n == Cardinality(set)
             s == Sites!Descending(set)
  <1>1. \A x, y \in set : <<x, y>> \in before <=> x > y
    OBVIOUS
  <1>2. s = Sites!InOrder(set, before)
    BY Zenon DEF Sites!Descending
  <1> HIDE DEF before, s
  <1>3. Orders(before, set)
    BY <1>1 DEF Orders
  <1>4. /\ n \in Nat /\ s \in [1 .. n -> set]
        /\ \A i, j \in 1 .. n : i < j => <<s[i], s[j]>> \in before
        /\ \A x \in set : \E i \in 1 .. n : s[i] = x
    BY <1>2, <1>3, InOrderHolds
  <1> HIDE DEF n
  <1>5. ASSUME NEW i \in 1 .. n, NEW j \in 1 .. n, s[i] = s[j] PROVE i = j
    <2>1. s[i] \in set /\ s[j] \in set /\ s[i] \in Int /\ s[j] \in Int
      BY <1>4
    <2>2. ~ (s[i] > s[j]) /\ ~ (s[j] > s[i])
      BY <1>5, <2>1
    <2>3. ~ (i < j) /\ ~ (j < i)
      BY <1>1, <1>4, <2>1, <2>2
    <2> QED
      BY <1>4, <2>3
  <1> QED
    BY <1>4, <1>5 DEF n, s

(* The batch that asks for the k-th of n places is one that fails.         *)
LostOf(n, down, k) ==
    \E start \in Sites!Starts(n) \cap down : start < k /\ k <= start + MAX_LOCATIONS

(* Batches do not overlap: a place is asked for in one of them.            *)
LEMMA StartIsOne ==
    ASSUME NEW a \in Nat, NEW b \in Nat, NEW m \in Nat, NEW i \in Nat,
           a * m < i, i <= a * m + m, b * m < i, i <= b * m + m
    PROVE  a = b
  <1>1. \A p, q \in Nat : p < q => p * m + m <= q * m
    <2> SUFFICES ASSUME NEW p \in Nat, NEW q \in Nat, p < q PROVE p * m + m <= q * m
      OBVIOUS
    <2>1. PICK d \in Nat : q = p + 1 + d
      <3>1. q - p - 1 \in Nat /\ q = p + 1 + (q - p - 1)
        OBVIOUS
      <3> QED
        BY <3>1
    <2>2. q * m = p * m + m + d * m /\ d * m \in Nat /\ p * m \in Nat
      BY <2>1
    <2> QED
      BY <2>2
  <1>2. a * m \in Nat /\ b * m \in Nat
    OBVIOUS
  <1>3. ~ (a < b) /\ ~ (b < a)
    BY <1>1, <1>2
  <1> QED
    BY <1>3

LEMMA BatchedHolds ==
    ASSUME NEW asked, IsSequence(asked), NEW down, MAX_LOCATIONS \in Nat \ {0}
    PROVE  LET got == Sites!Batched(asked, down) IN
           /\ DOMAIN got = DOMAIN asked
           /\ \A i \in DOMAIN asked :
                  got[i] = IF LostOf(Len(asked), down, i) THEN {} ELSE asked[i]
  <1> DEFINE n == Len(asked)
             got == Sites!Batched(asked, down)
             Asked(i) == {p \in (Sites!Starts(n) \ down) \X (1 .. MAX_LOCATIONS) :
                             p[1] + p[2] <= n /\ Sites!Slot(p[1], p[2]) = i}
  <1>1. n \in Nat /\ DOMAIN asked = 1 .. n
    BY DEF IsSequence
  <1>2. got = [i \in DOMAIN asked |-> UNION {asked[p[1] + p[2]] : p \in Asked(i)}]
    BY Zenon DEF Sites!Batched
  <1>3. \A i \in DOMAIN asked : \A p \in Asked(i) : p[1] + p[2] = i
    BY DEF Sites!Slot
  <1>4. ASSUME NEW i \in DOMAIN asked, ~LostOf(n, down, i) PROVE \E p \in Asked(i) : TRUE
    <2> DEFINE upTo == {k \in Nat : i <= k * MAX_LOCATIONS + MAX_LOCATIONS}
    <2>1. i - 1 \in upTo
      <3>1. i - 1 \in Nat /\ i - 1 <= (i - 1) * MAX_LOCATIONS
        BY <1>1
      <3>2. (i - 1) * MAX_LOCATIONS \in Int
        BY <3>1
      <3> QED
        BY <1>1, <3>1, <3>2
    <2>2. PICK k \in upTo : \A other \in upTo : k <= other
      BY <2>1, LeastOf
    <2> DEFINE start == k * MAX_LOCATIONS
    <2>3. start \in Nat /\ k \in Nat /\ i <= start + MAX_LOCATIONS /\ k <= i - 1
      <3>1. k \in Nat /\ i <= start + MAX_LOCATIONS /\ k <= i - 1
        BY <2>1, <2>2
      <3> QED
        BY <3>1
    <2>4. start < i
      <3>1. CASE k = 0
        BY <1>1, <3>1
      <3>2. CASE k # 0
        <4>1. k - 1 \in Nat /\ k - 1 \notin upTo
          BY <2>2, <2>3, <3>2
        <4>2. (k - 1) * MAX_LOCATIONS + MAX_LOCATIONS = start
          BY <2>3
        <4> QED
          BY <1>1, <2>3, <4>1, <4>2
      <3> QED
        BY <3>1, <3>2
    <2>5. start \in Sites!Starts(n)
      <3>1. k \in 0 .. n - 1 /\ start \in 0 .. n - 1
        BY <1>1, <2>3, <2>4
      <3> QED
        BY <3>1 DEF Sites!Starts
    <2> HIDE DEF start
    <2>6. i - start \in 1 .. MAX_LOCATIONS /\ start + (i - start) = i /\ i <= n
      BY <1>1, <2>3, <2>4
    <2>7. start \notin down
      <3>1. start < i /\ i <= start + MAX_LOCATIONS
        BY <2>3, <2>4
      <3> QED
        BY <1>4, <2>5, <3>1 DEF LostOf
    <2>8. <<start, i - start>> \in Asked(i)
      BY <2>5, <2>6, <2>7 DEF Sites!Slot
    <2> QED
      BY <2>8
  <1>5. ASSUME NEW i \in DOMAIN asked, LostOf(n, down, i) PROVE Asked(i) = {}
    <2> SUFFICES ASSUME NEW p \in Asked(i) PROVE FALSE
      OBVIOUS
    <2>1. PICK start \in Sites!Starts(n) \cap down : start < i /\ i <= start + MAX_LOCATIONS
      BY <1>5 DEF LostOf
    <2>2. /\ p[1] \in Sites!Starts(n) /\ p[1] \notin down
          /\ p[2] \in 1 .. MAX_LOCATIONS /\ p[1] + p[2] = i
      BY <1>3
    <2> DEFINE Times == {k * MAX_LOCATIONS : k \in Nat}
    <2>8. \A first \in Sites!Starts(n) : first \in Times
      <3>1. 0 .. n - 1 \subseteq Nat
        BY <1>1
      <3> HIDE DEF n
      <3> QED
        BY <3>1 DEF Sites!Starts
    <2>3. PICK a \in Nat : start = a * MAX_LOCATIONS
      BY <2>1, <2>8
    <2>4. PICK b \in Nat : p[1] = b * MAX_LOCATIONS
      BY <2>2, <2>8
    <2>5. a * MAX_LOCATIONS \in Nat /\ b * MAX_LOCATIONS \in Nat
      OBVIOUS
    <2>6. b * MAX_LOCATIONS < i /\ i <= b * MAX_LOCATIONS + MAX_LOCATIONS
      BY <2>2, <2>4, <2>5
    <2>7. a = b
      BY <1>1, <2>1, <2>3, <2>6, StartIsOne
    <2> QED
      BY <2>1, <2>2, <2>3, <2>4, <2>7
  <1> HIDE DEF Asked
  <1>6. DOMAIN got = DOMAIN asked
    BY <1>2
  <1>7. ASSUME NEW i \in DOMAIN asked, LostOf(n, down, i) PROVE got[i] = {}
    BY <1>2, <1>5, <1>7
  <1>8. ASSUME NEW i \in DOMAIN asked, ~LostOf(n, down, i) PROVE got[i] = asked[i]
    <2>1. PICK p \in Asked(i) : TRUE
      BY <1>4, <1>8
    <2> QED
      BY <1>2, <1>3, <2>1
  <1> QED
    BY <1>6, <1>7, <1>8

LEMMA HeldIsIt == \A x : Sites!Held({x}) = x
  BY DEF Sites!Held

LEMMA SavedIs ==
    ASSUME NEW rows, NEW noted
    PROVE  /\ ~Sites!Refused.saved /\ ~Sites!Unanswered.saved
           /\ Sites!Saved(rows, noted).rows = rows
           /\ Sites!Saved(rows, noted).noted = noted
  BY DEF Sites!Refused, Sites!Unanswered, Sites!Saved, Sites!SavedBut

(* The fields of an answer that leaves some out                            *)
LEMMA SavedButIs ==
    ASSUME NEW rows, NEW noted, NEW failed
    PROVE  /\ Sites!SavedBut(rows, noted, failed).rows = rows
           /\ Sites!SavedBut(rows, noted, failed).noted = noted
           /\ Sites!SavedBut(rows, noted, failed).failed = failed
  BY DEF Sites!SavedBut

LEMMA SequenceBy ==
    ASSUME NEW s, NEW n \in Nat, s = [i \in 1 .. n |-> s[i]]
    PROVE  IsSequence(s)
  BY DEF IsSequence

LEMMA IndicesAreFinite ==
    ASSUME NEW s, IsSequence(s), NEW S, S \subseteq DOMAIN s
    PROVE  S \in SUBSET Int /\ IsFiniteSet(S)
  <1>1. Len(s) \in Nat /\ DOMAIN s = 1 .. Len(s)
    BY DEF IsSequence
  <1>2. IsFiniteSet(DOMAIN s)
    BY <1>1, FS_Interval
  <1> QED
    BY <1>1, <1>2, FS_Subset

(* batch_geocode: each row is of a line whose address was found.           *)
LEMMA GeocodedOwn ==
    ASSUME request \in SiteRequests, request.tool = "batch_geocode",
           toolAnswer = Sites!BatchGeocode(request)
    PROVE  Sites!EveryFigureIsItsOwn
  <1> DEFINE IsOf(row, line) == row.of = line.label /\ row.figures.point = {line.address}
             lines == request.lines
             out == {i \in DOMAIN lines : lines[i].address \notin request.known}
  <1> SUFFICES ASSUME toolAnswer.saved, request.carries = "none"
               PROVE  /\ \A i \in DOMAIN toolAnswer.rows :
                             \E k \in DOMAIN lines \ out : IsOf(toolAnswer.rows[i], lines[k])
                      /\ \A k \in DOMAIN lines \ out :
                             \E i \in DOMAIN toolAnswer.rows : IsOf(toolAnswer.rows[i], lines[k])
                      /\ toolAnswer.failed = Cardinality(out)
                      /\ toolAnswer.noted \subseteq {lines[i].address : i \in out}
                      /\ \A i \in out : \/ lines[i].address \in toolAnswer.noted
                                        \/ MAX_NAMED <= Cardinality({j \in out : j < i})
    BY Zenon DEF Sites!EveryFigureIsItsOwn, Sites!Cardinality, Cardinality
  <1> DEFINE records == [i \in DOMAIN request.lines |-> Sites!RecordOf(request, request.lines[i])]
             asked == [i \in DOMAIN records |->
                          Sites!Give(records[i].address \in request.known, records[i].address)]
             hits == Sites!GeocodeBatch(asked, request.geocoder)
             got == Sites!Batched(asked, {})
             good == Sites!Ascending({i \in DOMAIN records : got[i] # {}})
             rows == [k \in DOMAIN good |-> Sites!Row(records[good[k]].label,
                                                      [point |-> got[good[k]]])]
             failed == {i \in DOMAIN records : got[i] = {}}
             noted == {records[i].address : i \in Sites!Firsts(MAX_NAMED, failed)}
             count == Cardinality(failed)
  <1>1. /\ MAX_LOCATIONS \in Nat \ {0}
        /\ IsSequence(request.lines)
    BY SiteAssumption
  <1>2. /\ DOMAIN records = DOMAIN request.lines
        /\ \A i \in DOMAIN request.lines : records[i] = request.lines[i]
    BY DEF Sites!RecordOf
  <1>3. IsSequence(asked) /\ DOMAIN asked = DOMAIN request.lines
    <2>1. Len(request.lines) \in Nat /\ DOMAIN request.lines = 1 .. Len(request.lines)
      BY <1>1 DEF IsSequence
    <2>2. DOMAIN asked = DOMAIN request.lines /\ asked = [i \in DOMAIN request.lines |-> asked[i]]
      BY <1>2
    <2> QED
      BY <2>1, <2>2, SequenceBy
  <1> HIDE DEF records
  <1>4. /\ DOMAIN got = DOMAIN request.lines
        /\ \A i \in DOMAIN request.lines : got[i] = asked[i]
    <2> HIDE DEF asked
    <2>1. \A i : ~LostOf(Len(asked), {}, i)
      BY DEF LostOf
    <2> QED
      BY <1>1, <1>3, <2>1, BatchedHolds
  <1>5. \A i \in DOMAIN request.lines :
            got[i] = IF request.lines[i].address \in request.known
                       THEN {request.lines[i].address} ELSE {}
    BY <1>2, <1>4 DEF Sites!Give
  <1>6. Sites!GeocodeBatch(asked, request.geocoder) \in {{}, {got}}
    BY DEF Sites!GeocodeBatch, Sites!Give
  <1> HIDE DEF asked
  <1>7. toolAnswer = Sites!Refused \/ toolAnswer = Sites!SavedBut(rows, noted, count)
    <2> DEFINE Answered(h) ==
                   LET all == Sites!Ascending({i \in DOMAIN records : h[i] # {}})
                       missed == {i \in DOMAIN records : h[i] = {}}
                   IN IF all = <<>> THEN Sites!Refused
                      ELSE Sites!SavedBut([k \in DOMAIN all |-> Sites!Row(records[all[k]].label,
                                                                         [point |-> h[all[k]]])],
                                          {records[i].address : i \in Sites!Firsts(MAX_NAMED, missed)},
                                          Cardinality(missed))
    <2>1. toolAnswer = IF records = <<>> \/ hits = {} THEN Sites!Refused
                       ELSE Answered(Sites!Held(hits))
      BY Zenon DEF Sites!BatchGeocode, records, asked, Sites!Cardinality, Cardinality
    <2>2. hits # {} => Sites!Held(hits) = got
      BY <1>6, HeldIsIt
    <2>3. Answered(got) \in {Sites!Refused, Sites!SavedBut(rows, noted, count)}
      <3>1. Answered(got) = IF good = <<>> THEN Sites!Refused
                            ELSE Sites!SavedBut(rows, noted, count)
        BY Zenon
      <3> HIDE DEF Answered, rows, noted, count, good
      <3> QED
        BY <3>1
    <2> HIDE DEF Answered, hits, got
    <2> QED
      BY <2>1, <2>2, <2>3
  <1>8. toolAnswer.rows = rows /\ toolAnswer.noted = noted /\ toolAnswer.failed = count
    <2> HIDE DEF rows, noted, count
    <2> QED
      BY <1>7, SavedIs, SavedButIs
  <1> HIDE DEF got
  <1>9. /\ \A i \in DOMAIN request.lines : got[i] = {} <=> i \in out
        /\ failed = out
    <2>1. \A i \in DOMAIN lines : got[i] = {} <=> i \in out
      BY <1>5
    <2>2. DOMAIN records = DOMAIN lines /\ out \subseteq DOMAIN lines
      BY <1>2
    <2> HIDE DEF out
    <2> QED
      BY <2>1, <2>2
  <1> DEFINE there == {i \in DOMAIN records : got[i] # {}}
             n == Cardinality(there)
  <1>10. /\ there \in SUBSET Int /\ IsFiniteSet(there)
         /\ there = DOMAIN lines \ out
    BY <1>1, <1>2, <1>9, IndicesAreFinite
  <1>11. /\ good \in [1 .. n -> there]
         /\ \A i \in there : \E k \in 1 .. n : good[k] = i
    <2> HIDE DEF there
    <2> QED
      BY <1>10, AscendingHolds DEF there
  <1> HIDE DEF good, n, there
  <1>12. ASSUME NEW k \in 1 .. n
         PROVE  k \in DOMAIN toolAnswer.rows /\ IsOf(toolAnswer.rows[k], lines[good[k]])
    <2>1. good[k] \in DOMAIN lines \ out
      BY <1>10, <1>11
    <2>2. k \in DOMAIN toolAnswer.rows
      BY <1>8, <1>11
    <2>3. /\ toolAnswer.rows[k].of = lines[good[k]].label
          /\ toolAnswer.rows[k].figures.point = got[good[k]]
      BY <1>2, <1>8, <1>11, <2>1 DEF Sites!Row
    <2> QED
      BY <1>5, <2>1, <2>2, <2>3
  <1>13. DOMAIN toolAnswer.rows = 1 .. n
    BY <1>8, <1>11
  <1>14. \A i \in DOMAIN toolAnswer.rows :
             \E k \in DOMAIN lines \ out : IsOf(toolAnswer.rows[i], lines[k])
    BY <1>10, <1>11, <1>12, <1>13
  <1>15. \A k \in DOMAIN lines \ out :
             \E i \in DOMAIN toolAnswer.rows : IsOf(toolAnswer.rows[i], lines[k])
    BY <1>10, <1>11, <1>12
  <1>16. noted = {lines[i].address : i \in Sites!Firsts(MAX_NAMED, out)}
    <2> DEFINE named == Sites!Firsts(MAX_NAMED, out)
    <2> SUFFICES noted = {lines[i].address : i \in named}
      OBVIOUS
    <2>1. noted = {records[i].address : i \in named}
      BY <1>9
    <2>2. \A i \in named : records[i] = lines[i]
      BY <1>2 DEF Sites!Firsts
    <2> HIDE DEF named, noted
    <2>3. {records[i].address : i \in named} = {lines[i].address : i \in named}
      BY <2>2
    <2> QED
      BY <2>1, <2>3
  <1>17. toolAnswer.noted \subseteq {lines[i].address : i \in out}
    <2> DEFINE named == Sites!Firsts(MAX_NAMED, out)
    <2>1. \A i \in named : i \in out
      BY DEF Sites!Firsts
    <2>2. toolAnswer.noted = {lines[i].address : i \in named}
      BY <1>8, <1>16, Zenon
    <2> HIDE DEF named, out
    <2> QED
      BY <2>1, <2>2
  <1>18. ASSUME NEW i \in out
         PROVE  \/ lines[i].address \in toolAnswer.noted
                \/ MAX_NAMED <= Cardinality({j \in out : j < i})
    <2> DEFINE before == {j \in out : j < i}
    <2>1. IsFiniteSet(out)
      BY <1>1, IndicesAreFinite
    <2>2. Cardinality(before) \in Nat /\ MAX_NAMED \in Nat
      <3>1. before \subseteq out
        OBVIOUS
      <3> HIDE DEF before, out
      <3> QED
        BY <2>1, <3>1, FS_Subset, FS_CardinalityType, SiteAssumption
    <2>3. CASE Cardinality(before) < MAX_NAMED
      <3>1. i \in Sites!Firsts(MAX_NAMED, out)
        BY <2>3, Zenon DEF Sites!Firsts, Sites!Cardinality, Cardinality
      <3> HIDE DEF out, noted
      <3> QED
        BY <1>8, <1>16, <3>1
    <2>4. CASE ~ (Cardinality(before) < MAX_NAMED)
      <3> HIDE DEF before
      <3>1. MAX_NAMED <= Cardinality(before)
        BY <2>2, <2>4
      <3> QED
        BY <3>1 DEF before
    <2> QED
      BY <2>3, <2>4
  <1>19. toolAnswer.failed = Cardinality(out)
    BY <1>8, <1>9
  <1> QED
    BY <1>14, <1>15, <1>17, <1>18, <1>19

(* calculate_isochrones: each band once, and all of one engine.            *)
LEMMA BandsHold ==
    ASSUME NEW times \in SUBSET Int, IsFiniteSet(times), NEW engine
    PROVE  LET bands == Sites!Bands(times, engine) IN
           /\ Sites!IsInjective(bands)
           /\ \A i \in DOMAIN bands : bands[i].figures.engine = {engine}
           /\ \A i \in DOMAIN bands : \E t \in times : bands[i].figures.minutes = {t}
           /\ \A t \in times : \E i \in DOMAIN bands : bands[i].figures.minutes = {t}
           /\ bands = <<>> => times = {}
  <1> DEFINE drawn == Sites!Descending(times)
             bands == Sites!Bands(times, engine)
             n == Cardinality(times)
  <1>1. /\ n \in Nat
        /\ drawn \in [1 .. n -> times]
        /\ \A i, j \in 1 .. n : drawn[i] = drawn[j] => i = j
        /\ \A t \in times : \E i \in 1 .. n : drawn[i] = t
    BY DescendingHolds
  <1>2. bands = [k \in DOMAIN drawn |-> Sites!Band(drawn[k], engine)]
    BY DEF Sites!Bands
  <1> HIDE DEF drawn, n, bands
  <1>3. /\ DOMAIN bands = 1 .. n
        /\ \A i \in 1 .. n : /\ bands[i].figures.engine = {engine}
                             /\ bands[i].figures.minutes = {drawn[i]}
    BY <1>1, <1>2 DEF Sites!Band, Sites!Row
  <1>4. Sites!IsInjective(bands)
    <2>1. \A i, j \in 1 .. n : bands[i] = bands[j] => drawn[i] = drawn[j]
      <3> SUFFICES ASSUME NEW i \in 1 .. n, NEW j \in 1 .. n, bands[i] = bands[j]
                   PROVE  drawn[i] = drawn[j]
        OBVIOUS
      <3>1. {drawn[i]} = {drawn[j]}
        BY <1>3
      <3> QED
        BY <3>1
    <2> QED
      BY <1>1, <1>3, <2>1 DEF Sites!IsInjective
  <1>5. bands = <<>> => times = {}
    <2> SUFFICES ASSUME bands = <<>>, NEW t \in times PROVE FALSE
      OBVIOUS
    <2>1. DOMAIN bands = {}
      OBVIOUS
    <2> QED
      BY <1>1, <1>3, <2>1
  <1> QED
    BY <1>1, <1>3, <1>4, <1>5 DEF bands

LEMMA IsochronesOwn ==
    ASSUME request \in SiteRequests, request.tool = "calculate_isochrones",
           toolAnswer = Sites!CalculateIsochrones(request)
    PROVE  Sites!EveryFigureIsItsOwn
  <1> DEFINE site == request.sites[1]
             engines == UNION {toolAnswer.rows[i].figures.engine : i \in DOMAIN toolAnswer.rows}
             drawn == UNION {toolAnswer.rows[i].figures.minutes : i \in DOMAIN toolAnswer.rows}
  <1> SUFFICES ASSUME toolAnswer.saved
               PROVE  /\ Sites!IsInjective(toolAnswer.rows)
                      /\ \/ /\ engines = {"itinera"}
                            /\ \A t \in drawn : site.itinera[t] = "ring"
                         \/ /\ engines = {"roads"}
                            /\ drawn = {t \in request.times : site.roads[t] = "ring"}
    BY DEF Sites!EveryFigureIsItsOwn
  <1> DEFINE reached == {t \in request.times :
                             \A s \in request.times : s >= t => site.itinera[s] # "error"}
             asked == {t \in reached : site.itinera[t] = "ring"}
             along == {t \in request.times : site.roads[t] = "ring"}
             bands == Sites!IsochronePolygons(request, site)
  <1>1. request.times \in SUBSET Int /\ IsFiniteSet(request.times)
    BY SiteAssumption
  <1>2. /\ asked \in SUBSET Int /\ IsFiniteSet(asked)
        /\ along \in SUBSET Int /\ IsFiniteSet(along)
    BY <1>1, FS_Subset
  <1>3. bands \in {{}, {Sites!Bands(asked, "itinera")}, {Sites!Bands(along, "roads")}}
    <2>1. Sites!ItineraPolygons(request, site) \in {{}, {Sites!Bands(asked, "itinera")}}
      BY DEF Sites!ItineraPolygons, Sites!Give
    <2>2. Sites!RoadPolygons(request, site) \in {{}, {Sites!Bands(along, "roads")}}
      BY DEF Sites!RoadPolygons, Sites!Give
    <2> QED
      BY <2>1, <2>2 DEF Sites!IsochronePolygons
  <1>4. toolAnswer = Sites!Refused \/ (~(bands \subseteq {<<>>}) /\ toolAnswer = Sites!Saved(Sites!Held(bands), {}))
    BY DEF Sites!CalculateIsochrones
  <1> HIDE DEF bands
  <1>5. PICK times \in {asked, along}, engine \in {"itinera", "roads"} :
            /\ \/ times = asked /\ engine = "itinera"
               \/ times = along /\ engine = "roads"
            /\ toolAnswer.rows = Sites!Bands(times, engine)
            /\ toolAnswer.rows # <<>>
    <2>1. ~(bands \subseteq {<<>>}) /\ toolAnswer.rows = Sites!Held(bands)
      BY <1>4, SavedIs
    <2>2. \A b : bands = {b} => b # <<>> /\ toolAnswer.rows = b
      BY <2>1, HeldIsIt
    <2>3. bands # {}
      BY <2>1
    <2> QED
      BY <1>3, <2>2, <2>3
  <1> DEFINE rows == toolAnswer.rows
  <1> HIDE DEF asked, along
  <1>6. /\ Sites!IsInjective(rows)
        /\ \A i \in DOMAIN rows : rows[i].figures.engine = {engine}
        /\ \A i \in DOMAIN rows : \E t \in times : rows[i].figures.minutes = {t}
        /\ \A t \in times : \E i \in DOMAIN rows : rows[i].figures.minutes = {t}
    <2>1. times \in SUBSET Int /\ IsFiniteSet(times)
      BY <1>2, <1>5
    <2> DEFINE bs == Sites!Bands(times, engine)
    <2>2. /\ Sites!IsInjective(bs)
          /\ \A i \in DOMAIN bs : bs[i].figures.engine = {engine}
          /\ \A i \in DOMAIN bs : \E t \in times : bs[i].figures.minutes = {t}
          /\ \A t \in times : \E i \in DOMAIN bs : bs[i].figures.minutes = {t}
      BY <2>1, BandsHold, Zenon
    <2>3. rows = bs
      BY <1>5
    <2> HIDE DEF bs, rows
    <2> QED
      BY <2>2, <2>3
  <1>7. times # {} 
    <2> SUFFICES ASSUME times = {} PROVE FALSE
      OBVIOUS
    <2>1. DOMAIN Sites!Descending({}) = {}
      <3>1. {} \in SUBSET Int /\ IsFiniteSet({}) /\ Cardinality({}) = 0
        BY FS_EmptySet
      <3>2. Sites!Descending({}) \in [1 .. 0 -> {}]
        BY <3>1, DescendingHolds
      <3> QED
        BY <3>2
    <2>2. DOMAIN rows = {} /\ rows = [k \in {} |-> Sites!Band(Sites!Descending({})[k], engine)]
      BY <1>5, <2>1 DEF Sites!Bands
    <2>3. rows = <<>>
      BY <2>2
    <2> QED
      BY <1>5, <2>3
  <1>8. drawn = times
    <2>1. \A t : t \in drawn <=> \E i \in DOMAIN rows : t \in rows[i].figures.minutes
      OBVIOUS
    <2> HIDE DEF drawn
    <2>2. \A t : t \in drawn <=> t \in times
      <3> TAKE t
      <3>1. t \in drawn => t \in times
        BY <1>6, <2>1
      <3>2. t \in times => t \in drawn
        BY <1>6, <2>1
      <3> QED
        BY <3>1, <3>2
    <2> QED
      BY <2>2
  <1>9. engines = {engine}
    BY <1>6, <1>7
  <1> HIDE DEF drawn, engines
  <1>10. \A t \in asked : site.itinera[t] = "ring"
    BY DEF asked
  <1> QED
    BY <1>5, <1>6, <1>8, <1>9, <1>10 DEF along

(* resolve_sites gives sites that were asked for, and leaves none of those *)
(* out that there are, unless it gives none.                               *)
LEMMA ResolvedSites ==
    ASSUME NEW q, IsSequence(q.sites)
    PROVE  LET sites == Sites!ResolveSites(q) IN
           /\ IsSequence(sites)
           /\ \A i \in DOMAIN sites : sites[i] \in Sites!ToSet(q.sites)
           /\ sites # <<>> => \A s \in Sites!ToSet(q.sites) : s.found => s \in Sites!ToSet(sites)
  <1> DEFINE sites == Sites!ResolveSites(q)
             found == {i \in DOMAIN q.sites : q.sites[i].found}
             read == Sites!Ascending(found)
             n == Cardinality(found)
  <1>1. sites \in {q.sites, <<>>, [k \in DOMAIN read |-> q.sites[read[k]]]}
    <2> DEFINE named == Sites!Ascending({i \in DOMAIN q.sites : ~q.sites[i].pair})
               hits == Sites!GeocodeBatch([k \in DOMAIN named |->
                                              Sites!Give(q.sites[named[k]].found,
                                                         q.sites[named[k]].name)],
                                          q.geocoder)
               Kept == [k \in DOMAIN read |-> q.sites[read[k]]]
    <2>1. sites = CASE q.given = {"names"} ->
                         IF hits # {} /\ {} \notin Sites!ToSet(Sites!Held(hits)) THEN q.sites ELSE <<>>
                    [] q.given = {"layer"} /\ q.column # "absent" -> Kept
                    [] OTHER -> <<>>
      BY Zenon DEF Sites!ResolveSites
    <2> HIDE DEF hits, Kept, sites
    <2>2. sites \in {q.sites, <<>>, Kept}
      <3>1. CASE q.given = {"names"}
        <4>1. q.given # {"layer"}
          BY <3>1
        <4>2. sites = IF hits # {} /\ {} \notin Sites!ToSet(Sites!Held(hits)) THEN q.sites ELSE <<>>
          BY <2>1, <3>1, <4>1
        <4> QED
          BY <4>2
      <3>2. CASE q.given # {"names"} /\ q.given = {"layer"} /\ q.column # "absent"
        BY <2>1, <3>2
      <3>3. CASE q.given # {"names"} /\ ~(q.given = {"layer"} /\ q.column # "absent")
        BY <2>1, <3>3
      <3> QED
        BY <3>1, <3>2, <3>3
    <2> QED
      BY <2>2 DEF Kept
  <1> HIDE DEF sites
  <1>2. found \in SUBSET Int /\ IsFiniteSet(found)
    BY IndicesAreFinite
  <1>3. /\ n \in Nat /\ read \in [1 .. n -> found]
        /\ \A i \in found : \E k \in 1 .. n : read[k] = i
    BY <1>2, AscendingHolds
  <1> HIDE DEF read, n
  <1>4. CASE sites = q.sites
    BY <1>4 DEF sites, Sites!ToSet
  <1>5. CASE sites = <<>>
    <2>1. IsSequence(<<>>) /\ DOMAIN sites = {}
      BY <1>5 DEF IsSequence
    <2> QED
      BY <1>5, <2>1 DEF sites
  <1>6. CASE sites = [k \in DOMAIN read |-> q.sites[read[k]]]
    <2>1. /\ DOMAIN sites = 1 .. n
          /\ \A k \in 1 .. n : sites[k] = q.sites[read[k]] /\ read[k] \in found
      BY <1>3, <1>6
    <2>2. IsSequence(sites)
      BY <1>3, <1>6, <2>1, SequenceBy
    <2>3. \A k \in 1 .. n : sites[k] \in Sites!ToSet(q.sites)
      BY <2>1 DEF Sites!ToSet
    <2>4. ASSUME NEW s \in Sites!ToSet(q.sites), s.found PROVE s \in Sites!ToSet(sites)
      <3>1. PICK i \in DOMAIN q.sites : s = q.sites[i]
        BY DEF Sites!ToSet
      <3>2. PICK k \in 1 .. n : read[k] = i
        BY <1>3, <2>4, <3>1
      <3>3. s = sites[k]
        BY <2>1, <3>1, <3>2
      <3> QED
        BY <2>1, <3>3 DEF Sites!ToSet
    <2> QED
      BY <2>1, <2>2, <2>3, <2>4 DEF sites
  <1> QED
    BY <1>1, <1>4, <1>5, <1>6

(* trade_area: every site is in a row or named, and a row is of its site.  *)
LEMMA TradedOwn ==
    ASSUME request \in SiteRequests, request.tool = "trade_area",
           toolAnswer = Sites!TradeArea(request)
    PROVE  Sites!EveryFigureIsItsOwn
  <1> DEFINE IsOf(row, s) ==
                 /\ s.name = row.of
                 /\ row.figures.population = IF request.raster = "there" THEN {s.people} ELSE s.worldpop
                 /\ row.figures.anchors \subseteq {s.anchors}
                 /\ row.figures.anchors # {} => request.osm
                 /\ row.figures.competitors \subseteq {s.rivals}
                 /\ request.competitors = "category" /\ ~request.osm => row.figures.competitors = {}
                 /\ row.figures.demographics = Sites!DemographicFigures(request, s)
  <1> SUFFICES ASSUME toolAnswer.saved
               PROVE  /\ \A s \in Sites!ToSet(request.sites) :
                             s.pair \/ s.found =>
                                 s.name \in toolAnswer.noted
                                            \cup {toolAnswer.rows[i].of : i \in DOMAIN toolAnswer.rows}
                      /\ \A i \in DOMAIN toolAnswer.rows :
                             \E s \in Sites!ToSet(request.sites) : IsOf(toolAnswer.rows[i], s)
    BY DEF Sites!EveryFigureIsItsOwn
  <1> DEFINE sites == Sites!ResolveSites(request)
             bands == [i \in DOMAIN sites |-> Sites!IsochronePolygons(request, sites[i])]
             drawn == {i \in DOMAIN sites : bands[i] # {<<>>}}
             kept == Sites!Ascending(drawn)
             n == Cardinality(drawn)
             BandOf(k) == Sites!Held(bands[kept[k]])[1]
             rows == [k \in DOMAIN kept |-> Sites!TradeRow(request, sites[kept[k]], BandOf(k))]
             noted == {sites[i].name : i \in {j \in DOMAIN sites : bands[j] = {<<>>}}}
  <1>1. /\ IsSequence(request.sites)
        /\ \A i \in DOMAIN request.sites : request.sites[i].pair => request.sites[i].found
    BY SiteAssumption
  <1>2. \A s \in Sites!ToSet(request.sites) : s.pair => s.found
    BY <1>1 DEF Sites!ToSet
  <1>3. /\ IsSequence(sites)
        /\ \A i \in DOMAIN sites : sites[i] \in Sites!ToSet(request.sites)
        /\ sites # <<>> => \A s \in Sites!ToSet(request.sites) : s.found => s \in Sites!ToSet(sites)
    BY <1>1, ResolvedSites
  <1>4. toolAnswer = Sites!Saved(rows, noted) /\ kept # <<>>
    <2>1. toolAnswer = Sites!TradeRows(request, sites, bands)
      <3>1. toolAnswer \in {Sites!Refused, Sites!TradeRows(request, sites, bands)}
        BY Zenon DEF Sites!TradeArea, Sites!TradeSites
      <3> QED
        BY <3>1, SavedIs
    <2>2. toolAnswer = IF {} \in Sites!ToSet(bands) \/ kept = <<>> THEN Sites!Refused
                       ELSE Sites!Saved(rows, noted)
      BY <2>1, Zenon DEF Sites!TradeRows
    <2> HIDE DEF bands, kept, rows, noted
    <2> QED
      BY <2>2, SavedIs
  <1>5. toolAnswer.rows = rows /\ toolAnswer.noted = noted
    <2> HIDE DEF rows, noted
    <2> QED
      BY <1>4, SavedIs
  <1> HIDE DEF bands, sites, BandOf
  <1>6. drawn \in SUBSET Int /\ IsFiniteSet(drawn)
    BY <1>3, IndicesAreFinite
  <1>7. /\ n \in Nat /\ kept \in [1 .. n -> drawn]
        /\ \A i \in drawn : \E k \in 1 .. n : kept[k] = i
    BY <1>6, AscendingHolds
  <1> HIDE DEF kept, n
  <1>8. sites # <<>>
    <2> SUFFICES ASSUME sites = <<>> PROVE FALSE
      OBVIOUS
    <2>1. drawn = {}
      OBVIOUS
    <2>2. kept = [k \in 1 .. n |-> kept[k]] /\ 1 .. n = {}
      BY <1>7, <2>1
    <2>3. kept = <<>>
      BY <2>2
    <2> QED
      BY <1>4, <2>3
  <1>9. /\ DOMAIN toolAnswer.rows = 1 .. n
        /\ \A k \in 1 .. n :
               /\ kept[k] \in DOMAIN sites
               /\ toolAnswer.rows[k] = Sites!TradeRow(request, sites[kept[k]], BandOf(k))
    BY <1>5, <1>7
  <1>10. ASSUME NEW s \in Sites!ToSet(request.sites), s.pair \/ s.found
         PROVE  s.name \in toolAnswer.noted
                           \cup {toolAnswer.rows[i].of : i \in DOMAIN toolAnswer.rows}
    <2>1. PICK i \in DOMAIN sites : s = sites[i]
      BY <1>2, <1>3, <1>8, <1>10 DEF Sites!ToSet
    <2>2. CASE bands[i] = {<<>>}
      BY <1>5, <2>1, <2>2
    <2>3. CASE bands[i] # {<<>>}
      <3>1. PICK k \in 1 .. n : kept[k] = i
        BY <1>7, <2>1, <2>3
      <3>2. toolAnswer.rows[k].of = s.name
        <4>1. PICK figures : toolAnswer.rows[k] = Sites!Row(s.name, figures)
          BY <1>9, <2>1, <3>1, Zenon DEF Sites!TradeRow
        <4> QED
          BY <4>1 DEF Sites!Row
      <3> QED
        BY <1>9, <3>2
    <2> QED
      BY <2>2, <2>3
  <1>11. ASSUME NEW k \in DOMAIN toolAnswer.rows
         PROVE  \E s \in Sites!ToSet(request.sites) : IsOf(toolAnswer.rows[k], s)
    <2> DEFINE s == sites[kept[k]]
               row == toolAnswer.rows[k]
    <2>1. s \in Sites!ToSet(request.sites)
      BY <1>3, <1>9
    <2>2. row = Sites!TradeRow(request, s, BandOf(k))
      BY <1>9
    <2> HIDE DEF s, row
    <2>3. /\ row.of = s.name
          /\ row.figures.population = Sites!PopulationInside(request, s)
          /\ row.figures.anchors = Sites!Give(request.osm /\ request.anchors = "known", s.anchors)
          /\ row.figures.competitors =
                 CASE request.competitors = "file" -> {s.rivals}
                   [] request.competitors = "category" -> Sites!Give(request.osm, s.rivals)
                   [] OTHER -> {}
          /\ row.figures.demographics = Sites!DemographicFigures(request, s)
      BY <2>2 DEF Sites!TradeRow, Sites!Row
    <2>4. /\ row.figures.competitors \subseteq {s.rivals}
          /\ request.competitors = "category" /\ ~request.osm => row.figures.competitors = {}
      <3>1. CASE request.competitors = "file"
        BY <2>3, <3>1
      <3>2. CASE request.competitors = "category"
        <4>1. row.figures.competitors = Sites!Give(request.osm, s.rivals)
          BY <2>3, <3>2
        <4> QED
          BY <4>1 DEF Sites!Give
      <3>3. CASE request.competitors \notin {"file", "category"}
        BY <2>3, <3>3
      <3> QED
        BY <3>1, <3>2, <3>3
    <2>5. /\ row.figures.anchors \subseteq {s.anchors}
          /\ row.figures.anchors # {} => request.osm
      BY <2>3 DEF Sites!Give
    <2>6. IsOf(row, s)
      BY <2>3, <2>4, <2>5 DEF Sites!PopulationInside
    <2> QED
      BY <2>1, <2>6 DEF row
  <1> QED
    BY <1>10, <1>11

(* round() gives a whole number, and no less for more.                     *)
LEMMA HalfToEvenHolds ==
    ASSUME NEW b \in Int, b > 0
    PROVE  /\ \A a \in Int : Sites!HalfToEven(a, b) \in Int
           /\ \A a, c \in Int : a <= c => Sites!HalfToEven(a, b) <= Sites!HalfToEven(c, b)
  <1> DEFINE Up(a) == LET twice == 2 * (a % b)
                      IN twice > b \/ (twice = b /\ (a \div b) % 2 = 1)
  <1>1. \A a \in Int : Sites!HalfToEven(a, b) = IF Up(a) THEN a \div b + 1 ELSE a \div b
    BY Zenon DEF Sites!HalfToEven
  <1>2. \A a \in Int : a \div b \in Int /\ a % b \in Int
    OBVIOUS
  <1>3. ASSUME NEW a \in Int, NEW c \in Int, a <= c
        PROVE  Sites!HalfToEven(a, b) <= Sites!HalfToEven(c, b)
    <2>1. a \div b <= c \div b
      BY <1>3
    <2>2. a \div b = c \div b => a % b <= c % b
      BY <1>3
    <2>3. PICK p, q, r, s \in Int : p = a \div b /\ q = c \div b /\ r = a % b /\ s = c % b
      BY <1>2
    <2>4. CASE p < q
      <3>1. p + 1 <= q
        BY <2>4
      <3> HIDE DEF Up
      <3>2. Sites!HalfToEven(a, b) <= p + 1 /\ q <= Sites!HalfToEven(c, b)
        BY <1>1, <2>3
      <3>3. Sites!HalfToEven(a, b) \in Int /\ Sites!HalfToEven(c, b) \in Int
        BY <1>1, <1>2
      <3> QED
        BY <3>1, <3>2, <3>3
    <2>5. CASE p = q
      <3>1. r <= s
        BY <2>2, <2>3, <2>5
      <3>2. Up(a) => Up(c)
        <4>1. Up(a) <=> (2 * r > b \/ (2 * r = b /\ p % 2 = 1))
          BY <2>3
        <4>2. Up(c) <=> (2 * s > b \/ (2 * s = b /\ p % 2 = 1))
          BY <2>3, <2>5
        <4> HIDE DEF Up
        <4> QED
          BY <3>1, <4>1, <4>2
      <3> HIDE DEF Up
      <3> QED
        BY <1>1, <2>3, <2>5, <3>2
    <2> QED
      BY <2>1, <2>3, <2>4, <2>5
  <1> HIDE DEF Up
  <1> QED
    BY <1>1, <1>2, <1>3

LEMMA RoundedHolds ==
    ASSUME NEW b \in Int
    PROVE  /\ b # 0 => \A a \in Int : Sites!Rounded(a, b) \in Int
           /\ b > 0 => \A a, c \in Int : a <= c => Sites!Rounded(a, b) <= Sites!Rounded(c, b)
  <1>1. b # 0 => \A a \in Int : Sites!Rounded(a, b) \in Int
    <2>1. CASE b > 0
      BY <2>1, HalfToEvenHolds DEF Sites!Rounded
    <2>2. CASE b < 0
      <3>1. -b \in Int /\ -b > 0 /\ ~(b > 0)
        BY <2>2
      <3>2. \A a \in Int : Sites!HalfToEven(a, -b) \in Int
        BY <3>1, HalfToEvenHolds
      <3>3. \A a \in Int : Sites!Rounded(a, b) = Sites!HalfToEven(-a, -b)
        BY <3>1 DEF Sites!Rounded
      <3>4. \A a \in Int : -a \in Int
        OBVIOUS
      <3> QED
        BY <3>2, <3>3, <3>4
    <2> QED
      BY <2>1, <2>2
  <1>2. b > 0 => \A a, c \in Int : a <= c => Sites!Rounded(a, b) <= Sites!Rounded(c, b)
    BY HalfToEvenHolds DEF Sites!Rounded
  <1> QED
    BY <1>1, <1>2

LEMMA SumsAgree == \A f : Sites!SumFunction(f) = Layers!SumFunction(f)
  BY Zenon DEF Sites!SumFunction, Sites!SumFunctionOnSet, Sites!FoldFunctionOnSet,
               Sites!MapThenFoldSet, Layers!SumFunction, Layers!SumFunctionOnSet,
               Layers!FoldFunctionOnSet, Layers!MapThenFoldSet

LEMMA SumIsWhole ==
    ASSUME NEW S, IsFiniteSet(S), NEW f \in [S -> Int]
    PROVE  Sites!SumFunction(f) \in Int
  <1>1. PICK g : Takes(g, S, f) /\ Layers!SumFunction(f) = g[S]
    BY SumTakes
  <1>2. g[S] \in Int
    BY <1>1 DEF Takes
  <1> QED
    BY <1>1, <1>2, SumsAgree

(* Scores of a criterion are whole numbers.                                *)
LEMMA NormScoresAreWhole ==
    ASSUME NEW n \in Nat, n > 0, NEW vals \in [1 .. n -> Int], NEW c
    PROVE  /\ Sites!NormScores(c, vals) \in [1 .. n -> Int]
           /\ \A i, j \in 1 .. n :
                  (IF Sites!Inverted(c) THEN vals[i] <= vals[j] ELSE vals[j] <= vals[i])
                      => Sites!NormScores(c, vals)[j] <= Sites!NormScores(c, vals)[i]
  <1> DEFINE there == Sites!ToSet(vals)
             least == Sites!Least(there)
             greatest == Sites!Greatest(there)
             norm == Sites!NormScores(c, vals)
  <1>1. there = {vals[i] : i \in 1 .. n}
    BY DEF Sites!ToSet
  <1>2. there \in SUBSET Int /\ there # {} /\ IsFiniteSet(there)
    <2>1. 1 \in 1 .. n
      OBVIOUS
    <2>2. IsFiniteSet(1 .. n)
      BY FS_Interval
    <2>3. vals \in Surjection(1 .. n, there)
      BY <1>1 DEF Surjection
    <2> QED
      BY <1>1, <2>1, <2>2, <2>3, FS_Surjection
  <1>3. HasEnds(there)
    BY <1>2, EndsOf
  <1>4. least \in there /\ \A v \in there : least <= v
    BY <1>3 DEF HasEnds, Sites!Least
  <1>5. greatest \in there /\ \A v \in there : v <= greatest
    BY <1>3 DEF HasEnds, Sites!Greatest
  <1> HIDE DEF least, greatest
  <1>6. /\ least \in Int /\ greatest \in Int
        /\ \A i \in 1 .. n : least <= vals[i] /\ vals[i] <= greatest
    BY <1>1, <1>2, <1>4, <1>5
  <1> DEFINE Above(i) == IF Sites!Inverted(c) THEN greatest - vals[i] ELSE vals[i] - least
  <1>7. norm = [i \in 1 .. n |-> IF least = greatest THEN 500
                                 ELSE Sites!Rounded(1000 * Above(i), greatest - least)]
    <2>1. DOMAIN vals = 1 .. n
      OBVIOUS
    <2> QED
      BY <2>1, Zenon DEF Sites!NormScores, Sites!Normalised, least, greatest
  <1> HIDE DEF norm
  <1>8. \A i \in 1 .. n : 1000 * Above(i) \in Int
    BY <1>6
  <1>9. CASE least = greatest
    BY <1>7, <1>9 DEF norm
  <1>10. CASE least # greatest
    <2>1. PICK width \in Int : width = greatest - least /\ width > 0
      <3>1. vals[1] \in Int /\ least <= vals[1] /\ vals[1] <= greatest
        BY <1>6
      <3>2. greatest - least \in Int /\ greatest - least > 0
        BY <1>6, <1>10, <3>1
      <3> QED
        BY <3>2
    <2>2. \A i \in 1 .. n : norm[i] = Sites!Rounded(1000 * Above(i), width)
      BY <1>7, <1>10, <2>1
    <2>3. /\ \A a \in Int : Sites!Rounded(a, width) \in Int
          /\ \A a, b \in Int : a <= b => Sites!Rounded(a, width) <= Sites!Rounded(b, width)
      <3>1. width # 0
        BY <2>1
      <3> QED
        BY <2>1, <3>1, RoundedHolds, Zenon
    <2>4. norm \in [1 .. n -> Int]
      <3> HIDE DEF Above
      <3>1. ASSUME NEW i \in 1 .. n PROVE norm[i] \in Int
        <4>1. norm[i] = Sites!Rounded(1000 * Above(i), width) /\ 1000 * Above(i) \in Int
          BY <1>8, <2>2
        <4> QED
          BY <2>3, <4>1
      <3> QED
        BY <1>7, <3>1
    <2>5. ASSUME NEW i \in 1 .. n, NEW j \in 1 .. n,
                 IF Sites!Inverted(c) THEN vals[i] <= vals[j] ELSE vals[j] <= vals[i]
          PROVE  norm[j] <= norm[i]
      <3>1. 1000 * Above(j) <= 1000 * Above(i)
        BY <1>6, <2>5
      <3> HIDE DEF Above
      <3> QED
        BY <1>8, <2>2, <2>3, <3>1
    <2> QED
      BY <2>4, <2>5 DEF norm
  <1> QED
    BY <1>9, <1>10

(* score_sites: a figure is the one of the site's own source, when it gave *)
(* one.                                                                    *)
Surveyed(s) ==
    /\ s.rivals \in Int /\ s.anchors \in Int
    /\ s.worldpop \subseteq Int /\ s.elevation \subseteq Int
    /\ \A a, b \in s.worldpop : a = b
    /\ \A a, b \in s.elevation : a = b

LEMMA RawScoreHolds ==
    ASSUME NEW sites, IsSequence(sites), NEW i \in DOMAIN sites, Surveyed(sites[i]), NEW c
    PROVE  /\ Sites!RawScore(request, sites, i, c) \in Int
           /\ Sites!Own(sites, i, c) = {} => Sites!RawScore(request, sites, i, c) = 0
           /\ Sites!Own(sites, i, c) # {}
                  => Sites!Own(sites, i, c) = {Sites!RawScore(request, sites, i, c)}
  <1> DEFINE s == sites[i]
             low == Sites!Elevations(request, sites)[i]
             given == IF c = "flood_risk" THEN low ELSE Sites!AskedAlone(request, s, c)
             raw == Sites!RawScore(request, sites, i, c)
             own == Sites!Own(sites, i, c)
             One(set) == set \subseteq Int /\ \A a, b \in set : a = b
  <1>1. raw = IF given = {} THEN 0 ELSE Sites!Held(given)
    BY Zenon DEF Sites!RawScore
  <1>2. low = IF Sites!Lost(Len(sites), i) THEN {} ELSE s.elevation
    <2> DEFINE asked == [j \in DOMAIN sites |-> sites[j].elevation]
    <2>1. Len(sites) \in Nat /\ DOMAIN sites = 1 .. Len(sites)
      BY DEF IsSequence
    <2>2. DOMAIN asked = DOMAIN sites /\ asked = [j \in DOMAIN sites |-> asked[j]]
      OBVIOUS
    <2>3. asked[i] = s.elevation
      OBVIOUS
    <2>4. low = Sites!Batched(asked, request.down)[i]
      BY Zenon DEF Sites!Elevations
    <2> HIDE DEF asked, low
    <2>5. IsSequence(asked)
      BY <2>1, <2>2, SequenceBy
    <2>6. Len(asked) = Len(sites)
      <3>1. Len(asked) \in Nat /\ 1 .. Len(asked) = 1 .. Len(sites)
        BY <2>1, <2>2, <2>5 DEF IsSequence
      <3> QED
        BY <2>1, <3>1
    <2>7. MAX_LOCATIONS \in Nat \ {0}
      BY SiteAssumption
    <2>8. low = IF LostOf(Len(sites), request.down, i) THEN {} ELSE s.elevation
      BY <2>2, <2>3, <2>4, <2>5, <2>6, <2>7, BatchedHolds
    <2>9. Sites!Lost(Len(sites), i) <=> LostOf(Len(sites), request.down, i)
      BY Zenon DEF Sites!Lost, LostOf
    <2> QED
      BY <2>8, <2>9
  <1> HIDE DEF low
  <1>3. /\ s.rivals \in Int /\ s.anchors \in Int
        /\ One(s.worldpop) /\ One(s.elevation) /\ One({s.rivals}) /\ One({s.anchors}) /\ One({})
    BY DEF Surveyed
  <1>4. given = own /\ One(given)
    <2>1. CASE c = "flood_risk"
      <3>1. given = low /\ own = {e \in s.elevation : ~Sites!Lost(Len(sites), i)}
        BY <2>1, Zenon DEF Sites!Own
      <3> HIDE DEF given, own, s
      <3> QED
        BY <1>2, <1>3, <3>1
    <2>2. CASE c # "flood_risk"
      <3>1. given = Sites!AskedAlone(request, s, c) /\ own = given
        BY <2>2, Zenon DEF Sites!Own
      <3> HIDE DEF given, own, s, One
      <3>2. One(Sites!AskedAlone(request, s, c))
        <4> DEFINE rivals == CASE request.competitors = "file" -> {s.rivals}
                               [] request.competitors = "category" -> Sites!Give(s.osm, s.rivals)
                               [] OTHER -> {}
        <4>1. \A v \in Int : One({v}) /\ \A given1 : One(Sites!Give(given1, v))
          BY DEF Sites!Give, One
        <4>2. CASE c = "population"
          BY <1>3, <4>2 DEF Sites!AskedAlone
        <4>3. CASE c = "competition"
          <5>1. Sites!AskedAlone(request, s, c) = rivals
            BY <4>3 DEF Sites!AskedAlone
          <5>2. CASE request.competitors = "file"
            BY <1>3, <5>1, <5>2
          <5>3. CASE request.competitors = "category"
            BY <1>3, <4>1, <5>1, <5>3
          <5>4. CASE request.competitors \notin {"file", "category"}
            BY <1>3, <5>1, <5>4
          <5> QED
            BY <5>2, <5>3, <5>4
        <4>4. CASE c \in {"amenities", "transport", "green_space"}
          BY <1>3, <4>1, <4>4 DEF Sites!AskedAlone
        <4>5. CASE c \notin {"population", "competition", "amenities", "transport", "green_space"}
          BY <1>3, <4>5 DEF Sites!AskedAlone
        <4> QED
          BY <4>2, <4>3, <4>4, <4>5
      <3> QED
        BY <3>1, <3>2
    <2> QED
      BY <2>1, <2>2
  <1> HIDE DEF given, own, s, raw
  <1>5. CASE given = {}
    BY <1>1, <1>4, <1>5 DEF own, raw
  <1>6. CASE given # {}
    <2>1. raw \in given
      BY <1>1, <1>6 DEF Sites!Held
    <2>2. raw \in Int /\ own = {raw}
      BY <1>4, <2>1
    <2> QED
      BY <2>2 DEF own, raw
  <1> QED
    BY <1>5, <1>6

LEMMA RawScoresHold ==
    ASSUME NEW sites, IsSequence(sites), NEW n \in Nat, DOMAIN sites = 1 .. n,
           \A i \in 1 .. n : Surveyed(sites[i]),
           IsSequence(request.criteria), Sites!IsInjective(request.criteria),
           NEW c \in Sites!ToSet(request.criteria)
    PROVE  /\ Sites!RawScores(request, sites, c) \in [1 .. n -> Int]
           /\ \A i \in 1 .. n : Sites!RawScores(request, sites, c)[i]
                                    = Sites!RawScore(request, sites, i, c)
  <1> DEFINE at == {k \in DOMAIN request.criteria : request.criteria[k] = c}
             raw == Sites!RawScores(request, sites, c)
  <1>1. Cardinality(at) = 1
    <2>1. PICK k \in DOMAIN request.criteria : request.criteria[k] = c
      BY DEF Sites!ToSet
    <2>2. at = {k}
      BY <2>1 DEF Sites!IsInjective
    <2> QED
      BY <2>2, FS_Singleton
  <1>2. raw = [p \in 1 .. Cardinality(at) * Len(sites) |->
                  Sites!RawScore(request, sites, (p - 1) \div Cardinality(at) + 1, c)]
    BY Zenon DEF Sites!RawScores, Sites!Cardinality, Cardinality
  <1> HIDE DEF at, raw
  <1>3. Len(sites) = n
    BY DEF IsSequence
  <1>4. raw = [p \in 1 .. 1 * n |-> Sites!RawScore(request, sites, (p - 1) \div 1 + 1, c)]
    BY <1>1, <1>2, <1>3
  <1>5. 1 * n = n /\ \A p \in 1 .. n : (p - 1) \div 1 + 1 = p
    OBVIOUS
  <1>6. raw = [p \in 1 .. n |-> Sites!RawScore(request, sites, p, c)]
    BY <1>4, <1>5
  <1>7. \A p \in 1 .. n : Sites!RawScore(request, sites, p, c) \in Int
    BY RawScoreHolds
  <1> QED
    BY <1>6, <1>7 DEF raw

(* score_sites: what is in a row, and the order of the rows.               *)
Normed(sites) == [c \in Sites!ToSet(request.criteria) |->
                     Sites!NormScores(c, Sites!RawScores(request, sites, c))]

Ranking(sites, n, ranked) ==
    /\ IsSequence(sites) /\ DOMAIN sites = 1 .. n /\ n > 0
    /\ \A i \in 1 .. n : sites[i] \in Sites!ToSet(request.sites) /\ Surveyed(sites[i])
    /\ IsSequence(request.criteria)
    /\ DOMAIN request.weights = DOMAIN request.criteria
    /\ request.weights \in Seq(Int)
    /\ Sites!SumFunction(request.weights) # 0
    /\ DOMAIN toolAnswer.rows = 1 .. n
    /\ \A k \in 1 .. n :
           toolAnswer.rows[k]
               = Sites!Row(sites[ranked[k]].name,
                           [c \in Sites!ToSet(request.criteria) |->
                               {Sites!RawScores(request, sites, c)[ranked[k]]}])
    /\ \A i \in 1 .. n : Sites!SiteTotal(request, Normed(sites), i) \in Int
    /\ \A i, j \in 1 .. n :
           i < j => Sites!SiteTotal(request, Normed(sites), ranked[j])
                        <= Sites!SiteTotal(request, Normed(sites), ranked[i])

LEMMA ScoredHolds ==
    ASSUME request \in SiteRequests, request.tool = "score_sites",
           toolAnswer = Sites!ScoreSites(request), toolAnswer.saved,
           Sites!IsInjective(request.criteria),
           NEW sites, sites = Sites!ResolveSites(request)
    PROVE  \E n \in Nat : \E ranked \in [1 .. n -> 1 .. n] : Ranking(sites, n, ranked)
  <1> DEFINE criteria == Sites!ToSet(request.criteria)
             raw == [c \in criteria |-> Sites!RawScores(request, sites, c)]
             norm == Normed(sites)
             totals == [i \in DOMAIN sites |-> Sites!SiteTotal(request, norm, i)]
             better == {p \in (DOMAIN sites) \X (DOMAIN sites) :
                           \/ totals[p[1]] > totals[p[2]]
                           \/ totals[p[1]] = totals[p[2]] /\ p[1] < p[2]}
             ranked == Sites!InOrder(DOMAIN sites, better)
             rows == [k \in DOMAIN ranked |->
                         Sites!Row(sites[ranked[k]].name, [c \in criteria |-> {raw[c][ranked[k]]}])]
             n == Len(sites)
  <1>1. /\ IsSequence(request.sites) /\ IsSequence(request.criteria)
        /\ request.weights \in Seq(Int)
        /\ \A s \in Sites!ToSet(request.sites) : Surveyed(s)
    BY SiteAssumption DEF Sites!ToSet, Surveyed
  <1>2. /\ IsSequence(sites)
        /\ \A i \in DOMAIN sites : sites[i] \in Sites!ToSet(request.sites)
    BY <1>1, ResolvedSites
  <1>3. n \in Nat /\ DOMAIN sites = 1 .. n
    BY <1>2 DEF IsSequence
  <1>4. ~Sites!ScoreRefused(request, sites) /\ toolAnswer = Sites!Saved(rows, {})
    <2>1. toolAnswer = IF Sites!ScoreRefused(request, sites) THEN Sites!Refused
                       ELSE Sites!Saved(rows, {})
      <3>1. norm = [c \in criteria |-> Sites!NormScores(c, raw[c])]
        BY DEF Normed
      <3> HIDE DEF norm
      <3>2. toolAnswer = IF Sites!ScoreRefused(request, sites) THEN Sites!Refused
                         ELSE Sites!Scored(request, sites, raw,
                                           [c \in criteria |-> Sites!NormScores(c, raw[c])])
        BY Zenon DEF Sites!ScoreSites, Sites!ScoreResolved, Sites!Compared
      <3>3. Sites!Scored(request, sites, raw, norm) = Sites!Saved(rows, {})
        BY Zenon DEF Sites!Scored, Sites!Ranked
      <3> HIDE DEF raw, rows
      <3> QED
        BY <3>1, <3>2, <3>3
    <2> HIDE DEF rows
    <2> QED
      BY <2>1, SavedIs
  <1>5. toolAnswer.rows = rows
    <2> HIDE DEF rows
    <2> QED
      BY <1>4, SavedIs
  <1>6. /\ n > 0 /\ Len(request.weights) = Len(request.criteria)
        /\ Sites!SumFunction(request.weights) # 0
    <2>1. /\ ~(Len(sites) < 2) /\ ~(Len(request.weights) # Len(request.criteria))
          /\ ~(Sites!SumFunction(request.weights) = 0)
      BY <1>4, Zenon DEF Sites!ScoreRefused
    <2> QED
      BY <1>3, <2>1
  <1>7. DOMAIN request.weights = DOMAIN request.criteria
    BY <1>1, <1>6 DEF IsSequence
  <1>8. \A i \in 1 .. n : Surveyed(sites[i])
    BY <1>1, <1>2, <1>3
  <1> HIDE DEF n
  <1>9. ASSUME NEW i \in 1 .. n PROVE Sites!SiteTotal(request, norm, i) \in Int
    <2> DEFINE part == [k \in DOMAIN request.criteria |->
                           norm[request.criteria[k]][i] * request.weights[k]]
    <2>1. ASSUME NEW k \in DOMAIN request.criteria PROVE part[k] \in Int
      <3> DEFINE c == request.criteria[k]
      <3>1. c \in criteria
        BY DEF Sites!ToSet
      <3>2. Sites!RawScores(request, sites, c) \in [1 .. n -> Int]
        BY <1>1, <1>2, <1>3, <1>8, <3>1, RawScoresHold
      <3>3. norm[c] \in [1 .. n -> Int]
        BY <1>3, <1>6, <3>1, <3>2, NormScoresAreWhole DEF Normed
      <3>4. norm[c][i] \in Int /\ request.weights[k] \in Int
        <4>1. request.weights \in [DOMAIN request.weights -> Int]
          BY <1>1
        <4> HIDE DEF norm, c
        <4> QED
          BY <1>7, <3>3, <4>1
      <3> HIDE DEF norm
      <3> QED
        BY <3>4
    <2>2. part \in [DOMAIN request.criteria -> Int]
      BY <2>1
    <2>3. request.weights \in [DOMAIN request.weights -> Int]
      BY <1>1
    <2>4. IsFiniteSet(DOMAIN request.criteria) /\ IsFiniteSet(DOMAIN request.weights)
      BY <1>1, <1>7, IndicesAreFinite
    <2> HIDE DEF part
    <2>5. Sites!SumFunction(part) \in Int /\ Sites!SumFunction(request.weights) \in Int
      BY <2>2, <2>3, <2>4, SumIsWhole
    <2>6. Sites!Rounded(Sites!SumFunction(part), Sites!SumFunction(request.weights)) \in Int
      BY <1>6, <2>5, RoundedHolds
    <2> QED
      BY <2>6, Zenon DEF Sites!SiteTotal, part
  <1> HIDE DEF norm
  <1>10. \A i \in 1 .. n : totals[i] \in Int /\ totals[i] = Sites!SiteTotal(request, norm, i)
    BY <1>3, <1>9
  <1> HIDE DEF totals
  <1>11. \A i, j \in 1 .. n : <<i, j>> \in better
                                  <=> totals[i] > totals[j] \/ (totals[i] = totals[j] /\ i < j)
    BY <1>3
  <1> HIDE DEF better
  <1>12. Orders(better, 1 .. n)
    <2>1. \A i \in 1 .. n : <<i, i>> \notin better
      BY <1>10, <1>11
    <2>2. \A i, j \in 1 .. n : i # j => <<i, j>> \in better \/ <<j, i>> \in better
      BY <1>10, <1>11
    <2>3. \A i, j, k \in 1 .. n : <<i, j>> \in better /\ <<j, k>> \in better => <<i, k>> \in better
      BY <1>10, <1>11
    <2> QED
      BY <2>1, <2>2, <2>3 DEF Orders
  <1>13. /\ ranked \in [1 .. n -> 1 .. n]
         /\ \A i, j \in 1 .. n : i < j => <<ranked[i], ranked[j]>> \in better
    <2>1. IsFiniteSet(1 .. n) /\ Cardinality(1 .. n) = n
      BY <1>3, FS_Interval
    <2> QED
      BY <1>3, <1>12, <2>1, InOrderHolds
  <1> HIDE DEF ranked
  <1>14. ASSUME NEW i \in 1 .. n, NEW j \in 1 .. n, i < j
         PROVE  Sites!SiteTotal(request, norm, ranked[j]) <= Sites!SiteTotal(request, norm, ranked[i])
    <2>1. ranked[i] \in 1 .. n /\ ranked[j] \in 1 .. n /\ <<ranked[i], ranked[j]>> \in better
      BY <1>13, <1>14
    <2>2. totals[ranked[j]] <= totals[ranked[i]]
      BY <1>10, <1>11, <2>1
    <2> QED
      BY <1>10, <2>1, <2>2
  <1>15. /\ DOMAIN toolAnswer.rows = 1 .. n
         /\ \A k \in 1 .. n :
                toolAnswer.rows[k]
                    = Sites!Row(sites[ranked[k]].name,
                                [c \in criteria |-> {Sites!RawScores(request, sites, c)[ranked[k]]}])
    BY <1>5, <1>13
  <1> QED
    <2>1. \A i \in 1 .. n : sites[i] \in Sites!ToSet(request.sites)
      BY <1>2, <1>3
    <2>2. Ranking(sites, n, ranked)
      BY <1>1, <1>2, <1>3, <1>6, <1>7, <1>8, <1>9, <1>14, <1>15, <2>1, Zenon DEF norm, Ranking
    <2> QED
      BY <1>3, <1>13, <2>2

LEMMA ScoredOwn ==
    ASSUME request \in SiteRequests, request.tool = "score_sites",
           toolAnswer = Sites!ScoreSites(request)
    PROVE  Sites!EveryFigureIsItsOwn
  <1> DEFINE criteria == Sites!ToSet(request.criteria)
             sites == Sites!ResolveSites(request)
             Figure(p, c) == IF Sites!Own(sites, p, c) = {} THEN {0} ELSE Sites!Own(sites, p, c)
  <1> SUFFICES ASSUME toolAnswer.saved, Sites!IsInjective(request.criteria),
                      NEW k \in DOMAIN toolAnswer.rows
               PROVE  \E p \in DOMAIN sites :
                          /\ sites[p].name = toolAnswer.rows[k].of
                          /\ \A c \in criteria : toolAnswer.rows[k].figures[c] = Figure(p, c)
    BY Zenon DEF Sites!EveryFigureIsItsOwn
  <1>1. PICK n \in Nat : \E ranked \in [1 .. n -> 1 .. n] : Ranking(sites, n, ranked)
    BY ScoredHolds
  <1>2. PICK ranked \in [1 .. n -> 1 .. n] : Ranking(sites, n, ranked)
    BY <1>1
  <1> HIDE DEF sites
  <1> DEFINE i == ranked[k]
             s == sites[i]
  <1>3. i \in 1 .. n /\ i \in DOMAIN sites
    BY <1>2 DEF Ranking
  <1>4. /\ toolAnswer.rows[k].of = s.name
        /\ \A c \in criteria : toolAnswer.rows[k].figures[c]
                                   = {Sites!RawScores(request, sites, c)[i]}
    <2>1. toolAnswer.rows[k]
              = Sites!Row(s.name, [c \in criteria |-> {Sites!RawScores(request, sites, c)[i]}])
      BY <1>2 DEF Ranking
    <2> QED
      BY <2>1 DEF Sites!Row
  <1>5. ASSUME NEW c \in criteria
        PROVE  toolAnswer.rows[k].figures[c] = Figure(i, c)
    <2>1. Sites!RawScores(request, sites, c)[i] = Sites!RawScore(request, sites, i, c)
      BY <1>2, <1>3, RawScoresHold DEF Ranking
    <2>2. {Sites!RawScore(request, sites, i, c)} = Figure(i, c)
      BY <1>2, <1>3, RawScoreHolds DEF Ranking
    <2> QED
      BY <1>4, <2>1, <2>2
  <1> QED
    BY <1>3, <1>4, <1>5

(* A sum of more is no less.                                               *)
LEMMA SumsKeepOrder ==
    ASSUME NEW S, IsFiniteSet(S), NEW f \in [S -> Int], NEW h \in [S -> Int],
           \A x \in S : f[x] <= h[x]
    PROVE  Sites!SumFunction(f) <= Sites!SumFunction(h)
  <1>1. PICK a : Takes(a, S, f) /\ Layers!SumFunction(f) = a[S]
    BY SumTakes
  <1>2. PICK b : Takes(b, S, h) /\ Layers!SumFunction(h) = b[S]
    BY SumTakes
  <1> DEFINE less == {s \in SUBSET S : ~(a[s] <= b[s])}
             sizes == {Cardinality(s) : s \in less}
  <1>3. a \in [SUBSET S -> Int] /\ b \in [SUBSET S -> Int]
    BY <1>1, <1>2 DEF Takes
  <1>4. less = {}
    <2> SUFFICES ASSUME less # {} PROVE FALSE
      BY Zenon
    <2>1. \A s \in SUBSET S : IsFiniteSet(s) /\ Cardinality(s) \in Nat
      BY FS_Subset, FS_CardinalityType
    <2>2. sizes \in SUBSET Nat /\ sizes # {}
      BY <2>1
    <2>3. PICK least \in sizes : \A n \in sizes : least <= n
      BY <2>2, LeastOf
    <2>4. PICK s \in less : least = Cardinality(s)
      BY <2>3
    <2>5. s # {}
      <3> SUFFICES ASSUME s = {} PROVE FALSE
        BY Zenon
      <3>1. a[s] = 0 /\ b[s] = 0
        BY <1>1, <1>2 DEF Takes
      <3> QED
        BY <2>4, <3>1
    <2> DEFINE rest == s \ {Some(s)}
    <2>6. Some(s) \in s /\ a[s] = f[Some(s)] + a[rest] /\ b[s] = h[Some(s)] + b[rest]
      BY <1>1, <1>2, <2>4, <2>5 DEF Takes
    <2>7. rest \in SUBSET S /\ Some(s) \in S
      BY <2>4, <2>6
    <2>8. Cardinality(rest) = least - 1 /\ least \in Nat
      BY <2>1, <2>4, <2>6, FS_RemoveElement
    <2>9. rest \notin less
      <3> SUFFICES ASSUME rest \in less PROVE FALSE
        OBVIOUS
      <3>1. Cardinality(rest) \in sizes
        OBVIOUS
      <3> QED
        BY <2>3, <2>8, <3>1
    <2>10. a[rest] <= b[rest] /\ a[rest] \in Int /\ b[rest] \in Int
      BY <1>3, <2>7, <2>9
    <2>11. f[Some(s)] <= h[Some(s)] /\ f[Some(s)] \in Int /\ h[Some(s)] \in Int
      BY <2>7
    <2> HIDE DEF rest
    <2>12. a[s] <= b[s]
      BY <2>6, <2>10, <2>11
    <2> QED
      BY <2>4, <2>12
  <1>5. S \in SUBSET S
    OBVIOUS
  <1> QED
    BY <1>1, <1>2, <1>4, <1>5, SumsAgree

LEMMA SumIsPositive ==
    ASSUME NEW S, IsFiniteSet(S), NEW f \in [S -> Int], \A x \in S : f[x] >= 0,
           Sites!SumFunction(f) # 0
    PROVE  Sites!SumFunction(f) \in Int /\ Sites!SumFunction(f) > 0
  <1> DEFINE none == [x \in S |-> 0]
  <1>1. none \in [S -> Int] /\ \A x \in S : none[x] <= f[x] /\ 0 <= none[x] /\ none[x] <= 0
    OBVIOUS
  <1> HIDE DEF none
  <1>2. Sites!SumFunction(none) <= Sites!SumFunction(f)
    BY <1>1, SumsKeepOrder
  <1>3. Sites!SumFunction(none) = 0
    <2>1. /\ Layers!SumFunction(none) \in Int
          /\ Cardinality(S) * 0 <= Layers!SumFunction(none)
          /\ Layers!SumFunction(none) <= Cardinality(S) * 0
      BY <1>1, SumBetween
    <2>2. Cardinality(S) * 0 = 0
      BY FS_CardinalityType
    <2> QED
      BY <2>1, <2>2, SumsAgree
  <1>4. Sites!SumFunction(f) \in Int
    BY SumIsWhole
  <1> QED
    BY <1>2, <1>3, <1>4

(* score_sites: a site that is no worse in any criterion has no less.      *)
NoWorse(sites, k, m) ==
    \A c \in Sites!ToSet(request.criteria) :
    \A v \in Sites!Own(sites, k, c), w \in Sites!Own(sites, m, c) :
        IF c = "competition" THEN v <= w ELSE w <= v

LEMMA TotalsGrow ==
    ASSUME NEW sites, NEW n \in Nat, NEW ranked, Ranking(sites, n, ranked),
           Sites!IsInjective(request.criteria),
           \A k \in DOMAIN request.weights : request.weights[k] >= 0,
           NEW i \in 1 .. n, NEW j \in 1 .. n,
           \A c \in Sites!ToSet(request.criteria) :
               Sites!Own(sites, i, c) # {} /\ Sites!Own(sites, j, c) # {},
           NoWorse(sites, i, j)
    PROVE  Sites!SiteTotal(request, Normed(sites), j) <= Sites!SiteTotal(request, Normed(sites), i)
  <1> DEFINE criteria == Sites!ToSet(request.criteria)
             places == DOMAIN request.criteria
             norm == Normed(sites)
             Part(p) == [k \in places |-> norm[request.criteria[k]][p] * request.weights[k]]
  <1>1. ASSUME NEW c \in criteria
        PROVE  norm[c] \in [1 .. n -> Int] /\ norm[c][j] <= norm[c][i]
    <2> DEFINE raw == Sites!RawScores(request, sites, c)
    <2>1. /\ raw \in [1 .. n -> Int]
          /\ raw[i] = Sites!RawScore(request, sites, i, c)
          /\ raw[j] = Sites!RawScore(request, sites, j, c)
      BY RawScoresHold DEF Ranking
    <2> HIDE DEF raw
    <2>2. Sites!Own(sites, i, c) = {raw[i]} /\ Sites!Own(sites, j, c) = {raw[j]}
      <3>1. /\ IsSequence(sites) /\ i \in DOMAIN sites /\ j \in DOMAIN sites
            /\ Surveyed(sites[i]) /\ Surveyed(sites[j])
        BY DEF Ranking
      <3>2. Sites!Own(sites, i, c) = {Sites!RawScore(request, sites, i, c)}
        BY <3>1, RawScoreHolds
      <3>3. Sites!Own(sites, j, c) = {Sites!RawScore(request, sites, j, c)}
        BY <3>1, RawScoreHolds
      <3> QED
        BY <2>1, <3>2, <3>3
    <2>3. IF c = "competition" THEN raw[i] <= raw[j] ELSE raw[j] <= raw[i]
      BY <2>2 DEF NoWorse
    <2>4. norm[c] = Sites!NormScores(c, raw)
      BY DEF Normed, raw
    <2> HIDE DEF norm
    <2>5. n > 0
      BY DEF Ranking
    <2> QED
      <3>1. Sites!Inverted(c) <=> c = "competition"
        BY DEF Sites!Inverted
      <3>2. /\ Sites!NormScores(c, raw) \in [1 .. n -> Int]
            /\ (IF Sites!Inverted(c) THEN raw[i] <= raw[j] ELSE raw[j] <= raw[i])
                   => Sites!NormScores(c, raw)[j] <= Sites!NormScores(c, raw)[i]
        BY <2>1, <2>5, NormScoresAreWhole
      <3> QED
        BY <2>3, <2>4, <3>1, <3>2
  <1> HIDE DEF norm
  <1>2. \A k \in places : request.criteria[k] \in criteria
    BY DEF Sites!ToSet
  <1>3. /\ request.weights \in [places -> Int]
        /\ \A k \in places : request.weights[k] >= 0
        /\ IsFiniteSet(places)
    <2>1. request.weights \in [DOMAIN request.weights -> Int]
      BY DEF Ranking
    <2> QED
      BY <2>1, IndicesAreFinite DEF Ranking
  <1>4. ASSUME NEW k \in places
        PROVE  /\ norm[request.criteria[k]][i] * request.weights[k] \in Int
               /\ norm[request.criteria[k]][j] * request.weights[k] \in Int
               /\ norm[request.criteria[k]][j] * request.weights[k]
                      <= norm[request.criteria[k]][i] * request.weights[k]
    <2>1. PICK a, b \in Int, w \in Nat : /\ norm[request.criteria[k]][i] = a
                                         /\ norm[request.criteria[k]][j] = b
                                         /\ request.weights[k] = w
                                         /\ b <= a
      <3>1. norm[request.criteria[k]][i] \in Int /\ norm[request.criteria[k]][j] \in Int
        BY <1>1, <1>2
      <3>2. request.weights[k] \in Nat
        BY <1>3
      <3> QED
        BY <1>1, <1>2, <3>1, <3>2
    <2>2. b * w <= a * w /\ b * w \in Int /\ a * w \in Int
      <3>1. (a - b) * w = a * w - b * w /\ (a - b) * w >= 0
        BY <2>1
      <3>2. b * w \in Int /\ a * w \in Int
        OBVIOUS
      <3> QED
        BY <3>1, <3>2
    <2> QED
      BY <2>1, <2>2
  <1>5. Part(i) \in [places -> Int] /\ Part(j) \in [places -> Int]
    BY <1>4
  <1>6. \A k \in places : Part(j)[k] <= Part(i)[k]
    BY <1>4
  <1>7. /\ \A p : Sites!SiteTotal(request, norm, p)
                      = Sites!Rounded(Sites!SumFunction(Part(p)), Sites!SumFunction(request.weights))
    BY Zenon DEF Sites!SiteTotal
  <1> HIDE DEF Part
  <1>8. Sites!SumFunction(request.weights) \in Int /\ Sites!SumFunction(request.weights) > 0
    BY <1>3, SumIsPositive DEF Ranking
  <1>9. /\ Sites!SumFunction(Part(j)) <= Sites!SumFunction(Part(i))
        /\ Sites!SumFunction(Part(j)) \in Int /\ Sites!SumFunction(Part(i)) \in Int
    BY <1>3, <1>5, <1>6, SumsKeepOrder, SumIsWhole
  <1>10. Sites!SiteTotal(request, norm, j) <= Sites!SiteTotal(request, norm, i)
    BY <1>7, <1>8, <1>9, RoundedHolds
  <1> QED
    BY <1>10 DEF norm

LEMMA ScoredBetter ==
    ASSUME request \in SiteRequests, request.tool = "score_sites",
           toolAnswer = Sites!ScoreSites(request)
    PROVE  Sites!BetterIsNeverScoredWorse
  <1> DEFINE criteria == Sites!ToSet(request.criteria)
             sites == Sites!ResolveSites(request)
             rows == toolAnswer.rows
             Known(k) == \A c \in criteria : Sites!Own(sites, k, c) # {}
             Of(i) == CHOOSE k \in DOMAIN sites : sites[k].name = rows[i].of
             norm == Normed(sites)
  <1> SUFFICES ASSUME toolAnswer.saved, Sites!IsInjective(request.criteria),
                      Sites!IsInjective([k \in DOMAIN sites |-> sites[k].name]),
                      \A k \in DOMAIN request.weights : request.weights[k] >= 0,
                      \A k \in DOMAIN sites : Known(k),
                      NEW i \in DOMAIN rows, NEW j \in DOMAIN rows, i < j,
                      NoWorse(sites, Of(j), Of(i))
               PROVE  Sites!SiteTotal(request, norm, Of(i)) = Sites!SiteTotal(request, norm, Of(j))
    BY Zenon DEF Sites!BetterIsNeverScoredWorse, NoWorse, Normed
  <1>1. PICK n \in Nat : \E ranked \in [1 .. n -> 1 .. n] : Ranking(sites, n, ranked)
    BY ScoredHolds
  <1>2. PICK ranked \in [1 .. n -> 1 .. n] : Ranking(sites, n, ranked)
    BY <1>1
  <1> HIDE DEF sites, rows
  <1>3. DOMAIN sites = 1 .. n /\ DOMAIN rows = 1 .. n
    BY <1>2 DEF Ranking, rows
  <1>4. ASSUME NEW k \in 1 .. n PROVE Of(k) = ranked[k]
    <2>1. rows[k] = Sites!Row(sites[ranked[k]].name,
                              [c \in criteria |-> {Sites!RawScores(request, sites, c)[ranked[k]]}])
      BY <1>2 DEF Ranking, rows
    <2>2. rows[k].of = sites[ranked[k]].name /\ ranked[k] \in 1 .. n
      BY <2>1 DEF Sites!Row
    <2>3. \A p \in DOMAIN sites : sites[p].name = rows[k].of => p = ranked[k]
      BY <1>3, <2>2 DEF Sites!IsInjective
    <2> QED
      BY <1>3, <2>2, <2>3
  <1> DEFINE a == ranked[i]
             b == ranked[j]
  <1>5. a \in 1 .. n /\ b \in 1 .. n /\ Of(i) = a /\ Of(j) = b
    BY <1>3, <1>4
  <1>6. Sites!SiteTotal(request, norm, b) <= Sites!SiteTotal(request, norm, a)
    BY <1>2, <1>3 DEF Ranking
  <1>7. \A p \in 1 .. n : \A c \in criteria : Sites!Own(sites, p, c) # {}
    BY <1>3
  <1> HIDE DEF Of, a, b, norm
  <1>8. Sites!SiteTotal(request, norm, a) <= Sites!SiteTotal(request, norm, b)
    BY <1>2, <1>5, <1>7, TotalsGrow DEF norm
  <1>9. Sites!SiteTotal(request, norm, a) \in Int /\ Sites!SiteTotal(request, norm, b) \in Int
    BY <1>2, <1>5 DEF Ranking, norm
  <1> QED
    BY <1>5, <1>6, <1>8, <1>9

(* The lesser and the greater of two, and the least of several.            *)
LEMMA OfTwo ==
    ASSUME NEW a \in Int, NEW b \in Int
    PROVE  /\ Sites!Least({a, b}) = IF a <= b THEN a ELSE b
           /\ Sites!Greatest({a, b}) = IF a <= b THEN b ELSE a
  <1>1. Sites!Least({a, b}) = IF a <= b THEN a ELSE b
    <2>1. \A x : (x \in {a, b} /\ \A y \in {a, b} : x <= y) <=> x = IF a <= b THEN a ELSE b
      OBVIOUS
    <2> QED
      BY <2>1 DEF Sites!Least
  <1>2. Sites!Greatest({a, b}) = IF a <= b THEN b ELSE a
    <2>1. \A x : (x \in {a, b} /\ \A y \in {a, b} : y <= x) <=> x = IF a <= b THEN b ELSE a
      OBVIOUS
    <2> QED
      BY <2>1 DEF Sites!Greatest
  <1> QED
    BY <1>1, <1>2

(* service_gap: a cell has a size, and there are enough of them.           *)
LEMMA CellsHold ==
    ASSUME NEW width \in Nat, NEW res \in Nat, res > 0
    PROVE  LET n == Sites!Cells(width, res) IN
           /\ n \in Nat /\ n <= width
           /\ 2 * (width - n * res) <= res
  <1> DEFINE n == Sites!Cells(width, res)
  <1>1. CASE 2 * width <= res
    <2>1. n = 0
      BY <1>1 DEF Sites!Cells
    <2> HIDE DEF n
    <2>2. n * res = 0
      BY <2>1
    <2>3. 2 * (width - n * res) <= res
      BY <1>1, <2>2
    <2> QED
      BY <2>1, <2>3 DEF n
  <1>2. CASE ~(2 * width <= res)
    <2> DEFINE a == 2 * width - res + 2 * res - 1
               b == 2 * res
    <2>1. n = a \div b
      BY <1>2 DEF Sites!Cells
    <2>2. a = 2 * width + res - 1 /\ a >= 0 /\ b > 0 /\ a \in Int /\ b \in Int
      BY <1>2
    <2> HIDE DEF n, a
    <2>3. n \in Int /\ a = b * n + (a % b) /\ a % b \in 0 .. b - 1 /\ n >= 0
      BY <2>1, <2>2
    <2>4. PICK p \in Int : p = n * res
      BY <2>3
    <2>5. b * n = 2 * p
      BY <2>3, <2>4
    <2>6. 2 * (width - p) <= res
      BY <2>2, <2>3, <2>4, <2>5
    <2>7. n <= width
      <3> SUFFICES ASSUME width < n PROVE FALSE
        BY <2>3
      <3>1. n - width - 1 \in Nat /\ res - 1 \in Nat
        BY <2>3
      <3>2. p = (n - width - 1) * res + width * (res - 1) + width + res
        BY <2>3, <2>4
      <3>3. (n - width - 1) * res >= 0 /\ width * (res - 1) >= 0
        BY <3>1
      <3>4. (n - width - 1) * res \in Int /\ width * (res - 1) \in Int
        BY <3>1
      <3>5. p >= width + res
        BY <2>4, <3>2, <3>3, <3>4
      <3> QED
        BY <2>2, <2>3, <2>4, <2>5, <3>5
    <2> QED
      BY <2>3, <2>4, <2>6, <2>7 DEF n
  <1> QED
    BY <1>1, <1>2

LEMMA ResolutionHolds ==
    ASSUME NEW q, q.width \in Nat, q.resolution \in Int
    PROVE  Sites!Resolution(q) \in Nat /\ Sites!Resolution(q) > 0
  <1> DEFINE res == Sites!Greatest({100, q.resolution})
             most == q.width * q.width
             n == Sites!Cells(q.width, res)
             Fits(r) == r * r * MAX_CELLS <= most /\ (r + 1) * (r + 1) * MAX_CELLS > most
  <1>1. Sites!Resolution(q) = IF n * n <= MAX_CELLS THEN res
                              ELSE CHOOSE r \in 0 .. q.width : Fits(r)
    BY Zenon DEF Sites!Resolution
  <1>2. res \in Nat /\ res >= 100 /\ res > 0
    <2>1. res = IF 100 <= q.resolution THEN q.resolution ELSE 100
      <3>1. 100 \in Int
        OBVIOUS
      <3> QED
        BY <3>1, OfTwo, Zenon
    <2> HIDE DEF res
    <2> QED
      BY <2>1
  <1>3. MAX_CELLS \in Nat /\ MAX_CELLS > 0
    BY SiteAssumption
  <1> HIDE DEF res
  <1>4. n \in Nat /\ n <= q.width
    BY <1>2, CellsHold
  <1> HIDE DEF n
  <1>5. CASE n * n <= MAX_CELLS
    BY <1>1, <1>2, <1>5
  <1>6. CASE ~(n * n <= MAX_CELLS)
    <2>1. PICK w \in Nat : w = q.width
      OBVIOUS
    <2>2. PICK m \in Nat : m = w * w
      BY <2>1
    <2>3. MAX_CELLS < m
      <3>1. (w - n) * (w + n) = w * w - n * n /\ (w - n) * (w + n) >= 0
        BY <1>4, <2>1
      <3>2. n * n \in Nat
        BY <1>4
      <3>3. n * n <= m
        BY <2>2, <3>1, <3>2
      <3> QED
        BY <1>3, <1>6, <3>2, <3>3
    <2> DEFINE beyond == {r \in Nat : (r + 1) * (r + 1) * MAX_CELLS > m}
    <2>4. w \in beyond
      <3>1. (w + 1) * (w + 1) = m + 2 * w + 1
        BY <2>2
      <3>2. PICK t \in Nat : t = (w + 1) * (w + 1) /\ t > m
        BY <3>1, <2>2
      <3>3. t * MAX_CELLS = t * (MAX_CELLS - 1) + t /\ t * (MAX_CELLS - 1) >= 0
        BY <1>3
      <3>4. t * MAX_CELLS > m
        <4>1. t * (MAX_CELLS - 1) \in Int
          BY <1>3
        <4> QED
          BY <3>2, <3>3, <4>1
      <3> QED
        BY <3>2, <3>4
    <2>5. PICK r \in beyond : \A other \in beyond : r <= other
      BY <2>4, LeastOf
    <2>6. r \in 0 .. w
      BY <2>4, <2>5
    <2>7. r * r * MAX_CELLS <= m
      <3>1. CASE r = 0
        <4>1. r * r * MAX_CELLS = 0
          BY <1>3, <3>1
        <4> QED
          BY <4>1
      <3>2. CASE r # 0
        <4>1. r - 1 \in Nat /\ r - 1 \notin beyond
          BY <2>5, <3>2
        <4>2. ~((r - 1 + 1) * (r - 1 + 1) * MAX_CELLS > m)
          BY <4>1
        <4>3. r - 1 + 1 = r /\ r \in Nat
          BY <2>5
        <4>4. r * r * MAX_CELLS \in Nat
          BY <1>3, <4>3
        <4> QED
          BY <4>2, <4>3, <4>4
      <3> QED
        BY <3>1, <3>2
    <2>8. Fits(r)
      BY <2>1, <2>2, <2>5, <2>7
    <2>9. \E s \in 0 .. q.width : Fits(s)
      BY <2>1, <2>6, <2>8
    <2>10. ~Fits(0)
      <3>1. (0 + 1) * (0 + 1) * MAX_CELLS = MAX_CELLS
        BY <1>3
      <3> QED
        BY <1>3, <2>1, <2>2, <2>3, <3>1
    <2> HIDE DEF Fits
    <2>11. PICK s \in 0 .. q.width : Fits(s) /\ Sites!Resolution(q) = s
      BY <1>1, <1>6, <2>9
    <2>12. s # 0
      BY <2>10, <2>11
    <2> QED
      BY <2>11, <2>12
  <1> QED
    BY <1>5, <1>6

LEMMA GapsBetter ==
    ASSUME request \in SiteRequests, request.tool = "service_gap",
           toolAnswer = Sites!ServiceGap(request)
    PROVE  Sites!BetterIsNeverScoredWorse
  <1> DEFINE q == request
             res == Sites!Resolution(q)
             Far(i) == Sites!Least({Sites!Distance(res, i, f) : f \in q.facilities})
             Class(i) == Sites!Held(toolAnswer.rows[i].figures.gap)
             n == Sites!Cells(q.width, res)
             rows == [i \in 1 .. n |->
                         Sites!Row(i, [gap |-> {Sites!GapScore(Far(i), q.radius)},
                                       population |-> Sites!Give(q.weighted /\ q.raster = "there", i)])]
  <1> SUFFICES ASSUME toolAnswer.saved
               PROVE  /\ \A i, j \in DOMAIN toolAnswer.rows : Far(i) <= Far(j) => Class(i) <= Class(j)
                      /\ 2 * (q.width - Len(toolAnswer.rows) * res) <= res
    BY Zenon DEF Sites!BetterIsNeverScoredWorse
  <1>1. /\ q.width \in Nat /\ q.resolution \in Int /\ q.radius \in Int
        /\ q.facilities \subseteq Int /\ IsFiniteSet(q.facilities)
    BY SiteAssumption
  <1>2. res \in Nat /\ res > 0
    BY <1>1, ResolutionHolds
  <1>3. toolAnswer.rows = rows /\ q.facilities # {}
    <2>1. toolAnswer = IF \/ ~q.placed
                          \/ q.service = "unknown"
                          \/ q.service = "osm" /\ ~q.osm
                          \/ q.facilities = {}
                          \/ n = 0
                         THEN Sites!Refused ELSE Sites!Saved(rows, {})
      BY Zenon DEF Sites!ServiceGap
    <2> HIDE DEF rows
    <2> QED
      BY <2>1, SavedIs
  <1> HIDE DEF res
  <1>4. n \in Nat /\ 2 * (q.width - n * res) <= res
    BY <1>1, <1>2, CellsHold
  <1> HIDE DEF n
  <1>5. Len(toolAnswer.rows) = n /\ DOMAIN toolAnswer.rows = 1 .. n
    BY <1>3, <1>4
  <1>6. ASSUME NEW i \in 1 .. n PROVE Far(i) \in Int
    <2> DEFINE away == [f \in q.facilities |-> Sites!Distance(res, i, f)]
               all == {Sites!Distance(res, i, f) : f \in q.facilities}
    <2>1. \A f \in q.facilities : Sites!Distance(res, i, f) \in Int
      <3> TAKE f \in q.facilities
      <3>1. (2 * i - 1) * res - 2 * f \in Int
        BY <1>1, <1>2, <1>4
      <3> QED
        BY <3>1 DEF Sites!Distance
    <2>2. away \in Surjection(q.facilities, all)
      BY DEF Surjection
    <2>3. all \in SUBSET Int /\ all # {} /\ IsFiniteSet(all)
      BY <1>1, <1>3, <2>1, <2>2, FS_Surjection
    <2> HIDE DEF all
    <2>4. HasEnds(all)
      BY <2>3, EndsOf
    <2>5. Sites!Least(all) \in Int
      BY <2>3, <2>4 DEF HasEnds, Sites!Least
    <2> QED
      BY <2>5 DEF all
  <1> HIDE DEF Far
  <1>7. \A i \in 1 .. n : Class(i) = Sites!GapScore(Far(i), q.radius)
    <2> TAKE i \in 1 .. n
    <2>1. toolAnswer.rows[i].figures.gap = {Sites!GapScore(Far(i), q.radius)}
      BY <1>3 DEF Sites!Row
    <2> QED
      BY <2>1, HeldIsIt
  <1> HIDE DEF Class
  <1>8. ASSUME NEW i \in 1 .. n, NEW j \in 1 .. n, Far(i) <= Far(j)
        PROVE  Class(i) <= Class(j)
    BY <1>1, <1>6, <1>7, <1>8 DEF Sites!GapScore
  <1> QED
    BY <1>4, <1>5, <1>8

(* assess_environmental_risk: the samples, and how the score follows the   *)
(* ground and the water.                                                   *)
LEMMA SamplesHold ==
    ASSUME request \in SiteRequests, request.tool = "assess_environmental_risk"
    PROVE  LET ground == Sites!Samples(request) IN
           /\ IsFiniteSet(DOMAIN ground)
           /\ ground \in [DOMAIN ground -> Int]
  <1> DEFINE samples == request.samples
             got == [b \in DOMAIN samples |-> Sites!BatchElevations(samples[b])]
             there == {b \in DOMAIN got : got[b] # {}}
             At(b) == {b} \X (DOMAIN Sites!Held(got[b]))
             all == UNION {At(b) : b \in there}
             ground == Sites!Samples(request)
  <1>1. /\ IsSequence(samples)
        /\ \A b \in DOMAIN samples :
               /\ IsSequence(samples[b])
               /\ \A k \in DOMAIN samples[b] : samples[b][k] \subseteq Seq(Int)
    BY SiteAssumption
  <1>2. \A b \in there : b \in DOMAIN samples /\ Sites!Held(got[b]) \in Seq(Int)
    <2> TAKE b \in there
    <2>1. b \in DOMAIN samples /\ got[b] # {}
      OBVIOUS
    <2> DEFINE attempts == samples[b]
               good == {k \in DOMAIN attempts : attempts[k] # {}}
    <2>2. got[b] = IF good = {} THEN {} ELSE attempts[Sites!Least(good)]
      BY <2>1 DEF Sites!BatchElevations
    <2>3. good # {} /\ got[b] = attempts[Sites!Least(good)]
      BY <2>1, <2>2
    <2>4. good \in SUBSET Int /\ IsFiniteSet(good)
      BY <1>1, <2>1, IndicesAreFinite
    <2>5. HasEnds(good)
      BY <2>3, <2>4, EndsOf
    <2>6. Sites!Least(good) \in good
      BY <2>5 DEF HasEnds, Sites!Least
    <2>7. got[b] \subseteq Seq(Int)
      BY <1>1, <2>1, <2>3, <2>6
    <2> QED
      BY <2>1, <2>7 DEF Sites!Held
  <1>3. ground = [p \in all |-> Sites!Held(got[p[1]])[p[2]]]
    BY Zenon DEF Sites!Samples
  <1>4. IsFiniteSet(all)
    <2>1. \A b \in there : IsFiniteSet(At(b))
      <3> TAKE b \in there
      <3>1. PICK s \in Seq(Int) : s = Sites!Held(got[b])
        BY <1>2
      <3>2. IsFiniteSet(DOMAIN s)
        <4>1. Len(s) \in Nat /\ DOMAIN s = 1 .. Len(s)
          OBVIOUS
        <4> QED
          BY <4>1, FS_Interval
      <3>3. IsFiniteSet({b} \X (DOMAIN s))
        BY <3>2, FS_Singleton, FS_Product
      <3> QED
        BY <3>1, <3>3
    <2>2. IsFiniteSet(there)
      <3>1. there \subseteq DOMAIN samples
        OBVIOUS
      <3> QED
        BY <1>1, <3>1, IndicesAreFinite
    <2> DEFINE each == [b \in there |-> At(b)]
               parts == {At(b) : b \in there}
    <2>3. each \in Surjection(there, parts)
      BY DEF Surjection
    <2>4. IsFiniteSet(parts)
      BY <2>2, <2>3, FS_Surjection
    <2>5. \A T \in parts : IsFiniteSet(T)
      BY <2>1
    <2> HIDE DEF parts
    <2>6. IsFiniteSet(UNION parts)
      BY <2>4, <2>5, FS_UNION
    <2> QED
      BY <2>6 DEF parts
  <1>5. ASSUME NEW p \in all PROVE ground[p] \in Int
    <2>1. PICK b \in there : p \in At(b)
      OBVIOUS
    <2>2. PICK s \in Seq(Int) : s = Sites!Held(got[b])
      BY <1>2
    <2>3. p[1] = b /\ p[2] \in DOMAIN s
      BY <2>1, <2>2
    <2>4. ground[p] = s[p[2]]
      BY <1>3, <2>2, <2>3
    <2> QED
      BY <2>3, <2>4
  <1> HIDE DEF all, ground
  <1>6. DOMAIN ground = all /\ ground = [p \in all |-> ground[p]]
    BY <1>3
  <1> QED
    BY <1>4, <1>5, <1>6 DEF ground

\* How many samples lie below a band, and what water there is near
Below(ground, band) == Cardinality({i \in DOMAIN ground : ground[i] < band})
Nearness(water) ==
    IF \E w \in water : w < 250 THEN 130 ELSE IF \E w \in water : w < 1000 THEN 115 ELSE 100

Share(n, below, most) == IF most * n <= 4 * most * below THEN most * n ELSE 4 * most * below

LEMMA FloodScoreIs ==
    ASSUME NEW D, IsFiniteSet(D), D # {}, NEW ground \in [D -> Int], NEW water
    PROVE  LET n == Cardinality(D)
               a == Share(n, Below(ground, 5), 9)
               b == Share(n, Below(ground, 10), 7)
               score == Sites!Rounded((IF a <= b THEN b ELSE a) * Nearness(water), 100 * n)
               most == IF 10 <= score THEN 10 ELSE score
           IN /\ n \in Nat /\ n > 0
              /\ Below(ground, 5) \in 0 .. n /\ Below(ground, 10) \in 0 .. n
              /\ score \in Int
              /\ Sites!FloodScore(ground, water) = {IF 1 <= most THEN most ELSE 1}
  <1> DEFINE n == Cardinality(D)
             a == Share(n, Below(ground, 5), 9)
             b == Share(n, Below(ground, 10), 7)
             exposure == IF a <= b THEN b ELSE a
             near == Nearness(water)
             score == Sites!Rounded(exposure * near, 100 * n)
             most == IF 10 <= score THEN 10 ELSE score
             SharedOut(band, top) ==
                 Sites!Least({top * n, 4 * top * Cardinality({i \in DOMAIN ground : ground[i] < band})})
  <1>1. n \in Nat /\ n > 0 /\ DOMAIN ground = D
    BY FS_CardinalityType, FS_EmptySet
  <1>2. ASSUME NEW band PROVE Below(ground, band) \in 0 .. n
    <2> DEFINE low == {i \in DOMAIN ground : ground[i] < band}
    <2>1. low \in SUBSET D
      BY <1>1
    <2>2. IsFiniteSet(low) /\ Cardinality(low) <= n
      BY <2>1, FS_Subset
    <2>3. Cardinality(low) \in Nat
      BY <2>2, FS_CardinalityType
    <2>4. Below(ground, band) = Cardinality(low)
      BY DEF Below
    <2> HIDE DEF low
    <2> QED
      BY <1>1, <2>2, <2>3, <2>4
  <1> HIDE DEF n
  <1>3. PICK low, lower \in 0 .. n : low = Below(ground, 10) /\ lower = Below(ground, 5)
    BY <1>2
  <1>4. SharedOut(5, 9) = a /\ SharedOut(10, 7) = b
    <2>1. /\ SharedOut(5, 9) = Sites!Least({9 * n, 4 * 9 * lower})
          /\ SharedOut(10, 7) = Sites!Least({7 * n, 4 * 7 * low})
      BY <1>3, Zenon DEF Below
    <2>2. /\ 9 * n \in Int /\ 4 * 9 * lower \in Int
          /\ 7 * n \in Int /\ 4 * 7 * low \in Int
      BY <1>1
    <2>3. /\ Sites!Least({9 * n, 4 * 9 * lower})
                 = IF 9 * n <= 4 * 9 * lower THEN 9 * n ELSE 4 * 9 * lower
          /\ Sites!Least({7 * n, 4 * 7 * low})
                 = IF 7 * n <= 4 * 7 * low THEN 7 * n ELSE 4 * 7 * low
      BY <2>2, OfTwo, Zenon
    <2> QED
      BY <1>3, <2>1, <2>3, Zenon DEF Share
  <1>5. a \in Int /\ b \in Int
    BY <1>1, <1>3 DEF Share
  <1> HIDE DEF a, b, SharedOut
  <1>6. exposure \in Int /\ near \in Int /\ exposure = Sites!Greatest({a, b})
    <2>1. Sites!Greatest({a, b}) = exposure
      BY <1>5, OfTwo, Zenon
    <2>2. near \in Int
      BY DEF Nearness
    <2> QED
      BY <1>5, <2>1, <2>2
  <1> HIDE DEF exposure, near
  <1>7. score \in Int
    <2>1. PICK e, k \in Int : e = exposure /\ k = near
      BY <1>6
    <2>2. e * k \in Int /\ 100 * n \in Int /\ 100 * n # 0
      BY <1>1
    <2>3. Sites!Rounded(e * k, 100 * n) \in Int
      BY <2>2, RoundedHolds
    <2> QED
      BY <2>1, <2>3
  <1>8. Sites!FloodScore(ground, water)
            = Sites!Give(n # 0, Sites!Greatest({1, Sites!Least({10, score})}))
    <2>1. Sites!FloodScore(ground, water)
              = Sites!Give(Cardinality(DOMAIN ground) # 0,
                    Sites!Greatest({1, Sites!Least({10,
                        Sites!Rounded(
                            Sites!Greatest({
                                Sites!Least({9 * Cardinality(DOMAIN ground),
                                             4 * 9 * Cardinality({i \in DOMAIN ground :
                                                                      ground[i] < 5})}),
                                Sites!Least({7 * Cardinality(DOMAIN ground),
                                             4 * 7 * Cardinality({i \in DOMAIN ground :
                                                                      ground[i] < 10})})})
                                * Nearness(water),
                            100 * Cardinality(DOMAIN ground))})}))
      BY Zenon DEF Sites!FloodScore, Sites!Cardinality, Cardinality, Nearness
    <2>2. Sites!FloodScore(ground, water)
              = Sites!Give(n # 0,
                    Sites!Greatest({1, Sites!Least({10,
                        Sites!Rounded(Sites!Greatest({SharedOut(5, 9), SharedOut(10, 7)}) * near,
                                      100 * n)})}))
      BY <1>1, <2>1, Zenon DEF n, SharedOut, near
    <2> QED
      BY <1>4, <1>6, <2>2, Zenon
  <1> HIDE DEF score
  <1>9. Sites!Least({10, score}) = most /\ most \in Int
    <2>1. 10 \in Int
      OBVIOUS
    <2>2. Sites!Least({10, score}) = most
      BY <1>7, <2>1, OfTwo, Zenon
    <2> QED
      BY <1>7, <2>2
  <1> HIDE DEF most
  <1>10. Sites!Greatest({1, most}) = IF 1 <= most THEN most ELSE 1
    <2>1. 1 \in Int
      OBVIOUS
    <2> QED
      BY <1>9, <2>1, OfTwo, Zenon
  <1>11. Sites!FloodScore(ground, water) = {IF 1 <= most THEN most ELSE 1}
    BY <1>1, <1>8, <1>9, <1>10 DEF Sites!Give
  <1> QED
    BY <1>1, <1>2, <1>7, <1>11, Zenon DEF n, a, b, exposure, near, score, most

LEMMA FloodScoreGrows ==
    ASSUME NEW D, IsFiniteSet(D), D # {}, NEW ground \in [D -> Int], NEW lower \in [D -> Int],
           \A band \in {5, 10} : \A i \in D : ground[i] < band => lower[i] < band,
           NEW water, NEW nearer, Nearness(water) <= Nearness(nearer)
    PROVE  \A f \in Sites!FloodScore(ground, water), g \in Sites!FloodScore(lower, nearer) : f <= g
  <1> DEFINE Most(score) == IF 10 <= score THEN 10 ELSE score
             Final(score) == IF 1 <= Most(score) THEN Most(score) ELSE 1
             Exposed(n, five, ten) ==
                 IF Share(n, five, 9) <= Share(n, ten, 7) THEN Share(n, ten, 7) ELSE Share(n, five, 9)
             Scored(n, five, ten, near) == Sites!Rounded(Exposed(n, five, ten) * near, 100 * n)
  <1>1. ASSUME NEW e \in [D -> Int], NEW w
        PROVE  LET n == Cardinality(D) IN
               /\ n \in Nat /\ n > 0
               /\ Below(e, 5) \in 0 .. n /\ Below(e, 10) \in 0 .. n
               /\ Scored(n, Below(e, 5), Below(e, 10), Nearness(w)) \in Int
               /\ Sites!FloodScore(e, w)
                      = {Final(Scored(n, Below(e, 5), Below(e, 10), Nearness(w)))}
    BY FloodScoreIs, Zenon
  <1> HIDE DEF Scored, Final
  <1>2. PICK n \in Nat : n = Cardinality(D) /\ n > 0
    BY <1>1
  <1>3. PICK five, ten, low, lowest \in 0 .. n :
            /\ five = Below(ground, 5) /\ ten = Below(ground, 10)
            /\ lowest = Below(lower, 5) /\ low = Below(lower, 10)
    BY <1>1, <1>2
  <1>4. PICK near, close \in {100, 115, 130} :
            near = Nearness(water) /\ close = Nearness(nearer)
    BY DEF Nearness
  <1>5. ASSUME NEW band \in {5, 10} PROVE Below(ground, band) <= Below(lower, band)
    <2> DEFINE A == {i \in DOMAIN ground : ground[i] < band}
               B == {i \in DOMAIN lower : lower[i] < band}
    <2>1. A \subseteq B /\ B \subseteq D
      OBVIOUS
    <2>2. IsFiniteSet(B)
      BY <2>1, FS_Subset
    <2>3. Cardinality(A) <= Cardinality(B)
      BY <2>1, <2>2, FS_Subset
    <2> QED
      BY <2>3, Zenon DEF Below
  <1>6. five <= lowest /\ ten <= low
    BY <1>3, <1>5
  <1>7. Exposed(n, five, ten) \in Nat /\ Exposed(n, lowest, low) \in Nat
        /\ Exposed(n, five, ten) <= Exposed(n, lowest, low)
    BY <1>2, <1>3, <1>6 DEF Share
  <1>8. Scored(n, five, ten, near) <= Scored(n, lowest, low, close)
    <2> HIDE DEF Exposed
    <2>1. PICK a, b \in Nat : a = Exposed(n, five, ten) /\ b = Exposed(n, lowest, low) /\ a <= b
      BY <1>7
    <2>2. near <= close /\ near \in Nat /\ close \in Nat
      BY <1>4
    <2>3. a * near <= b * close /\ a * near \in Int /\ b * close \in Int
      <3>1. (b - a) * near = b * near - a * near /\ (b - a) * near >= 0
        BY <2>1, <2>2
      <3>2. b * (close - near) = b * close - b * near /\ b * (close - near) >= 0
        BY <2>2
      <3>3. a * near \in Int /\ b * near \in Int /\ b * close \in Int
        BY <2>2
      <3> QED
        BY <3>1, <3>2, <3>3
    <2>4. 100 * n \in Int /\ 100 * n > 0
      BY <1>2
    <2>5. Sites!Rounded(a * near, 100 * n) <= Sites!Rounded(b * close, 100 * n)
      BY <2>3, <2>4, RoundedHolds
    <2> QED
      BY <2>1, <2>5 DEF Scored
  <1>9. /\ Sites!FloodScore(ground, water) = {Final(Scored(n, five, ten, near))}
        /\ Sites!FloodScore(lower, nearer) = {Final(Scored(n, lowest, low, close))}
        /\ Scored(n, five, ten, near) \in Int
        /\ Scored(n, lowest, low, close) \in Int
    BY <1>1, <1>2, <1>3, <1>4
  <1>10. Final(Scored(n, five, ten, near)) <= Final(Scored(n, lowest, low, close))
    BY <1>8, <1>9 DEF Final
  <1> QED
    BY <1>9, <1>10

\* "Water near high ground stays low risk"
LEMMA HighGroundIsSafe ==
    ASSUME NEW D, IsFiniteSet(D), D # {}, NEW ground \in [D -> Int], NEW water,
           \A i \in D : ground[i] >= 10
    PROVE  Sites!FloodScore(ground, water) = {1}
  <1> DEFINE n == Cardinality(D)
             a == Share(n, Below(ground, 5), 9)
             b == Share(n, Below(ground, 10), 7)
             score == Sites!Rounded((IF a <= b THEN b ELSE a) * Nearness(water), 100 * n)
             most == IF 10 <= score THEN 10 ELSE score
  <1>1. /\ n \in Nat /\ n > 0
        /\ Sites!FloodScore(ground, water) = {IF 1 <= most THEN most ELSE 1}
    BY FloodScoreIs, Zenon
  <1>2. ASSUME NEW band \in {5, 10} PROVE Below(ground, band) = 0
    <2>1. {i \in DOMAIN ground : ground[i] < band} = {}
      OBVIOUS
    <2> QED
      BY <2>1, FS_EmptySet DEF Below
  <1> HIDE DEF n
  <1>3. a = 0 /\ b = 0
    BY <1>1, <1>2 DEF Share
  <1> HIDE DEF a, b
  <1>4. (IF a <= b THEN b ELSE a) * Nearness(water) = 0
    BY <1>3 DEF Nearness
  <1>5. score = Sites!Rounded(0, 100 * n)
    BY <1>4
  <1>6. score = 0
    <2>1. PICK c \in Int : c = 100 * n /\ c > 0
      BY <1>1
    <2>2. 0 \div c = 0 /\ 0 % c = 0
      BY <2>1
    <2>3. Sites!HalfToEven(0, c) = 0
      BY <2>1, <2>2 DEF Sites!HalfToEven
    <2> QED
      BY <1>5, <2>1, <2>3 DEF Sites!Rounded
  <1> HIDE DEF score
  <1> QED
    BY <1>1, <1>6

LEMMA RiskBetter ==
    ASSUME request \in SiteRequests, request.tool = "assess_environmental_risk",
           toolAnswer = Sites!AssessEnvironmentalRisk(request)
    PROVE  Sites!BetterIsNeverScoredWorse
  <1> DEFINE ground == Sites!Samples(request)
             D == DOMAIN ground
             water == IF request.osm THEN request.layers["water"] ELSE {}
             lower == {[ground EXCEPT ![i] = 0] : i \in DOMAIN ground}
             floods == toolAnswer.rows[1].figures.flood
  <1> SUFFICES ASSUME toolAnswer.saved, NEW flood \in floods
               PROVE  /\ (\A i \in DOMAIN ground : ground[i] >= 10) => flood = 1
                      /\ \A dry \in Sites!FloodScore(ground, {}) : dry <= flood
                      /\ \A e \in lower : \A f \in Sites!FloodScore(e, water) : flood <= f
    BY Zenon DEF Sites!BetterIsNeverScoredWorse
  <1>1. IsFiniteSet(D) /\ ground \in [D -> Int]
    BY SamplesHold
  <1>2. floods = Sites!FloodScore(ground, water)
    <2> DEFINE Layer(name) == IF request.osm THEN request.layers[name] ELSE {}
               flooded == Sites!FloodScore(ground, Layer("water"))
               pollution == Sites!NearScore(Layer("industrial"), <<200, 500, 1000>>)
               noise == Sites!NearScore(Layer("roads"), <<50, 150, 400>>)
               green == Sites!GreenScore(IF request.osm THEN request.green ELSE 0)
               figures == [flood |-> flooded, pollution |-> {pollution}, noise |-> {noise},
                           green |-> {green},
                           overall |-> {Sites!OverallRisk(flooded, pollution, noise, green)}]
               at == IF request.pair # {} THEN Sites!Held(request.pair)
                     ELSE Sites!PinnedGeocodeHit(request.hits).id
               row == Sites!Row(at, figures)
               noted == (IF \E b \in DOMAIN request.samples :
                                Sites!BatchElevations(request.samples[b]) = {} THEN {"elevation"} ELSE {})
                        \cup (IF request.osm THEN {} ELSE {"osm"})
    <2>1. toolAnswer = IF (request.pair = {} /\ request.hits = <<>>) \/ ~request.area
                       THEN Sites!Refused
                       ELSE Sites!Saved(<<row>>, noted)
      BY Zenon DEF Sites!AssessEnvironmentalRisk
    <2>2. figures.flood = Sites!FloodScore(ground, water)
      BY Zenon
    <2> HIDE DEF figures, noted
    <2>3. row.figures = figures
      BY DEF Sites!Row
    <2> HIDE DEF row, ground, water
    <2>4. toolAnswer.rows = <<row>>
      BY <2>1, SavedIs
    <2> QED
      BY <2>2, <2>3, <2>4
  <1> HIDE DEF ground, water, floods
  <1>3. D # {}
    <2> SUFFICES ASSUME D = {} PROVE FALSE
      OBVIOUS
    <2>1. Sites!FloodScore(ground, water) = {}
      <3>1. Cardinality(D) = 0
        BY FS_EmptySet
      <3>2. PICK score : Sites!FloodScore(ground, water) = Sites!Give(Cardinality(D) # 0, score)
        BY Zenon DEF Sites!FloodScore, Sites!Cardinality, Cardinality
      <3> QED
        BY <3>1, <3>2 DEF Sites!Give
    <2> QED
      BY <1>2, <2>1
  <1>4. (\A i \in D : ground[i] >= 10) => flood = 1
    BY <1>1, <1>2, <1>3, HighGroundIsSafe
  <1>5. \A dry \in Sites!FloodScore(ground, {}) : dry <= flood
    <2>1. Nearness({}) <= Nearness(water)
      BY DEF Nearness
    <2> QED
      BY <1>1, <1>2, <1>3, <2>1, FloodScoreGrows
  <1>6. ASSUME NEW i \in D, NEW f \in Sites!FloodScore([ground EXCEPT ![i] = 0], water)
        PROVE  flood <= f
    <2> DEFINE e == [ground EXCEPT ![i] = 0]
    <2>1. e \in [D -> Int]
      BY <1>1
    <2>2. \A band \in {5, 10} : \A k \in D : ground[k] < band => e[k] < band
      BY <1>1
    <2>3. Nearness(water) <= Nearness(water)
      BY DEF Nearness
    <2>4. f \in Sites!FloodScore(e, water)
      BY <1>6
    <2> HIDE DEF e
    <2> QED
      BY <1>1, <1>2, <1>3, <2>1, <2>2, <2>3, <2>4, FloodScoreGrows
  <1> QED
    BY <1>4, <1>5, <1>6
-----------------------------------------------------------------------------
(* SiteTools: an answer is what the tool makes of the request.             *)

SitesInv ==
    /\ request \in SiteRequests
    /\ \/ toolAnswer = Sites!Unanswered
       \/ /\ request.tool = "batch_geocode"
          /\ toolAnswer = Sites!BatchGeocode(request)
       \/ /\ request.tool = "calculate_isochrones"
          /\ toolAnswer = Sites!CalculateIsochrones(request)
       \/ /\ request.tool = "trade_area"
          /\ toolAnswer = Sites!TradeArea(request)
       \/ /\ request.tool = "score_sites"
          /\ toolAnswer = Sites!ScoreSites(request)
       \/ /\ request.tool = "assess_environmental_risk"
          /\ toolAnswer = Sites!AssessEnvironmentalRisk(request)
       \/ /\ request.tool = "service_gap"
          /\ toolAnswer = Sites!ServiceGap(request)

LEMMA SitesInitially == Sites!Init => SitesInv
  BY DEF Sites!Init, SitesInv

LEMMA SitesInvariance == SitesInv /\ [Sites!Next]_siteVars => SitesInv'
  BY DEF SitesInv, Sites!Next, Sites!Answer, siteVars

LEMMA FiguresPromised == SitesInv => Sites!EveryFigureIsItsOwn
  <1> SUFFICES ASSUME SitesInv PROVE Sites!EveryFigureIsItsOwn
    OBVIOUS
  <1>1. CASE toolAnswer = Sites!Unanswered
    BY <1>1, SavedIs, Zenon DEF Sites!EveryFigureIsItsOwn
  <1>2. CASE request.tool \in {"assess_environmental_risk", "service_gap"}
    BY <1>2 DEF Sites!EveryFigureIsItsOwn
  <1> QED
    BY <1>1, <1>2, GeocodedOwn, IsochronesOwn, TradedOwn, ScoredOwn DEF SitesInv

LEMMA BetterPromised == SitesInv => Sites!BetterIsNeverScoredWorse
  <1> SUFFICES ASSUME SitesInv PROVE Sites!BetterIsNeverScoredWorse
    OBVIOUS
  <1>1. CASE toolAnswer = Sites!Unanswered
    BY <1>1, SavedIs, Zenon DEF Sites!BetterIsNeverScoredWorse
  <1>2. CASE request.tool \in {"batch_geocode", "calculate_isochrones", "trade_area"}
    BY <1>2 DEF Sites!BetterIsNeverScoredWorse
  <1> QED
    BY <1>1, <1>2, ScoredBetter, RiskBetter, GapsBetter DEF SitesInv

-----------------------------------------------------------------------------
(* EvalScoring: a name refers to a step of its name, if there is one.      *)
LEMMA ByNameHolds ==
    ASSUME NEW steps, IsSequence(steps), NEW name
    PROVE  LET at == Scoring!ByName(steps, name) IN
           /\ at # 0 => at \in DOMAIN steps /\ steps[at].name = name
           /\ at = 0 => \A i \in DOMAIN steps : steps[i].name # name
  <1> DEFINE at == Scoring!ByName(steps, name)
             named == {i \in DOMAIN steps : steps[i].name = name}
  <1>1. DOMAIN steps = 1 .. Len(steps) /\ Len(steps) \in Nat
    BY DEF IsSequence
  <1>2. at = IF named = {} THEN 0 ELSE Scoring!Greatest(named)
    BY Zenon DEF Scoring!ByName
  <1>3. CASE named = {}
    BY <1>2, <1>3
  <1>4. CASE named # {}
    <2>1. named \in SUBSET (0 .. Len(steps))
      BY <1>1
    <2>2. \E m \in named : \A n \in named : n <= m
      BY <1>1, <1>4, <2>1, GreatestOf
    <2>3. at \in named
      BY <1>2, <1>4, <2>2 DEF Scoring!Greatest
    <2>4. at # 0
      BY <1>1, <2>3
    <2> QED
      BY <2>3, <2>4
  <1> QED
    BY <1>3, <1>4

(* The names of a manifest are finitely many.                              *)
LEMMA ReferencesHold ==
    ASSUME NEW steps, IsSequence(steps)
    PROVE  /\ IsFiniteSet(Scoring!References(steps))
           /\ \A i \in DOMAIN steps :
                  /\ steps[i].name \in Scoring!References(steps)
                  /\ steps[i].input \in Scoring!References(steps)
                  /\ steps[i].join # Scoring!Absent => steps[i].join \in Scoring!References(steps)
                  /\ Scoring!Parents(steps[i]) \subseteq Scoring!References(steps)
  <1> DEFINE Of(i) == {steps[i].name} \cup Scoring!Parents(steps[i])
             all == {Of(i) : i \in DOMAIN steps}
  <1>1. DOMAIN steps = 1 .. Len(steps) /\ Len(steps) \in Nat
    BY DEF IsSequence
  <1>2. Scoring!References(steps) = UNION all
    BY Zenon DEF Scoring!References
  <1>3. IsFiniteSet(DOMAIN steps)
    BY <1>1, FS_Interval
  <1>4. IsFiniteSet(all)
    <2> DEFINE f == [i \in DOMAIN steps |-> Of(i)]
    <2>1. f \in Surjection(DOMAIN steps, all)
      BY DEF Surjection
    <2> QED
      BY <1>3, <2>1, FS_Surjection
  <1>5. ASSUME NEW T \in all PROVE IsFiniteSet(T)
    <2>1. PICK i \in DOMAIN steps : T = Of(i)
      OBVIOUS
    <2>2. \A x : IsFiniteSet({x})
      BY FS_Singleton
    <2>3. IsFiniteSet({steps[i].input}) /\ IsFiniteSet({steps[i].name})
          /\ IsFiniteSet({steps[i].join}) /\ IsFiniteSet({})
      BY <2>2, FS_EmptySet
    <2>4. IsFiniteSet(Scoring!Parents(steps[i]))
      BY <2>3, FS_Union DEF Scoring!Parents
    <2> QED
      BY <2>1, <2>3, <2>4, FS_Union
  <1>6. IsFiniteSet(UNION all)
    BY <1>4, <1>5, FS_UNION
  <1>7. \A i \in DOMAIN steps : Of(i) \in all
    OBVIOUS
  <1>8. \A i \in DOMAIN steps :
            /\ steps[i].name \in Of(i) /\ steps[i].input \in Of(i)
            /\ steps[i].join # Scoring!Absent => steps[i].join \in Of(i)
            /\ Scoring!Parents(steps[i]) \subseteq Of(i)
    BY DEF Scoring!Parents
  <1> HIDE DEF all
  <1> QED
    BY <1>2, <1>6, <1>7, <1>8

(* What a step reads is one name or two, and of the depths of those one is *)
(* the greatest.                                                           *)
LEMMA DeepestHolds ==
    ASSUME NEW R, NEW step, Scoring!Parents(step) \subseteq R, NEW after \in [R -> Nat]
    PROVE  LET most == Scoring!Greatest({after[p] : p \in Scoring!Parents(step)}) IN
           most \in Nat /\ \A p \in Scoring!Parents(step) : after[p] <= most
  <1> DEFINE depths == {after[p] : p \in Scoring!Parents(step)}
             x == after[step.input]
             y == after[step.join]
  <1>1. step.input \in R /\ x \in Nat
    BY DEF Scoring!Parents
  <1>2. \E m \in depths : \A n \in depths : n <= m
    <2>1. CASE step.join = Scoring!Absent
      <3>1. depths = {x}
        BY <2>1 DEF Scoring!Parents
      <3> QED
        BY <1>1, <3>1
    <2>2. CASE step.join # Scoring!Absent
      <3>1. step.join \in R /\ y \in Nat
        BY <2>2 DEF Scoring!Parents
      <3>2. depths = {x, y}
        BY <2>2 DEF Scoring!Parents
      <3> QED
        BY <1>1, <3>1, <3>2
    <2> QED
      BY <2>1, <2>2
  <1>3. depths \subseteq Nat
    OBVIOUS
  <1>4. /\ Scoring!Greatest(depths) \in depths
        /\ \A n \in depths : n <= Scoring!Greatest(depths)
    BY <1>2 DEF Scoring!Greatest
  <1> QED
    BY <1>3, <1>4

(* The visits are there: what is left to be seen gets less.                *)
Caches(steps) == [Scoring!References(steps) -> Nat]

VisitsOf(steps, v) ==
    [seen \in SUBSET Scoring!References(steps) |->
        [name \in Scoring!References(steps) |->
            [cache \in Caches(steps) |-> Scoring!Visited(steps, v, seen, name, cache)]]]

AllVisits(steps) ==
    [SUBSET Scoring!References(steps) ->
        [Scoring!References(steps) -> [Caches(steps) -> Caches(steps)]]]

LEMMA VisitedIsCache ==
    ASSUME NEW steps, IsSequence(steps), NEW v,
           NEW seen \in SUBSET Scoring!References(steps),
           NEW name \in Scoring!References(steps), NEW cache \in Caches(steps),
           name \notin seen =>
               v[seen \cup {name}] \in [Scoring!References(steps) -> [Caches(steps) -> Caches(steps)]]
    PROVE  Scoring!Visited(steps, v, seen, name, cache) \in Caches(steps)
  <1> DEFINE R == Scoring!References(steps)
             C == Caches(steps)
             at == Scoring!ByName(steps, name)
             first == v[seen \cup {name}][steps[at].input][cache]
             after == IF steps[at].join = Scoring!Absent THEN first
                      ELSE v[seen \cup {name}][steps[at].join][first]
             depth == 1 + Scoring!Greatest({after[p] : p \in Scoring!Parents(steps[at])})
  <1>1. Scoring!Visited(steps, v, seen, name, cache)
          = IF cache[name] > 0 \/ name \in seen \/ at = 0 THEN cache
            ELSE [after EXCEPT ![name] = depth]
    BY Zenon DEF Scoring!Visited
  <1>2. CASE cache[name] > 0 \/ name \in seen \/ at = 0
    BY <1>1, <1>2
  <1>3. CASE ~ (cache[name] > 0 \/ name \in seen \/ at = 0)
    <2>1. at \in DOMAIN steps
      BY <1>3, ByNameHolds
    <2>2. /\ steps[at].input \in R
          /\ steps[at].join # Scoring!Absent => steps[at].join \in R
          /\ Scoring!Parents(steps[at]) \subseteq R
      BY <2>1, ReferencesHold
    <2> DEFINE more == v[seen \cup {name}]
    <2>3. more \in [R -> [C -> C]]
      BY <1>3
    <2> HIDE DEF more, at, R, C
    <2>4. first \in C
      BY <2>2, <2>3 DEF more, C
    <2>5. after \in C
      BY <2>2, <2>3, <2>4 DEF more
    <2> HIDE DEF after
    <2>6. after \in [R -> Nat]
      BY <2>5 DEF C, R, Caches
    <2>7. depth \in Nat
      <3>1. Scoring!Greatest({after[p] : p \in Scoring!Parents(steps[at])}) \in Nat
        BY <2>2, <2>6, DeepestHolds
      <3> QED
        BY <3>1
    <2> HIDE DEF depth
    <2>8. [after EXCEPT ![name] = depth] \in C
      BY <2>6, <2>7 DEF C, R, Caches
    <2> QED
      BY <1>1, <1>3, <2>8 DEF C, at
  <1> QED
    BY <1>2, <1>3

LEMMA VisitedAlike ==
    ASSUME NEW steps, NEW v, NEW w, NEW seen, NEW name, NEW cache,
           name \notin seen => v[seen \cup {name}] = w[seen \cup {name}]
    PROVE  Scoring!Visited(steps, v, seen, name, cache)
               = Scoring!Visited(steps, w, seen, name, cache)
  BY Zenon DEF Scoring!Visited

LEMMA LeftGetsLess ==
    ASSUME NEW R, IsFiniteSet(R), NEW seen \in SUBSET R, NEW name \in R, name \notin seen
    PROVE  /\ Cardinality(R \ seen) \in Nat
           /\ Cardinality(R \ (seen \cup {name})) \in Nat
           /\ Cardinality(R \ (seen \cup {name})) < Cardinality(R \ seen)
  <1>1. IsFiniteSet(R \ seen) /\ name \in R \ seen
    BY FS_Difference
  <1>2. R \ (seen \cup {name}) = (R \ seen) \ {name}
    OBVIOUS
  <1> DEFINE left == R \ seen
  <1>3. Cardinality(left \ {name}) = Cardinality(left) - 1 /\ IsFiniteSet(left \ {name})
    BY <1>1, FS_RemoveElement
  <1>4. Cardinality(left) \in Nat /\ Cardinality(left \ {name}) \in Nat
    BY <1>1, <1>3, FS_CardinalityType
  <1> HIDE DEF left
  <1>5. Cardinality(left \ {name}) < Cardinality(left)
    BY <1>3, <1>4
  <1> QED
    BY <1>2, <1>4, <1>5 DEF left

LEMMA VisitsHold ==
    ASSUME NEW steps, IsSequence(steps)
    PROVE  /\ Scoring!Visits(steps) \in AllVisits(steps)
           /\ Scoring!Visits(steps) = VisitsOf(steps, Scoring!Visits(steps))
  <1> DEFINE R == Scoring!References(steps)
             C == Caches(steps)
             Left(seen) == Cardinality(R \ seen)
             Right(v, k) == /\ v \in AllVisits(steps)
                            /\ \A seen \in SUBSET R : Left(seen) < k =>
                                   v[seen] = VisitsOf(steps, v)[seen]
  <1>1. IsFiniteSet(R)
    BY ReferencesHold
  <1>2. \A seen \in SUBSET R : Left(seen) \in Nat
    BY <1>1, FS_Difference, FS_CardinalityType
  <1>3. ASSUME NEW seen \in SUBSET R, NEW name \in R, name \notin seen
        PROVE  seen \cup {name} \in SUBSET R /\ Left(seen \cup {name}) < Left(seen)
    BY <1>1, <1>3, LeftGetsLess
  <1> HIDE DEF R, Left
  <1>4. ASSUME NEW v \in AllVisits(steps) PROVE VisitsOf(steps, v) \in AllVisits(steps)
    <2>1. ASSUME NEW seen \in SUBSET R, NEW name \in R, NEW cache \in C
          PROVE  Scoring!Visited(steps, v, seen, name, cache) \in C
      <3>1. seen \cup {name} \in SUBSET R
        OBVIOUS
      <3>2. v[seen \cup {name}] \in [R -> [C -> C]]
        BY <3>1 DEF AllVisits, R
      <3> QED
        BY <3>2, VisitedIsCache DEF R
    <2> QED
      BY <2>1 DEF VisitsOf, AllVisits, R
  <1>5. \E v : Right(v, 0)
    <2> DEFINE v == [seen \in SUBSET R |-> [name \in R |-> [cache \in C |-> cache]]]
    <2>1. v \in AllVisits(steps)
      BY DEF AllVisits, R
    <2> HIDE DEF v
    <2>2. \A seen \in SUBSET R : ~ (Left(seen) < 0)
      BY <1>2
    <2> QED
      BY <2>1, <2>2
  <1>6. ASSUME NEW k \in Nat, NEW v, Right(v, k) PROVE Right(VisitsOf(steps, v), k + 1)
    <2> DEFINE w == VisitsOf(steps, v)
    <2>1. w \in AllVisits(steps)
      BY <1>4, <1>6
    <2>2. ASSUME NEW seen \in SUBSET R, Left(seen) < k + 1
          PROVE  w[seen] = VisitsOf(steps, w)[seen]
      <3>1. ASSUME NEW name \in R, NEW cache \in C
            PROVE  Scoring!Visited(steps, v, seen, name, cache)
                       = Scoring!Visited(steps, w, seen, name, cache)
        <4>1. ASSUME name \notin seen PROVE v[seen \cup {name}] = w[seen \cup {name}]
          <5>1. seen \cup {name} \in SUBSET R /\ Left(seen \cup {name}) < Left(seen)
            BY <1>3, <4>1
          <5>2. Left(seen \cup {name}) \in Nat /\ Left(seen) \in Nat
            BY <1>2, <5>1
          <5>3. Left(seen \cup {name}) < k
            BY <2>2, <5>1, <5>2
          <5> QED
            BY <1>6, <5>1, <5>3
        <4> HIDE DEF w
        <4> QED
          BY <4>1, VisitedAlike
      <3>2. w[seen] = [name \in R |-> [cache \in C |-> Scoring!Visited(steps, v, seen, name, cache)]]
        BY DEF VisitsOf, R
      <3>3. VisitsOf(steps, w)[seen]
              = [name \in R |-> [cache \in C |-> Scoring!Visited(steps, w, seen, name, cache)]]
        BY DEF VisitsOf, R
      <3> HIDE DEF w
      <3> QED
        BY <3>1, <3>2, <3>3
    <2> QED
      BY <2>1, <2>2
  <1>7. \A k \in Nat : \E v : Right(v, k)
    <2> DEFINE Bad == {k \in Nat : ~ \E v : Right(v, k)}
    <2> SUFFICES ASSUME Bad # {} PROVE FALSE
      BY Zenon
    <2>1. PICK k \in Bad : \A n \in Bad : k <= n
      BY LeastOf
    <2>2. k \in Nat /\ k # 0 /\ ~ \E v : Right(v, k)
      BY <1>5, <2>1
    <2>3. k - 1 \in Nat /\ k - 1 \notin Bad /\ (k - 1) + 1 = k
      BY <2>1, <2>2
    <2>4. PICK v : Right(v, k - 1)
      BY <2>3
    <2> HIDE DEF Right
    <2>5. Right(VisitsOf(steps, v), k)
      BY <1>6, <2>3, <2>4
    <2> QED
      BY <2>2, <2>5
  <1>8. \E v : v = VisitsOf(steps, v)
    <2>1. Left({}) + 1 \in Nat
      BY <1>2
    <2>2. PICK v : Right(v, Left({}) + 1)
      BY <1>7, <2>1
    <2>3. ASSUME NEW seen \in SUBSET R PROVE Left(seen) < Left({}) + 1
      <3>1. R \ seen \subseteq R \ {} /\ IsFiniteSet(R \ {})
        BY <1>1
      <3>2. Left(seen) <= Left({})
        BY <3>1, FS_Subset DEF Left
      <3> QED
        BY <1>2, <3>2
    <2>4. \A seen \in SUBSET R : v[seen] = VisitsOf(steps, v)[seen]
      BY <2>2, <2>3
    <2>5. v = [seen \in SUBSET R |-> v[seen]]
      BY <2>2 DEF AllVisits, R
    <2>6. VisitsOf(steps, v) = [seen \in SUBSET R |-> VisitsOf(steps, v)[seen]]
      BY DEF VisitsOf, R
    <2>7. [seen \in SUBSET R |-> v[seen]] = [seen \in SUBSET R |-> VisitsOf(steps, v)[seen]]
      BY <2>4, Zenon
    <2> QED
      BY <2>5, <2>6, <2>7
  <1> DEFINE v == Scoring!Visits(steps)
  <1>9. v = CHOOSE w : w = VisitsOf(steps, w)
    BY Zenon DEF Scoring!Visits, VisitsOf, Caches
  <1>10. v = VisitsOf(steps, v)
    BY <1>8, <1>9
  <1> HIDE DEF v
  <1>11. \A seen \in SUBSET R : v[seen] \in [R -> [C -> C]]
    <2> DEFINE Bad == {seen \in SUBSET R : v[seen] \notin [R -> [C -> C]]}
               lefts == {Left(seen) : seen \in Bad}
    <2> SUFFICES ASSUME Bad # {} PROVE FALSE
      BY Zenon
    <2>1. lefts \in SUBSET Nat /\ lefts # {}
      BY <1>2
    <2>2. PICK k \in lefts : \A n \in lefts : k <= n
      BY <2>1, LeastOf
    <2>3. PICK seen \in Bad : k = Left(seen)
      BY <2>2
    <2>4. ASSUME NEW name \in R, NEW cache \in C
          PROVE  Scoring!Visited(steps, v, seen, name, cache) \in C
      <3>1. ASSUME name \notin seen PROVE v[seen \cup {name}] \in [R -> [C -> C]]
        <4>1. seen \cup {name} \in SUBSET R /\ Left(seen \cup {name}) < Left(seen)
          BY <1>3, <2>3, <3>1
        <4>2. Left(seen \cup {name}) \in Nat /\ Left(seen) \in Nat
          BY <1>2, <2>3, <4>1
        <4>3. seen \cup {name} \notin Bad
          <5> SUFFICES ASSUME seen \cup {name} \in Bad PROVE FALSE
            OBVIOUS
          <5>1. Left(seen \cup {name}) \in lefts
            OBVIOUS
          <5> HIDE DEF Bad, lefts
          <5>2. Left(seen) <= Left(seen \cup {name})
            BY <2>2, <2>3, <5>1
          <5> QED
            BY <4>1, <4>2, <5>2
        <4> QED
          BY <4>1, <4>3
      <3> QED
        BY <3>1, VisitedIsCache DEF R
    <2>5. VisitsOf(steps, v)[seen]
            = [name \in R |-> [cache \in C |-> Scoring!Visited(steps, v, seen, name, cache)]]
      BY DEF VisitsOf, R
    <2>6. v[seen] = VisitsOf(steps, v)[seen]
      BY <1>10
    <2>7. v[seen] \in [R -> [C -> C]]
      BY <2>4, <2>5, <2>6
    <2> QED
      BY <2>7
  <1>12. v = [seen \in SUBSET R |-> v[seen]]
    <2>1. DOMAIN VisitsOf(steps, v) = SUBSET R
      BY DEF VisitsOf, R
    <2>2. VisitsOf(steps, v) = [seen \in SUBSET R |-> VisitsOf(steps, v)[seen]]
      BY DEF VisitsOf, R
    <2> QED
      BY <1>10, <2>2, Zenon
  <1>13. v \in AllVisits(steps)
    BY <1>11, <1>12 DEF AllVisits, R
  <1> QED
    BY <1>10, <1>13 DEF v

(* What a step reads through others is the least that is closed.           *)
LEMMA UpstreamHolds ==
    ASSUME NEW steps, NEW i \in DOMAIN steps
    PROVE  LET up == Scoring!Upstream(steps) IN
           /\ up[i] \subseteq DOMAIN steps
           /\ Scoring!Reads(steps, i) \subseteq up[i]
           /\ \A k \in up[i] : Scoring!Reads(steps, k) \subseteq up[i] /\ up[k] \subseteq up[i]
           /\ \A S \in SUBSET DOMAIN steps :
                  (/\ Scoring!Reads(steps, i) \subseteq S
                   /\ \A k \in S : Scoring!Reads(steps, k) \subseteq S) => up[i] \subseteq S
  <1> DEFINE up == Scoring!Upstream(steps)
             Closed(S, k) == /\ Scoring!Reads(steps, k) \subseteq S
                             /\ \A l \in S : Scoring!Reads(steps, l) \subseteq S
  <1>1. \A k \in DOMAIN steps :
            up[k] = {j \in DOMAIN steps : \A S \in SUBSET DOMAIN steps : Closed(S, k) => j \in S}
    BY DEF Scoring!Upstream
  <1>2. \A k \in DOMAIN steps : Scoring!Reads(steps, k) \subseteq DOMAIN steps
    BY DEF Scoring!Reads
  <1> HIDE DEF up
  <1>3. up[i] \in SUBSET DOMAIN steps /\ Scoring!Reads(steps, i) \subseteq up[i]
    BY <1>1, <1>2
  <1>4. \A S \in SUBSET DOMAIN steps : \A k \in DOMAIN steps : Closed(S, k) => up[k] \subseteq S
    BY <1>1
  <1>5. \A k \in up[i] : Scoring!Reads(steps, k) \subseteq up[i]
    BY <1>1, <1>2, <1>3
  <1>6. \A k \in up[i] : Closed(up[i], k)
    BY <1>5
  <1> HIDE DEF Closed
  <1>7. \A k \in up[i] : up[k] \subseteq up[i]
    BY <1>3, <1>4, <1>6
  <1> QED
    BY <1>3, <1>4, <1>5, <1>7 DEF up, Closed

(* A cache gives a step a depth beyond those of the steps that it reads.   *)
Cached(steps, c) ==
    /\ c \in Caches(steps)
    /\ \A r \in Scoring!References(steps) : c[r] > 0 =>
           /\ Scoring!ByName(steps, r) # 0
           /\ \A p \in Scoring!Parents(steps[Scoring!ByName(steps, r)]) :
                  c[p] < c[r] /\ (Scoring!ByName(steps, p) # 0 => c[p] > 0)

\* What is being worked out reads the name, if it is one of a step.
Above(steps, seen, name) ==
    \A s \in seen :
        /\ Scoring!ByName(steps, s) # 0
        /\ Scoring!ByName(steps, name) # 0 =>
               Scoring!ByName(steps, name)
                   \in Scoring!Upstream(steps)[Scoring!ByName(steps, s)]

\* Nothing that is known changes, nor what is being worked out.
Adds(steps, seen, name, c, d) ==
    /\ Cached(steps, d)
    /\ \A r \in Scoring!References(steps) : c[r] > 0 => d[r] = c[r]
    /\ \A s \in seen : d[s] = c[s]
    /\ Scoring!ByName(steps, name) # 0 => d[name] > 0

Keeps(steps, v, seen) ==
    \A name \in Scoring!References(steps) : \A c \in Caches(steps) :
        Cached(steps, c) /\ Above(steps, seen, name) =>
            Adds(steps, seen, name, c, v[seen][name][c])

LEMMA ParentIsBelow ==
    ASSUME NEW steps, IsSequence(steps), NEW seen, NEW name, Above(steps, seen, name),
           Scoring!ByName(steps, name) # 0,
           NEW p \in Scoring!Parents(steps[Scoring!ByName(steps, name)])
    PROVE  Above(steps, seen \cup {name}, p)
  <1> DEFINE at == Scoring!ByName(steps, name)
             to == Scoring!ByName(steps, p)
             up == Scoring!Upstream(steps)
  <1>1. at \in DOMAIN steps
    BY ByNameHolds
  <1>2. to # 0 => to \in Scoring!Reads(steps, at)
    BY ByNameHolds DEF Scoring!Reads
  <1>3. to # 0 => to \in up[at]
    BY <1>1, <1>2, UpstreamHolds
  <1>4. ASSUME NEW s \in seen
        PROVE  /\ Scoring!ByName(steps, s) # 0
               /\ to # 0 => to \in up[Scoring!ByName(steps, s)]
    <2>1. /\ Scoring!ByName(steps, s) # 0
          /\ at \in up[Scoring!ByName(steps, s)]
      BY DEF Above
    <2>2. Scoring!ByName(steps, s) \in DOMAIN steps
      BY <2>1, ByNameHolds
    <2>3. up[at] \subseteq up[Scoring!ByName(steps, s)]
      BY <2>1, <2>2, UpstreamHolds
    <2> QED
      BY <1>3, <2>1, <2>3
  <1> QED
    BY <1>3, <1>4 DEF Above

LEMMA VisitedKeeps ==
    ASSUME NEW steps, IsSequence(steps), Scoring!Runnable(steps),
           NEW v \in AllVisits(steps),
           NEW seen \in SUBSET Scoring!References(steps),
           NEW name \in Scoring!References(steps), NEW c, Cached(steps, c),
           Above(steps, seen, name),
           name \notin seen => Keeps(steps, v, seen \cup {name})
    PROVE  Adds(steps, seen, name, c, Scoring!Visited(steps, v, seen, name, c))
  <1> DEFINE R == Scoring!References(steps)
             C == Caches(steps)
             at == Scoring!ByName(steps, name)
             more == v[seen \cup {name}]
             first == more[steps[at].input][c]
             after == IF steps[at].join = Scoring!Absent THEN first
                      ELSE more[steps[at].join][first]
             depth == 1 + Scoring!Greatest({after[p] : p \in Scoring!Parents(steps[at])})
             d == [after EXCEPT ![name] = depth]
  <1>1. Scoring!Visited(steps, v, seen, name, c)
          = IF c[name] > 0 \/ name \in seen \/ at = 0 THEN c ELSE d
    BY Zenon DEF Scoring!Visited
  <1>2. ASSUME at # 0 PROVE name \notin seen
    <2> SUFFICES ASSUME name \in seen PROVE FALSE
      OBVIOUS
    <2>1. at \in DOMAIN steps
      BY <1>2, ByNameHolds
    <2>2. at \in Scoring!Upstream(steps)[at]
      BY <1>2 DEF Above
    <2> QED
      BY <2>1, <2>2 DEF Scoring!Runnable
  <1>3. c \in [R -> Nat]
    BY DEF Cached, Caches
  <1>4. CASE c[name] > 0 \/ name \in seen \/ at = 0
    <2>1. at # 0 => c[name] > 0
      BY <1>2, <1>4
    <2> HIDE DEF at
    <2> QED
      BY <1>1, <1>4, <2>1 DEF Adds, at
  <1>5. CASE ~ (c[name] > 0 \/ name \in seen \/ at = 0)
    <2>1. at \in DOMAIN steps /\ c[name] = 0
      BY <1>3, <1>5, ByNameHolds
    <2>2. /\ steps[at].input \in R /\ steps[at].input \in Scoring!Parents(steps[at])
          /\ steps[at].join # Scoring!Absent =>
                 steps[at].join \in R /\ steps[at].join \in Scoring!Parents(steps[at])
          /\ Scoring!Parents(steps[at]) \subseteq R
      BY <2>1, ReferencesHold DEF Scoring!Parents
    <2>3. Scoring!Parents(steps[at])
            = {steps[at].input} \cup (IF steps[at].join = Scoring!Absent THEN {}
                                      ELSE {steps[at].join})
      BY DEF Scoring!Parents
    <2>4. \A p \in Scoring!Parents(steps[at]) : Above(steps, seen \cup {name}, p)
      BY <1>5, ParentIsBelow
    <2>5. Keeps(steps, v, seen \cup {name})
      BY <1>5
    <2>6. Adds(steps, seen \cup {name}, steps[at].input, c, first)
      BY <1>3, <2>2, <2>4, <2>5 DEF Keeps, Caches
    <2> HIDE DEF first
    <2>7. steps[at].join # Scoring!Absent =>
              Adds(steps, seen \cup {name}, steps[at].join, first, more[steps[at].join][first])
      <3>1. Cached(steps, first) /\ first \in C
        BY <2>6 DEF Adds, Cached
      <3> QED
        BY <2>2, <2>4, <2>5, <3>1 DEF Keeps
    <2> HIDE DEF at, more
    <2>8. Cached(steps, after) /\ after \in [R -> Nat]
      BY <2>6, <2>7 DEF Adds, Cached, Caches
    <2>9. /\ \A r \in R : c[r] > 0 => after[r] = c[r]
          /\ \A s \in seen \cup {name} : after[s] = c[s]
      BY <2>6, <2>7 DEF Adds
    <2>10. \A p \in Scoring!Parents(steps[at]) : Scoring!ByName(steps, p) # 0 => after[p] > 0
      BY <2>2, <2>3, <2>6, <2>7 DEF Adds
    <2> HIDE DEF after
    <2>11. depth \in Nat /\ depth > 0 /\ \A p \in Scoring!Parents(steps[at]) : after[p] < depth
      <3> DEFINE most == Scoring!Greatest({after[p] : p \in Scoring!Parents(steps[at])})
      <3>1. most \in Nat /\ \A p \in Scoring!Parents(steps[at]) : after[p] <= most
        BY <2>2, <2>8, DeepestHolds
      <3>2. \A p \in Scoring!Parents(steps[at]) : after[p] \in Nat
        BY <2>2, <2>8
      <3> HIDE DEF most
      <3>3. depth = 1 + most
        BY DEF most
      <3> HIDE DEF depth
      <3> QED
        BY <3>1, <3>2, <3>3
    <2> HIDE DEF depth
    <2>12. d \in [R -> Nat] /\ d[name] = depth /\ \A r \in R : r # name => d[r] = after[r]
      BY <2>8, <2>11
    <2>13. after[name] = 0
      BY <2>1, <2>9
    <2> HIDE DEF d
    <2>14. ASSUME NEW r \in R, d[r] > 0
           PROVE  /\ Scoring!ByName(steps, r) # 0
                  /\ \A p \in Scoring!Parents(steps[Scoring!ByName(steps, r)]) :
                         d[p] < d[r] /\ (Scoring!ByName(steps, p) # 0 => d[p] > 0)
      <3>1. CASE r = name
        <4>1. name \notin Scoring!Parents(steps[at])
          <5> SUFFICES ASSUME name \in Scoring!Parents(steps[at]) PROVE FALSE
            OBVIOUS
          <5>1. after[name] > 0
            BY <1>5, <2>10 DEF at
          <5> QED
            BY <2>13, <5>1
        <4>2. \A p \in Scoring!Parents(steps[at]) : d[p] = after[p]
          BY <2>2, <2>12, <4>1
        <4> QED
          BY <1>5, <2>10, <2>11, <2>12, <3>1, <4>2 DEF at
      <3>2. CASE r # name
        <4> DEFINE of == Scoring!ByName(steps, r)
        <4>1. d[r] = after[r] /\ after[r] > 0
          BY <2>12, <2>14, <3>2
        <4>2. /\ of # 0
              /\ \A p \in Scoring!Parents(steps[of]) :
                     after[p] < after[r] /\ (Scoring!ByName(steps, p) # 0 => after[p] > 0)
          BY <2>8, <4>1 DEF Cached
        <4>3. of \in DOMAIN steps
          BY <4>2, ByNameHolds
        <4>4. Scoring!Parents(steps[of]) \subseteq R
          BY <4>3, ReferencesHold
        <4>5. name \notin Scoring!Parents(steps[of])
          BY <1>5, <2>13, <4>2 DEF at
        <4>6. \A p \in Scoring!Parents(steps[of]) : d[p] = after[p]
          BY <2>12, <4>4, <4>5
        <4> QED
          BY <4>1, <4>2, <4>6
      <3> QED
        BY <3>1, <3>2
    <2>15. Cached(steps, d)
      BY <2>12, <2>14 DEF Cached, Caches
    <2>16. \A r \in R : c[r] > 0 => d[r] = c[r]
      BY <2>1, <2>9, <2>12
    <2>17. \A s \in seen : d[s] = c[s]
      BY <1>5, <2>9, <2>12
    <2>18. Adds(steps, seen, name, c, d)
      BY <2>11, <2>12, <2>15, <2>16, <2>17 DEF Adds
    <2> QED
      BY <1>1, <1>5, <2>18 DEF at
  <1> QED
    BY <1>4, <1>5

LEMMA VisitKeeps ==
    ASSUME NEW steps, IsSequence(steps), Scoring!Runnable(steps),
           NEW seen \in SUBSET Scoring!References(steps)
    PROVE  Keeps(steps, Scoring!Visits(steps), seen)
  <1> DEFINE R == Scoring!References(steps)
             v == Scoring!Visits(steps)
             Left(s) == Cardinality(R \ s)
             Bad == {s \in SUBSET R : ~ Keeps(steps, v, s)}
             lefts == {Left(s) : s \in Bad}
  <1> SUFFICES ASSUME Bad # {} PROVE FALSE
    BY Zenon
  <1>1. v \in AllVisits(steps) /\ v = VisitsOf(steps, v)
    BY VisitsHold
  <1>2. IsFiniteSet(R)
    BY ReferencesHold
  <1>3. lefts \in SUBSET Nat /\ lefts # {}
    <2>1. \A s \in SUBSET R : Left(s) \in Nat
      BY <1>2, FS_Difference, FS_CardinalityType
    <2> QED
      BY <2>1
  <1>4. PICK k \in lefts : \A n \in lefts : k <= n
    BY <1>3, LeastOf
  <1>5. PICK s \in Bad : k = Left(s)
    BY <1>4
  <1> HIDE DEF v
  <1>6. ASSUME NEW name \in R, name \notin s PROVE Keeps(steps, v, s \cup {name})
    <2> DEFINE t == s \cup {name}
    <2>1. s \in SUBSET R /\ t \in SUBSET R
      BY <1>5
    <2>2. Left(s) \in Nat /\ Left(t) \in Nat /\ Left(t) < Left(s)
      BY <1>2, <1>6, <2>1, LeftGetsLess
    <2>3. t \notin Bad
      <3> SUFFICES ASSUME t \in Bad PROVE FALSE
        OBVIOUS
      <3>1. Left(t) \in lefts
        OBVIOUS
      <3> HIDE DEF Bad, lefts, t, Left
      <3>2. Left(s) <= Left(t)
        BY <1>4, <1>5, <3>1
      <3> QED
        BY <2>2, <3>2
    <2> QED
      BY <2>1, <2>3
  <1>7. ASSUME NEW name \in R, NEW c \in Caches(steps), Cached(steps, c), Above(steps, s, name)
        PROVE  Adds(steps, s, name, c, v[s][name][c])
    <2>1. Adds(steps, s, name, c, Scoring!Visited(steps, v, s, name, c))
      BY <1>1, <1>5, <1>6, <1>7, VisitedKeeps
    <2>2. VisitsOf(steps, v)[s][name][c] = Scoring!Visited(steps, v, s, name, c)
      BY <1>5 DEF VisitsOf
    <2> QED
      BY <1>1, <2>1, <2>2
  <1>8. Keeps(steps, v, s)
    BY <1>7 DEF Keeps
  <1> QED
    BY <1>5, <1>8

(* In a graph that can run, a step is deeper than each that it reads.      *)
CachesOf(steps, a) ==
    [n \in 0 .. Len(steps) |->
        IF n = 0 THEN [name \in Scoring!References(steps) |-> 0]
        ELSE Scoring!Visits(steps)[{}][steps[n].name][a[n - 1]]]

LEMMA CachesHold ==
    ASSUME NEW steps, IsSequence(steps)
    PROVE  \E a \in [0 .. Len(steps) -> Caches(steps)] :
               a = CachesOf(steps, a) /\ Scoring!Depths(steps) = a[Len(steps)]
  <1> DEFINE R == Scoring!References(steps)
             C == Caches(steps)
             N == Len(steps)
             v == Scoring!Visits(steps)
             zeros == [name \in R |-> 0]
             T == [0 .. N -> C]
             Right(a, k) == a \in T /\ \A n \in 0 .. N : n < k => a[n] = CachesOf(steps, a)[n]
  <1>1. N \in Nat /\ DOMAIN steps = 1 .. N
    BY DEF IsSequence
  <1>2. \A n \in 1 .. N : steps[n].name \in R
    BY <1>1, ReferencesHold
  <1>3. v \in [SUBSET R -> [R -> [C -> C]]]
    BY VisitsHold DEF AllVisits
  <1>4. zeros \in C
    BY DEF Caches
  <1>5. \A a : CachesOf(steps, a)
                 = [n \in 0 .. N |-> IF n = 0 THEN zeros ELSE v[{}][steps[n].name][a[n - 1]]]
    BY DEF CachesOf
  <1>0. \A a : \A n \in 0 .. N :
            CachesOf(steps, a)[n] = IF n = 0 THEN zeros ELSE v[{}][steps[n].name][a[n - 1]]
    BY <1>5
  <1> HIDE DEF v, zeros, R, C, N
  <1>6. {} \in SUBSET R
    OBVIOUS
  <1>7. ASSUME NEW a \in T PROVE CachesOf(steps, a) \in T
    <2>1. ASSUME NEW n \in 0 .. N PROVE CachesOf(steps, a)[n] \in C
      <3>1. CASE n = 0
        BY <1>4, <1>5, <3>1
      <3>2. CASE n # 0
        <4>1. n - 1 \in 0 .. N /\ n \in 1 .. N
          BY <1>1, <3>2
        <4>2. a[n - 1] \in C /\ steps[n].name \in R
          BY <1>2, <4>1
        <4>3. v[{}][steps[n].name][a[n - 1]] \in C
          BY <1>3, <1>6, <4>2
        <4> QED
          BY <1>0, <3>2, <4>3
      <3> QED
        BY <3>1, <3>2
    <2> QED
      BY <1>5, <2>1
  <1>8. \E a : Right(a, 0)
    <2> DEFINE a == [n \in 0 .. N |-> zeros]
    <2>1. a \in T
      BY <1>4
    <2> HIDE DEF a
    <2> QED
      BY <2>1
  <1>9. ASSUME NEW k \in Nat, NEW a, Right(a, k) PROVE Right(CachesOf(steps, a), k + 1)
    <2> DEFINE b == CachesOf(steps, a)
    <2>1. b \in T
      BY <1>7, <1>9
    <2>2. ASSUME NEW n \in 0 .. N, n < k + 1 PROVE b[n] = CachesOf(steps, b)[n]
      <3>1. CASE n = 0
        BY <1>5, <3>1
      <3>2. CASE n # 0
        <4>1. n - 1 \in 0 .. N /\ n - 1 < k
          BY <1>1, <2>2, <3>2
        <4>2. a[n - 1] = b[n - 1]
          BY <1>9, <4>1
        <4>3. b[n] = v[{}][steps[n].name][a[n - 1]]
          BY <1>5, <3>2
        <4>4. CachesOf(steps, b)[n] = v[{}][steps[n].name][b[n - 1]]
          BY <1>5, <3>2
        <4> QED
          BY <4>2, <4>3, <4>4
      <3> QED
        BY <3>1, <3>2
    <2> QED
      BY <2>1, <2>2
  <1>10. \A k \in Nat : \E a : Right(a, k)
    <2> DEFINE Bad == {k \in Nat : ~ \E a : Right(a, k)}
    <2> SUFFICES ASSUME Bad # {} PROVE FALSE
      BY Zenon
    <2> HIDE DEF Right
    <2>1. PICK k \in Bad : \A n \in Bad : k <= n
      BY LeastOf
    <2>2. k \in Nat /\ k # 0 /\ ~ \E a : Right(a, k)
      BY <1>8, <2>1
    <2>3. k - 1 \in Nat /\ k - 1 \notin Bad /\ (k - 1) + 1 = k
      BY <2>1, <2>2
    <2>4. PICK a : Right(a, k - 1)
      BY <2>3
    <2>5. Right(CachesOf(steps, a), k)
      BY <1>9, <2>3, <2>4
    <2> QED
      BY <2>2, <2>5
  <1>11. PICK a : Right(a, N + 1)
    BY <1>1, <1>10
  <1>12. \A n \in 0 .. N : a[n] = CachesOf(steps, a)[n]
    BY <1>1, <1>11
  <1>13. a = CachesOf(steps, a)
    <2> DEFINE b == CachesOf(steps, a)
    <2>1. b \in T /\ a \in T
      BY <1>7, <1>11
    <2> HIDE DEF b
    <2>2. \A n \in 0 .. N : a[n] = b[n]
      BY <1>12 DEF b
    <2>3. a = b
      <3>1. a = [n \in 0 .. N |-> a[n]] /\ b = [n \in 0 .. N |-> b[n]]
        BY <2>1
      <3>2. [n \in 0 .. N |-> a[n]] = [n \in 0 .. N |-> b[n]]
        BY <2>2, Zenon
      <3> QED
        BY <3>1, <3>2
    <2> QED
      BY <2>3 DEF b
  <1> DEFINE last == CHOOSE b : b = CachesOf(steps, b)
  <1>14. Scoring!Depths(steps) = last[N]
    BY Zenon DEF Scoring!Depths, CachesOf, N
  <1>15. last = CachesOf(steps, last)
    BY <1>13
  <1> HIDE DEF last
  <1>16. \A n \in 0 .. N : last[n] \in C
    <2> DEFINE Bad == {n \in 0 .. N : last[n] \notin C}
    <2> SUFFICES ASSUME Bad # {} PROVE FALSE
      BY Zenon
    <2>1. Bad \in SUBSET Nat
      BY <1>1
    <2>2. PICK n \in Bad : \A m \in Bad : n <= m
      BY <2>1, LeastOf
    <2>3. last[n] = IF n = 0 THEN zeros ELSE v[{}][steps[n].name][last[n - 1]]
      <3>1. n \in 0 .. N
        BY <2>2
      <3>2. CachesOf(steps, last)[n]
              = IF n = 0 THEN zeros ELSE v[{}][steps[n].name][last[n - 1]]
        BY <1>0, <3>1
      <3> QED
        BY <1>15, <3>2
    <2>4. n # 0
      BY <1>4, <2>2, <2>3
    <2>5. n - 1 \in 0 .. N /\ n \in 1 .. N /\ ~ (n <= n - 1)
      BY <1>1, <2>2, <2>4
    <2>6. last[n - 1] \in C /\ steps[n].name \in R
      BY <1>2, <2>2, <2>5
    <2>7. v[{}][steps[n].name][last[n - 1]] \in C
      BY <1>3, <1>6, <2>6
    <2> QED
      BY <2>2, <2>3, <2>4, <2>7
  <1>17. last \in T
    BY <1>5, <1>15, <1>16
  <1> QED
    BY <1>14, <1>15, <1>17 DEF C, N

LEMMA DepthsHold ==
    ASSUME NEW steps, IsSequence(steps), Scoring!Runnable(steps)
    PROVE  LET depths == Scoring!Depths(steps) IN
           \A i \in DOMAIN steps :
               /\ depths[steps[i].name] \in Nat
               /\ \A j \in Scoring!Reads(steps, i) : depths[steps[j].name] < depths[steps[i].name]
  <1> DEFINE R == Scoring!References(steps)
             N == Len(steps)
             v == Scoring!Visits(steps)
             depths == Scoring!Depths(steps)
  <1>1. N \in Nat /\ DOMAIN steps = 1 .. N
    BY DEF IsSequence
  <1>2. PICK a \in [0 .. N -> Caches(steps)] : a = CachesOf(steps, a) /\ depths = a[N]
    BY CachesHold
  <1>3. \A n \in 0 .. N : a[n] = IF n = 0 THEN [name \in R |-> 0]
                                 ELSE v[{}][steps[n].name][a[n - 1]]
    BY <1>2 DEF CachesOf
  <1> DEFINE Known(n) == Cached(steps, a[n]) /\ \A i \in 1 .. n : a[n][steps[i].name] > 0
             Bad == {n \in 0 .. N : ~ Known(n)}
  <1>4. \A i \in DOMAIN steps : steps[i].name \in R /\ Scoring!ByName(steps, steps[i].name) = i
    <2>1. ASSUME NEW i \in DOMAIN steps PROVE Scoring!ByName(steps, steps[i].name) = i
      <3>1. Scoring!ByName(steps, steps[i].name) # 0
        BY ByNameHolds
      <3> QED
        BY <3>1, ByNameHolds DEF Scoring!Runnable
    <2> QED
      BY <2>1, ReferencesHold
  <1>5. Bad = {}
    <2> SUFFICES ASSUME Bad # {} PROVE FALSE
      BY Zenon
    <2>1. Bad \in SUBSET Nat
      BY <1>1
    <2>2. PICK n \in Bad : \A m \in Bad : n <= m
      BY <2>1, LeastOf
    <2>3. n # 0
      <3> SUFFICES ASSUME n = 0 PROVE FALSE
        OBVIOUS
      <3>1. a[0] = [name \in R |-> 0]
        BY <1>1, <1>3
      <3>2. a[0] \in Caches(steps) /\ \A r \in R : ~ (a[0][r] > 0)
        BY <1>1, <3>1
      <3>3. Cached(steps, a[0])
        BY <3>2 DEF Cached
      <3> QED
        BY <2>2, <3>3
    <2>4. n - 1 \in 0 .. N /\ n \in 1 .. N /\ ~ (n <= n - 1)
      BY <1>1, <2>2, <2>3
    <2>5. Known(n - 1)
      BY <2>2, <2>4
    <2> DEFINE name == steps[n].name
    <2>6. name \in R /\ {} \in SUBSET R /\ a[n - 1] \in Caches(steps)
      BY <1>1, <1>4, <2>4
    <2>7. Adds(steps, {}, name, a[n - 1], v[{}][name][a[n - 1]])
      <3>1. Keeps(steps, v, {})
        BY VisitKeeps
      <3>2. Above(steps, {}, name)
        BY DEF Above
      <3> QED
        BY <2>5, <2>6, <3>1, <3>2 DEF Keeps
    <2>8. a[n] = v[{}][name][a[n - 1]]
      BY <1>3, <2>3, <2>4
    <2>9. Adds(steps, {}, name, a[n - 1], a[n])
      BY <2>7, <2>8
    <2>10. a[n][name] > 0
      <3>1. Scoring!ByName(steps, name) # 0
        BY <1>1, <1>4, <2>4
      <3> QED
        BY <2>9, <3>1 DEF Adds
    <2>11. ASSUME NEW i \in 1 .. n PROVE a[n][steps[i].name] > 0
      <3>1. CASE i = n
        BY <2>10, <3>1
      <3>2. CASE i # n
        <4>1. i \in 1 .. n - 1 /\ i \in DOMAIN steps
          BY <1>1, <2>4, <3>2
        <4>2. a[n - 1][steps[i].name] > 0 /\ steps[i].name \in R
          BY <1>4, <2>5, <4>1
        <4> QED
          BY <2>9, <4>2 DEF Adds
      <3> QED
        BY <3>1, <3>2
    <2>12. Known(n)
      BY <2>9, <2>11 DEF Adds
    <2> QED
      BY <2>2, <2>12
  <1>6. Known(N)
    BY <1>1, <1>5
  <1>7. ASSUME NEW i \in DOMAIN steps
        PROVE  /\ depths[steps[i].name] \in Nat
               /\ \A j \in Scoring!Reads(steps, i) : depths[steps[j].name] < depths[steps[i].name]
    <2>1. depths[steps[i].name] > 0 /\ depths \in Caches(steps)
      BY <1>1, <1>2, <1>6
    <2>2. \A p \in Scoring!Parents(steps[i]) : depths[p] < depths[steps[i].name]
      BY <1>2, <1>4, <1>6, <2>1 DEF Cached
    <2>3. \A j \in Scoring!Reads(steps, i) : steps[j].name \in Scoring!Parents(steps[i])
      BY DEF Scoring!Reads
    <2> QED
      BY <1>4, <2>1, <2>2, <2>3 DEF Caches
  <1> QED
    BY <1>7

(* What is read through others is less deep as well.                       *)
LEMMA UpstreamIsLessDeep ==
    ASSUME NEW steps, IsSequence(steps), Scoring!Runnable(steps),
           NEW i \in DOMAIN steps, NEW j \in Scoring!Upstream(steps)[i]
    PROVE  Scoring!Depths(steps)[steps[j].name] < Scoring!Depths(steps)[steps[i].name]
  <1> DEFINE Depth(k) == Scoring!Depths(steps)[steps[k].name]
             S == {k \in DOMAIN steps : Depth(k) < Depth(i)}
  <1>1. \A k \in DOMAIN steps : Scoring!Reads(steps, k) \subseteq DOMAIN steps
    BY DEF Scoring!Reads
  <1>2. \A k \in DOMAIN steps : Depth(k) \in Nat /\ \A l \in Scoring!Reads(steps, k) : Depth(l) < Depth(k)
    BY DepthsHold
  <1> HIDE DEF Depth
  <1>3. S \in SUBSET DOMAIN steps /\ Scoring!Reads(steps, i) \subseteq S
    BY <1>1, <1>2
  <1>4. \A k \in S : Scoring!Reads(steps, k) \subseteq S
    BY <1>1, <1>2
  <1>5. Scoring!Upstream(steps)[i] \subseteq S
    BY <1>3, <1>4, UpstreamHolds
  <1> QED
    BY <1>5 DEF Depth

(* The order of the steps has each once, none deeper before another.       *)
Deeper(steps, depths, i, j) ==
    \/ depths[steps[i].name] < depths[steps[j].name]
    \/ depths[steps[i].name] = depths[steps[j].name] /\ i < j

LEMMA SortedHolds ==
    ASSUME NEW steps, IsSequence(steps), NEW depths,
           \A i \in DOMAIN steps : depths[steps[i].name] \in Nat
    PROVE  \E order \in [1 .. Len(steps) -> 1 .. Len(steps)] :
               /\ Scoring!SortedBy(depths, steps) = [i \in 1 .. Len(steps) |-> steps[order[i]]]
               /\ \A i, j \in 1 .. Len(steps) : i < j => Deeper(steps, depths, order[i], order[j])
               /\ \A x \in 1 .. Len(steps) : \E i \in 1 .. Len(steps) : order[i] = x
  <1> DEFINE N == Len(steps)
             D == DOMAIN steps
             Depth(i) == depths[steps[i].name]
             before == {p \in D \X D : \/ Depth(p[1]) < Depth(p[2])
                                       \/ Depth(p[1]) = Depth(p[2]) /\ p[1] < p[2]}
             order == Scoring!InOrder(D, before)
  <1>1. N \in Nat /\ D = 1 .. N
    BY DEF IsSequence
  <1>2. \A i, j \in D : <<i, j>> \in before <=> Deeper(steps, depths, i, j)
    BY DEF Deeper
  <1>3. order = Sites!InOrder(D, before)
    BY Zenon DEF Scoring!InOrder, Sites!InOrder, Scoring!Cardinality, Sites!Cardinality
  <1>4. Scoring!SortedBy(depths, steps) = [i \in D |-> steps[order[i]]]
    BY Zenon DEF Scoring!SortedBy
  <1> HIDE DEF before, order, D
  <1>5. Orders(before, D)
    <2>1. \A i \in D : i \in Nat /\ Depth(i) \in Nat
      BY <1>1 DEF D
    <2> HIDE DEF Depth
    <2>2. \A i, j \in D : Deeper(steps, depths, i, j)
                            <=> (Depth(i) < Depth(j) \/ (Depth(i) = Depth(j) /\ i < j))
      BY DEF Deeper, Depth
    <2> QED
      BY <1>2, <2>1, <2>2 DEF Orders
  <1>6. IsFiniteSet(D) /\ Cardinality(D) = N
    <2> HIDE DEF N
    <2>1. IsFiniteSet(1 .. N) /\ Cardinality(1 .. N) = N
      BY <1>1, FS_Interval
    <2> QED
      BY <1>1, <2>1
  <1>7. /\ order \in [1 .. N -> D]
        /\ \A i, j \in 1 .. N : i < j => <<order[i], order[j]>> \in before
        /\ \A x \in D : \E i \in 1 .. N : order[i] = x
    BY <1>3, <1>5, <1>6, InOrderHolds
  <1>8. order \in [1 .. N -> 1 .. N] /\ \A x \in 1 .. N : \E i \in 1 .. N : order[i] = x
    BY <1>1, <1>7
  <1>9. \A i, j \in 1 .. N : i < j => Deeper(steps, depths, order[i], order[j])
    BY <1>2, <1>7
  <1> QED
    BY <1>1, <1>4, <1>8, <1>9

(* Each expected step takes the earliest that is left of its operation.    *)
Free(expected, steps, pairs, e) ==
    {i \in DOMAIN steps : /\ steps[i].operation = expected[e].operation
                          /\ \A d \in 1 .. e - 1 : pairs[d] # i}

PairsOf(expected, steps, pairs) ==
    [e \in DOMAIN expected |-> Scoring!Earliest(Free(expected, steps, pairs, e))]

LEMMA EarliestHolds ==
    ASSUME NEW free \in SUBSET (Nat \ {0})
    PROVE  /\ Scoring!Earliest(free) = 0 <=> free = {}
           /\ free # {} => Scoring!Earliest(free) \in free
           /\ \A i \in free : Scoring!Earliest(free) <= i
  <1>1. CASE free = {}
    BY <1>1 DEF Scoring!Earliest
  <1>2. CASE free # {}
    <2>1. \E i \in free : \A j \in free : i <= j
      BY <1>2, LeastOf
    <2>2. Scoring!Earliest(free) \in free /\ \A j \in free : Scoring!Earliest(free) <= j
      BY <1>2, <2>1 DEF Scoring!Earliest
    <2> QED
      BY <1>2, <2>2
  <1> QED
    BY <1>1, <1>2

LEMMA MatchesHold ==
    ASSUME NEW expected, IsSequence(expected), NEW steps
    PROVE  Scoring!MatchTransforms(expected, steps)
               = PairsOf(expected, steps, Scoring!MatchTransforms(expected, steps))
  <1> DEFINE N == Len(expected)
             Of(p) == PairsOf(expected, steps, p)
             Right(p, k) == \A e \in 1 .. N : e < k => p[e] = Of(p)[e]
             pairs == Scoring!MatchTransforms(expected, steps)
  <1>1. N \in Nat /\ DOMAIN expected = 1 .. N
    BY DEF IsSequence
  <1>2. \A p : Of(p) = [e \in 1 .. N |-> Scoring!Earliest(Free(expected, steps, p, e))]
    BY <1>1 DEF PairsOf
  <1>3. pairs = CHOOSE p : p = Of(p)
    BY Zenon DEF Scoring!MatchTransforms, PairsOf, Free
  <1> HIDE DEF N, Of, pairs
  <1>4. ASSUME NEW k \in Nat, NEW p, Right(p, k) PROVE Right(Of(p), k + 1)
    <2> DEFINE q == Of(p)
    <2> SUFFICES ASSUME NEW e \in 1 .. N, e < k + 1 PROVE q[e] = Of(q)[e]
      OBVIOUS
    <2>1. \A d \in 1 .. e - 1 : p[d] = q[d]
      <3>1. \A d \in 1 .. e - 1 : d \in 1 .. N /\ d < k
        BY <1>1
      <3> QED
        BY <1>4, <3>1
    <2>2. Free(expected, steps, p, e) = Free(expected, steps, q, e)
      <3> HIDE DEF q
      <3> QED
        BY <2>1 DEF Free
    <2>3. q[e] = Scoring!Earliest(Free(expected, steps, p, e))
      BY <1>2
    <2>4. Of(q)[e] = Scoring!Earliest(Free(expected, steps, q, e))
      BY <1>2
    <2> QED
      BY <2>2, <2>3, <2>4
  <1>5. \A k \in Nat : \E p : Right(p, k)
    <2> DEFINE Bad == {k \in Nat : ~ \E p : Right(p, k)}
    <2> SUFFICES ASSUME Bad # {} PROVE FALSE
      BY Zenon
    <2>1. \E p : Right(p, 0)
      <3>1. \A e \in 1 .. N : ~ (e < 0)
        BY <1>1
      <3> QED
        BY <3>1
    <2> HIDE DEF Right
    <2>2. PICK k \in Bad : \A n \in Bad : k <= n
      BY LeastOf
    <2>3. k \in Nat /\ k # 0 /\ ~ \E p : Right(p, k)
      BY <2>1, <2>2
    <2>4. k - 1 \in Nat /\ k - 1 \notin Bad /\ (k - 1) + 1 = k
      BY <2>2, <2>3
    <2>5. PICK p : Right(p, k - 1)
      BY <2>4
    <2>6. Right(Of(p), k)
      BY <1>4, <2>4, <2>5
    <2> QED
      BY <2>3, <2>6
  <1>6. \E p : p = Of(p)
    <2>1. PICK p : Right(p, N + 1)
      BY <1>1, <1>5
    <2> DEFINE q == Of(p)
    <2>2. \A e \in 1 .. N : p[e] = q[e]
      BY <1>1, <2>1
    <2> HIDE DEF q
    <2>3. ASSUME NEW e \in 1 .. N
          PROVE  Free(expected, steps, p, e) = Free(expected, steps, q, e)
      <3>1. \A d \in 1 .. e - 1 : d \in 1 .. N
        BY <1>1
      <3> QED
        BY <2>2, <3>1 DEF Free
    <2>4. [e \in 1 .. N |-> Scoring!Earliest(Free(expected, steps, p, e))]
            = [e \in 1 .. N |-> Scoring!Earliest(Free(expected, steps, q, e))]
      BY <2>3, Zenon
    <2>5. Of(p) = Of(q)
      BY <1>2, <2>4
    <2>6. q = Of(q)
      BY <2>5 DEF q
    <2> QED
      BY <2>6
  <1>7. pairs = Of(pairs)
    BY <1>3, <1>6
  <1> QED
    BY <1>7 DEF Of, pairs

(* An expected step takes a step of its operation, one no other takes; steps of
   just the expected operations, in their order, are taken one by one.     *)
PairsUp(expected, steps, pairs) ==
    /\ pairs \in [1 .. Len(expected) -> 0 .. Len(steps)]
    /\ \A e \in 1 .. Len(expected) : pairs[e] # 0 =>
           /\ pairs[e] \in DOMAIN steps
           /\ steps[pairs[e]].operation = expected[e].operation
           /\ \A d \in 1 .. e - 1 : pairs[d] # pairs[e]
    /\ (/\ Len(steps) = Len(expected)
        /\ \A e \in 1 .. Len(expected) : steps[e].operation = expected[e].operation)
           => \A e \in 1 .. Len(expected) : pairs[e] = e

LEMMA MatchesTake ==
    ASSUME NEW expected, IsSequence(expected), NEW steps, IsSequence(steps)
    PROVE  PairsUp(expected, steps, Scoring!MatchTransforms(expected, steps))
  <1> DEFINE N == Len(expected)
             M == Len(steps)
             pairs == Scoring!MatchTransforms(expected, steps)
             Left(e) == Free(expected, steps, pairs, e)
  <1>1. N \in Nat /\ DOMAIN expected = 1 .. N /\ M \in Nat /\ DOMAIN steps = 1 .. M
    BY DEF IsSequence
  <1>0. pairs = PairsOf(expected, steps, pairs)
    BY MatchesHold, Zenon
  <1> HIDE DEF pairs
  <1>2. pairs = [e \in 1 .. N |-> Scoring!Earliest(Left(e))]
    BY <1>0, <1>1 DEF PairsOf
  <1>3. \A e \in 1 .. N : Left(e) \in SUBSET (Nat \ {0}) /\ Left(e) \in SUBSET (1 .. M)
    BY <1>1 DEF Free
  <1>4. ASSUME NEW e \in 1 .. N
        PROVE  /\ pairs[e] = 0 <=> Left(e) = {}
               /\ pairs[e] # 0 => pairs[e] \in Left(e)
               /\ \A i \in Left(e) : pairs[e] <= i
    <2>1. pairs[e] = Scoring!Earliest(Left(e)) /\ Left(e) \in SUBSET (Nat \ {0})
      BY <1>2, <1>3
    <2> HIDE DEF Left
    <2> QED
      BY <2>1, EarliestHolds
  <1>5. pairs \in [1 .. N -> 0 .. M]
    <2>1. \A e \in 1 .. N : pairs[e] \in 0 .. M
      BY <1>1, <1>3, <1>4
    <2> QED
      BY <1>2, <2>1
  <1>6. ASSUME NEW e \in 1 .. N, pairs[e] # 0
        PROVE  /\ pairs[e] \in DOMAIN steps
               /\ steps[pairs[e]].operation = expected[e].operation
               /\ \A d \in 1 .. e - 1 : pairs[d] # pairs[e]
    BY <1>4, <1>6 DEF Free
  <1>7. ASSUME M = N, \A e \in 1 .. N : steps[e].operation = expected[e].operation
        PROVE  \A e \in 1 .. N : pairs[e] = e
    <2> DEFINE Bad == {e \in 1 .. N : pairs[e] # e}
    <2> SUFFICES ASSUME Bad # {} PROVE FALSE
      BY Zenon
    <2>1. Bad \in SUBSET Nat
      OBVIOUS
    <2>2. PICK e \in Bad : \A d \in Bad : e <= d
      BY <2>1, LeastOf
    <2>3. \A d \in 1 .. e - 1 : pairs[d] = d
      BY <1>1, <2>2
    <2>4. e \in Left(e)
      BY <1>1, <1>7, <2>2, <2>3 DEF Free
    <2>5. pairs[e] \in 1 .. N /\ pairs[e] <= e
      BY <1>1, <1>3, <1>4, <1>7, <2>2, <2>4
    <2>6. ~ (pairs[e] \in 1 .. e - 1)
      BY <1>6, <2>2, <2>3, <2>5
    <2> QED
      BY <1>1, <2>2, <2>5, <2>6
  <1> QED
    BY <1>5, <1>6, <1>7 DEF PairsUp, pairs

(* A score is full when all of the checks that it is put together of pass. *)
Passes(checks) == checks \in Seq(BOOLEAN) /\ \A i \in DOMAIN checks : checks[i]

LEMMA JoinPasses ==
    ASSUME NEW s, s \in Seq(BOOLEAN), NEW t, t \in Seq(BOOLEAN)
    PROVE  /\ s \o t \in Seq(BOOLEAN)
           /\ s # <<>> => s \o t # <<>>
           /\ Passes(s \o t) <=> Passes(s) /\ Passes(t)
  <1> DEFINE n == Len(s)
             m == Len(t)
             u == s \o t
  <1>1. /\ n \in Nat /\ m \in Nat /\ DOMAIN s = 1 .. n /\ DOMAIN t = 1 .. m
        /\ u \in Seq(BOOLEAN) /\ Len(u) = n + m /\ DOMAIN u = 1 .. n + m
    OBVIOUS
  <1>2. \A i \in 1 .. n : u[i] = s[i]
    OBVIOUS
  <1>3. \A i \in 1 .. m : u[n + i] = t[i]
    OBVIOUS
  <1>4. s # <<>> => u # <<>>
    <2>1. s # <<>> => n > 0
      OBVIOUS
    <2> QED
      BY <1>1, <2>1
  <1> HIDE DEF u, n, m
  <1>5. (\A i \in DOMAIN u : u[i]) <=> (\A i \in DOMAIN s : s[i]) /\ (\A i \in DOMAIN t : t[i])
    <2>1. ASSUME \A i \in DOMAIN u : u[i]
          PROVE  (\A i \in DOMAIN s : s[i]) /\ (\A i \in DOMAIN t : t[i])
      <3>1. \A i \in 1 .. n : i \in 1 .. n + m
        BY <1>1
      <3>2. \A i \in 1 .. m : n + i \in 1 .. n + m
        BY <1>1
      <3> QED
        BY <1>1, <1>2, <1>3, <2>1, <3>1, <3>2
    <2>2. ASSUME \A i \in DOMAIN s : s[i], \A i \in DOMAIN t : t[i], NEW i \in DOMAIN u
          PROVE  u[i]
      <3>1. CASE i \in 1 .. n
        BY <1>1, <1>2, <2>2, <3>1
      <3>2. CASE i \notin 1 .. n
        <4>1. i - n \in 1 .. m /\ n + (i - n) = i
          BY <1>1, <3>2
        <4> QED
          BY <1>1, <1>3, <2>2, <4>1
      <3> QED
        BY <3>1, <3>2
    <2> QED
      BY <2>1, <2>2
  <1> QED
    BY <1>1, <1>4, <1>5 DEF Passes, u

LEMMA OnePasses ==
    ASSUME NEW b \in BOOLEAN
    PROVE  <<b>> \in Seq(BOOLEAN) /\ <<b>> # <<>> /\ (Passes(<<b>>) <=> b)
  BY DEF Passes

LEMMA EachPasses ==
    ASSUME NEW n \in Nat, NEW checks \in [1 .. n -> BOOLEAN]
    PROVE  checks \in Seq(BOOLEAN) /\ (Passes(checks) <=> \A i \in 1 .. n : checks[i])
  <1>1. checks \in Seq(BOOLEAN) /\ DOMAIN checks = 1 .. n
    OBVIOUS
  <1> QED
    BY <1>1 DEF Passes

(* Every expected format finds one of its own.                             *)
Supplied(expected, formats) ==
    \A want \in Scoring!ToSet(expected) :
        Scoring!Times(expected, want) <= Scoring!Times(formats, want)

LEMMA FormatsPass ==
    ASSUME NEW expected, IsSequence(expected), NEW formats, IsSequence(formats)
    PROVE  /\ Scoring!FormatChecks(expected, formats) \in Seq(BOOLEAN)
           /\ Passes(Scoring!FormatChecks(expected, formats)) <=> Supplied(expected, formats)
  <1> DEFINE N == Len(expected)
             checks == Scoring!FormatChecks(expected, formats)
             Upto(i) == {j \in 1 .. i : expected[j] = expected[i]}
             All(want) == {i \in DOMAIN expected : expected[i] = want}
             There(want) == Scoring!Times(formats, want)
  <1>1. N \in Nat /\ DOMAIN expected = 1 .. N
    BY DEF IsSequence
  <1>2. checks = [i \in 1 .. N |-> Cardinality(Upto(i)) <= There(expected[i])]
    BY <1>1, Zenon DEF Scoring!FormatChecks, Scoring!Cardinality, Cardinality
  <1>3. \A want : Scoring!Times(expected, want) = Cardinality(All(want))
    BY Zenon DEF Scoring!Times, Scoring!Cardinality, Cardinality
  <1>4. \A want : There(want) \in Nat
    <2> TAKE want
    <2> DEFINE those == {i \in DOMAIN formats : formats[i] = want}
    <2>1. IsFiniteSet(DOMAIN formats)
      BY FS_Interval DEF IsSequence
    <2>2. those \subseteq DOMAIN formats
      OBVIOUS
    <2>3. Cardinality(those) \in Nat
      BY <2>1, <2>2, FS_Subset, FS_CardinalityType
    <2>4. There(want) = Cardinality(those)
      BY Zenon DEF Scoring!Times, Scoring!Cardinality, Cardinality
    <2> QED
      BY <2>3, <2>4
  <1>5. \A want : IsFiniteSet(All(want)) /\ Cardinality(All(want)) \in Nat
    <2> TAKE want
    <2>1. IsFiniteSet(DOMAIN expected)
      BY <1>1, FS_Interval
    <2>2. All(want) \subseteq DOMAIN expected
      OBVIOUS
    <2> QED
      BY <2>1, <2>2, FS_Subset, FS_CardinalityType
  <1>6. \A i \in 1 .. N : Upto(i) \subseteq All(expected[i])
    BY <1>1
  <1>7. \A i \in 1 .. N : /\ Cardinality(Upto(i)) \in Nat
                          /\ Cardinality(Upto(i)) <= Cardinality(All(expected[i]))
    <2> TAKE i \in 1 .. N
    <2>1. Upto(i) \subseteq All(expected[i]) /\ IsFiniteSet(All(expected[i]))
      BY <1>5, <1>6
    <2> HIDE DEF Upto, All
    <2> QED
      BY <2>1, FS_Subset, FS_CardinalityType
  <1> HIDE DEF checks, Upto, There
  <1>8. checks \in [1 .. N -> BOOLEAN]
    <2> DEFINE Ok(i) == Cardinality(Upto(i)) <= There(expected[i])
    <2>1. checks = [i \in 1 .. N |-> Ok(i)]
      BY <1>2
    <2>2. \A i \in 1 .. N : Ok(i) \in BOOLEAN
      <3> TAKE i \in 1 .. N
      <3> DEFINE x == Cardinality(Upto(i))
                 z == There(expected[i])
      <3>1. x \in Nat /\ z \in Nat
        BY <1>4, <1>7
      <3> HIDE DEF x, z
      <3>2. (x <= z) \in BOOLEAN
        BY <3>1
      <3> QED
        BY <3>2, Zenon DEF x, z
    <2> HIDE DEF Ok
    <2> QED
      BY <2>1, <2>2
  <1>9. ASSUME \A i \in 1 .. N : checks[i], NEW want \in Scoring!ToSet(expected)
        PROVE  Cardinality(All(want)) <= There(want)
    <2>1. All(want) \in SUBSET (0 .. N) /\ All(want) # {}
      BY <1>1 DEF Scoring!ToSet
    <2>2. PICK m \in All(want) : \A i \in All(want) : i <= m
      BY <1>1, <2>1, GreatestOf
    <2>3. m \in 1 .. N /\ expected[m] = want
      BY <1>1, <2>2
    <2>4. Upto(m) = All(want)
      BY <1>1, <2>2, <2>3 DEF Upto
    <2>5. Cardinality(Upto(m)) <= There(expected[m])
      BY <1>2, <1>9, <2>3
    <2> QED
      BY <2>3, <2>4, <2>5
  <1>10. ASSUME \A want \in Scoring!ToSet(expected) : Cardinality(All(want)) <= There(want),
                NEW i \in 1 .. N
         PROVE  checks[i]
    <2>1. expected[i] \in Scoring!ToSet(expected)
      BY <1>1 DEF Scoring!ToSet
    <2>2. Cardinality(All(expected[i])) <= There(expected[i])
      BY <1>10, <2>1
    <2> DEFINE x == Cardinality(Upto(i))
               y == Cardinality(All(expected[i]))
               z == There(expected[i])
    <2>3. x \in Nat /\ y \in Nat /\ z \in Nat /\ x <= y
      BY <1>4, <1>5, <1>7
    <2>4. checks[i] <=> x <= z
      BY <1>2
    <2>5. y <= z
      BY <2>2
    <2> HIDE DEF x, y, z
    <2>6. x <= z
      BY <2>3, <2>5
    <2> QED
      BY <2>4, <2>6, Zenon
  <1>11. (\A i \in 1 .. N : checks[i]) <=> Supplied(expected, formats)
    <2> HIDE DEF All, N
    <2>1. Supplied(expected, formats)
            <=> \A want \in Scoring!ToSet(expected) : Cardinality(All(want)) <= There(want)
      BY <1>3 DEF Supplied, There
    <2> QED
      BY <1>9, <1>10, <2>1
  <1> HIDE DEF N
  <1>12. checks \in Seq(BOOLEAN) /\ (Passes(checks) <=> \A i \in 1 .. N : checks[i])
    BY <1>1, <1>8, EachPasses
  <1> QED
    BY <1>11, <1>12 DEF checks

(* Every value that is asked for is the one of the step that was taken.    *)
Fits(task, steps, pairs, e) ==
    task.transforms[e].value # {} =>
        /\ pairs[e] # 0
        /\ Scoring!ValuesMatch(task.transforms[e].value, steps[pairs[e]].value,
                               task.transforms[e].tolerance)

LEMMA ParamsPass ==
    ASSUME NEW task, NEW steps, NEW n \in Nat, NEW pairs, DOMAIN pairs = 1 .. n
    PROVE  /\ Scoring!ParamChecks(task, steps, pairs) \in Seq(BOOLEAN)
           /\ Passes(Scoring!ParamChecks(task, steps, pairs))
                <=> \A e \in 1 .. n : Fits(task, steps, pairs, e)
  <1> DEFINE pinned == {e \in DOMAIN pairs : task.transforms[e].value # {}}
             order == Sites!Ascending(pinned)
             k == Cardinality(pinned)
             checks == Scoring!ParamChecks(task, steps, pairs)
             Good(e) == /\ pairs[e] # 0
                        /\ Scoring!ValuesMatch(task.transforms[e].value, steps[pairs[e]].value,
                                               task.transforms[e].tolerance)
  <1>1. pinned \in SUBSET Int /\ IsFiniteSet(pinned) /\ pinned \subseteq 1 .. n
    <2>1. IsFiniteSet(1 .. n) /\ pinned \subseteq 1 .. n
      BY FS_Interval
    <2> QED
      BY <2>1, FS_Subset
  <1>2. order = Scoring!InOrder(pinned, {p \in pinned \X pinned : p[1] < p[2]})
    BY Zenon DEF Scoring!InOrder, Sites!InOrder, Sites!Ascending,
                 Scoring!Cardinality, Sites!Cardinality
  <1>3. checks = [i \in DOMAIN order |-> Good(order[i])]
    BY <1>2, Zenon DEF Scoring!ParamChecks
  <1>4. \A e : Good(e) \in BOOLEAN
    BY DEF Scoring!ValuesMatch
  <1> HIDE DEF order, checks, Good, pinned
  <1>5. /\ k \in Nat /\ order \in [1 .. k -> pinned]
        /\ \A e \in pinned : \E i \in 1 .. k : order[i] = e
    BY <1>1, AscendingHolds DEF order
  <1> HIDE DEF k
  <1>6. checks \in [1 .. k -> BOOLEAN] /\ \A i \in 1 .. k : checks[i] = Good(order[i])
    BY <1>3, <1>4, <1>5
  <1>7. checks \in Seq(BOOLEAN) /\ (Passes(checks) <=> \A i \in 1 .. k : checks[i])
    BY <1>5, <1>6, EachPasses
  <1>8. (\A i \in 1 .. k : checks[i]) <=> \A e \in pinned : Good(e)
    BY <1>5, <1>6
  <1>9. (\A e \in pinned : Good(e)) <=> \A e \in 1 .. n : Fits(task, steps, pairs, e)
    BY DEF pinned, Good, Fits
  <1> QED
    BY <1>7, <1>8, <1>9 DEF checks

(* The steps that were taken come in the order that is expected.           *)
InTurn(task, pairs) ==
    Len(task.transforms) >= 2 /\ task.ordered =>
        /\ \A e \in DOMAIN pairs : pairs[e] # 0
        /\ \A e \in 1 .. Len(pairs) - 1 : pairs[e] <= pairs[e + 1]

LEMMA OrderPasses ==
    ASSUME NEW task, IsSequence(task.transforms), NEW pairs
    PROVE  /\ Scoring!OrderChecks(task, pairs) \in Seq(BOOLEAN)
           /\ Passes(Scoring!OrderChecks(task, pairs)) <=> InTurn(task, pairs)
  <1> DEFINE b == /\ \A e \in DOMAIN pairs : pairs[e] # 0
                  /\ \A e \in 1 .. Len(pairs) - 1 : pairs[e] <= pairs[e + 1]
             few == Len(task.transforms) < 2 \/ ~task.ordered
  <1>1. Scoring!OrderChecks(task, pairs) = IF few THEN <<>> ELSE <<b>>
    BY Zenon DEF Scoring!OrderChecks
  <1>2. Len(task.transforms) \in Nat
    BY DEF IsSequence
  <1>3. b \in BOOLEAN
    OBVIOUS
  <1>4. InTurn(task, pairs) <=> (~few => b)
    BY <1>2 DEF InTurn
  <1> HIDE DEF b, few
  <1>5. CASE few
    <2>1. <<>> \in Seq(BOOLEAN) /\ Passes(<<>>)
      BY DEF Passes
    <2> QED
      BY <1>1, <1>4, <1>5, <2>1
  <1>6. CASE ~few
    <2>1. <<b>> \in Seq(BOOLEAN) /\ (Passes(<<b>>) <=> b)
      BY <1>3, OnePasses
    <2> QED
      BY <1>1, <1>4, <1>6, <2>1
  <1> QED
    BY <1>5, <1>6

LEMMA PipelinePasses ==
    ASSUME NEW task, IsPipeline(task), NEW manifest, IsPipeline(manifest),
           manifest.parses = TRUE, NEW steps, IsSequence(steps),
           NEW pairs, DOMAIN pairs = DOMAIN task.transforms
    PROVE  Scoring!Perfect(Scoring!PipelineChecks(task, manifest, steps, pairs)) <=>
               /\ Supplied(task.sources, manifest.sources)
               /\ \A e \in DOMAIN pairs : pairs[e] # 0
               /\ InTurn(task, pairs)
               /\ \A e \in DOMAIN pairs : Fits(task, steps, pairs, e)
               /\ Supplied(task.sinks, manifest.sinks)
               /\ Scoring!Operations(steps) \subseteq Scoring!Operations(task.transforms)
  <1> DEFINE n == Len(task.transforms)
             a == <<manifest.parses>>
             b == Scoring!FormatChecks(task.sources, manifest.sources)
             c == [e \in DOMAIN pairs |-> pairs[e] # 0]
             d == Scoring!OrderChecks(task, pairs)
             f == Scoring!ParamChecks(task, steps, pairs)
             g == Scoring!FormatChecks(task.sinks, manifest.sinks)
             only == Scoring!Operations(steps) \subseteq Scoring!Operations(task.transforms)
             all == Scoring!PipelineChecks(task, manifest, steps, pairs)
  <1>1. n \in Nat /\ DOMAIN pairs = 1 .. n
    BY DEF IsPipeline, IsSequence
  <1>2. all = a \o b \o c \o d \o f \o g \o <<only>>
    BY Zenon DEF Scoring!PipelineChecks
  <1>3. a \in Seq(BOOLEAN) /\ a # <<>> /\ Passes(a)
    BY OnePasses
  <1>4. b \in Seq(BOOLEAN) /\ (Passes(b) <=> Supplied(task.sources, manifest.sources))
    BY FormatsPass DEF IsPipeline
  <1>5. c \in Seq(BOOLEAN) /\ (Passes(c) <=> \A e \in DOMAIN pairs : pairs[e] # 0)
    <2>1. c \in [1 .. n -> BOOLEAN]
      BY <1>1
    <2> HIDE DEF n
    <2>2. c \in Seq(BOOLEAN) /\ (Passes(c) <=> \A e \in 1 .. n : c[e])
      BY <1>1, <2>1, EachPasses
    <2>3. (\A e \in 1 .. n : c[e]) <=> \A e \in DOMAIN pairs : pairs[e] # 0
      BY <1>1
    <2> QED
      BY <2>2, <2>3
  <1>6. d \in Seq(BOOLEAN) /\ (Passes(d) <=> InTurn(task, pairs))
    BY OrderPasses DEF IsPipeline
  <1>7. f \in Seq(BOOLEAN) /\ (Passes(f) <=> \A e \in DOMAIN pairs : Fits(task, steps, pairs, e))
    BY <1>1, ParamsPass
  <1>8. g \in Seq(BOOLEAN) /\ (Passes(g) <=> Supplied(task.sinks, manifest.sinks))
    BY FormatsPass DEF IsPipeline
  <1>9. <<only>> \in Seq(BOOLEAN) /\ (Passes(<<only>>) <=> only)
    <2>1. only \in BOOLEAN
      OBVIOUS
    <2> HIDE DEF only
    <2> QED
      BY <2>1, OnePasses
  <1> DEFINE h == <<only>>
  <1> HIDE DEF a, b, c, d, f, g, h, all, only
  <1>10. h \in Seq(BOOLEAN) /\ (Passes(h) <=> only) /\ all = a \o b \o c \o d \o f \o g \o h
    BY <1>2, <1>9 DEF h
  <1>11. /\ a \o b \in Seq(BOOLEAN) /\ a \o b # <<>>
         /\ Passes(a \o b) <=> Passes(a) /\ Passes(b)
    BY <1>3, <1>4, JoinPasses
  <1>12. /\ a \o b \o c \in Seq(BOOLEAN) /\ a \o b \o c # <<>>
         /\ Passes(a \o b \o c) <=> Passes(a \o b) /\ Passes(c)
    BY <1>5, <1>11, JoinPasses
  <1>13. /\ a \o b \o c \o d \in Seq(BOOLEAN) /\ a \o b \o c \o d # <<>>
         /\ Passes(a \o b \o c \o d) <=> Passes(a \o b \o c) /\ Passes(d)
    BY <1>6, <1>12, JoinPasses
  <1>14. /\ a \o b \o c \o d \o f \in Seq(BOOLEAN) /\ a \o b \o c \o d \o f # <<>>
         /\ Passes(a \o b \o c \o d \o f) <=> Passes(a \o b \o c \o d) /\ Passes(f)
    BY <1>7, <1>13, JoinPasses
  <1>15. /\ a \o b \o c \o d \o f \o g \in Seq(BOOLEAN) /\ a \o b \o c \o d \o f \o g # <<>>
         /\ Passes(a \o b \o c \o d \o f \o g) <=> Passes(a \o b \o c \o d \o f) /\ Passes(g)
    BY <1>8, <1>14, JoinPasses
  <1>16. /\ all \in Seq(BOOLEAN) /\ all # <<>>
         /\ Passes(all) <=> Passes(a \o b \o c \o d \o f \o g) /\ Passes(h)
    BY <1>10, <1>15, JoinPasses
  <1>17. Scoring!Perfect(all) <=> Passes(all)
    BY <1>16, PerfectIsAll DEF Scoring!Perfect, Passes
  <1>18. Passes(all) <=> /\ Passes(a) /\ Passes(b) /\ Passes(c) /\ Passes(d)
                         /\ Passes(f) /\ Passes(g) /\ Passes(h)
    BY <1>11, <1>12, <1>13, <1>14, <1>15, <1>16, Zenon
  <1> QED
    BY <1>3, <1>4, <1>5, <1>6, <1>7, <1>8, <1>10, <1>17, <1>18, Zenon DEF all, only

(* Figures that do not fall, or that climb, from each to the next.         *)
LEMMA Climbs ==
    ASSUME NEW n \in Nat, NEW a, \A e \in 1 .. n : a[e] \in Nat, NEW c \in {0, 1},
           \A e \in 1 .. n - 1 : a[e] + c <= a[e + 1],
           NEW i \in 1 .. n, NEW j \in 1 .. n, i < j
    PROVE  a[i] + c <= a[j]
  <1> DEFINE Bad == {k \in 1 .. n : i < k /\ ~(a[i] + c <= a[k])}
  <1> SUFFICES ASSUME Bad # {} PROVE FALSE
    OBVIOUS
  <1>1. Bad \in SUBSET Nat
    OBVIOUS
  <1>2. PICK k \in Bad : \A l \in Bad : k <= l
    BY <1>1, LeastOf
  <1>3. k \in 1 .. n /\ i < k /\ ~(a[i] + c <= a[k]) /\ a[i] \in Nat /\ a[k] \in Nat
    OBVIOUS
  <1>4. CASE k = i + 1
    BY <1>3, <1>4
  <1>5. CASE k # i + 1
    <2>1. k - 1 \in 1 .. n - 1 /\ k - 1 \in 1 .. n /\ i < k - 1 /\ (k - 1) + 1 = k
      BY <1>3, <1>5
    <2>2. a[k - 1] \in Nat /\ a[k - 1] + c <= a[k]
      BY <2>1
    <2>3. k - 1 \notin Bad
      BY <1>2, <1>3
    <2>4. a[i] + c <= a[k - 1]
      BY <2>1, <2>3
    <2> HIDE DEF Bad
    <2> QED
      BY <1>3, <2>2, <2>4
  <1> QED
    BY <1>4, <1>5

(* A list of all the steps in which each is deeper than the one before.    *)
Lists(steps, depths, n, order) ==
    /\ n \in Nat /\ order \in [1 .. n -> 1 .. n]
    /\ \A x \in 1 .. n : depths[steps[x].name] \in Nat
    /\ \A i, j \in 1 .. n : i < j => Deeper(steps, depths, order[i], order[j])
    /\ \A x \in 1 .. n : \E i \in 1 .. n : order[i] = x

(* Two ways to list the same steps, each deeper than the last, are one.    *)
LEMMA SameOrder ==
    ASSUME NEW steps, NEW depths, NEW n,
           NEW f, Lists(steps, depths, n, f), NEW g, Lists(steps, depths, n, g)
    PROVE  f = g
  <1> DEFINE Bad == {i \in 1 .. n : f[i] # g[i]}
             D(x, y) == Deeper(steps, depths, x, y)
  <1>0. /\ n \in Nat /\ f \in [1 .. n -> 1 .. n] /\ g \in [1 .. n -> 1 .. n]
        /\ \A x \in 1 .. n : depths[steps[x].name] \in Nat
    BY Zenon DEF Lists
  <1> SUFFICES ASSUME Bad # {} PROVE FALSE
    <2>1. f = [i \in 1 .. n |-> f[i]] /\ g = [i \in 1 .. n |-> g[i]]
      BY <1>0
    <2>2. Bad = {} => \A i \in 1 .. n : f[i] = g[i]
      OBVIOUS
    <2>3. (\A i \in 1 .. n : f[i] = g[i]) => [i \in 1 .. n |-> f[i]] = [i \in 1 .. n |-> g[i]]
      OBVIOUS
    <2> QED
      BY <2>1, <2>2, <2>3
  <1>1. \A x, y \in 1 .. n : D(x, y) => ~D(y, x)
    <2> TAKE x, y \in 1 .. n
    <2> DEFINE a == depths[steps[x].name]
               b == depths[steps[y].name]
    <2>1. a \in Nat /\ b \in Nat /\ x \in Nat /\ y \in Nat
      BY <1>0
    <2>2. (D(x, y) <=> a < b \/ (a = b /\ x < y)) /\ (D(y, x) <=> b < a \/ (b = a /\ y < x))
      BY DEF D, Deeper
    <2> SUFFICES ASSUME D(x, y), D(y, x) PROVE FALSE
      OBVIOUS
    <2>3. (a < b \/ (a = b /\ x < y)) /\ (b < a \/ (b = a /\ y < x))
      BY <2>2, Zenon
    <2> HIDE DEF a, b, D
    <2> QED
      BY <2>1, <2>3
  <1>2. Bad \in SUBSET Nat
    BY <1>0
  <1>3. PICK m \in Bad : \A l \in Bad : m <= l
    BY <1>2, LeastOf
  <1>4. m \in 1 .. n /\ f[m] # g[m] /\ \A l \in 1 .. n : l < m => f[l] = g[l]
    BY <1>3
  <1> HIDE DEF Bad, D
  <1>5. /\ \A i, j \in 1 .. n : i < j => D(f[i], f[j])
        /\ \A i, j \in 1 .. n : i < j => D(g[i], g[j])
    BY DEF D, Lists
  <1>6. f[m] \in 1 .. n /\ g[m] \in 1 .. n /\ ~D(f[m], f[m]) /\ ~D(g[m], g[m])
    BY <1>0, <1>1, <1>4
  <1>7. PICK k \in 1 .. n : g[k] = f[m]
    BY <1>6, Zenon DEF Lists
  <1>8. PICK l \in 1 .. n : f[l] = g[m]
    BY <1>6, Zenon DEF Lists
  <1>9. m < k
    <2>1. k < m => f[k] = g[k] /\ D(f[k], f[m])
      BY <1>4, <1>5
    <2>2. k # m
      BY <1>4, <1>7
    <2>3. ~(k < m)
      BY <1>6, <1>7, <2>1
    <2> QED
      BY <1>4, <2>2, <2>3
  <1>10. m < l
    <2>1. l < m => f[l] = g[l] /\ D(g[l], g[m])
      BY <1>4, <1>5
    <2>2. l # m
      BY <1>4, <1>8
    <2>3. ~(l < m)
      BY <1>6, <1>8, <2>1
    <2> QED
      BY <1>4, <2>2, <2>3
  <1>11. D(g[m], g[k]) /\ D(f[m], f[l])
    BY <1>4, <1>5, <1>9, <1>10
  <1> QED
    BY <1>1, <1>6, <1>7, <1>8, <1>11

(* The sorted steps are the declared ones in an order that goes deeper.    *)
Sorts(steps, sorted, order) ==
    /\ IsSequence(sorted) /\ Len(sorted) = Len(steps)
    /\ \A i \in 1 .. Len(steps) : sorted[i] = steps[order[i]]
    /\ Lists(steps, Scoring!Depths(steps), Len(steps), order)

LEMMA TopologicalHolds ==
    ASSUME NEW steps, IsSequence(steps), Scoring!Runnable(steps)
    PROVE  \E order : Sorts(steps, Scoring!TopologicalTransforms(steps), order)
  <1> DEFINE n == Len(steps)
             sorted == Scoring!TopologicalTransforms(steps)
  <1>1. n \in Nat /\ DOMAIN steps = 1 .. n
    BY DEF IsSequence
  <1>2. \A i \in DOMAIN steps : Scoring!Depths(steps)[steps[i].name] \in Nat
    BY DepthsHold
  <1>3. PICK order \in [1 .. n -> 1 .. n] :
            /\ sorted = [i \in 1 .. n |-> steps[order[i]]]
            /\ \A i, j \in 1 .. n :
                   i < j => Deeper(steps, Scoring!Depths(steps), order[i], order[j])
            /\ \A x \in 1 .. n : \E i \in 1 .. n : order[i] = x
    BY <1>2, SortedHolds DEF Scoring!TopologicalTransforms
  <1> HIDE DEF n, sorted
  <1>4. sorted = [i \in 1 .. n |-> sorted[i]]
    BY <1>3
  <1>5. IsSequence(sorted)
    BY <1>1, <1>4, SequenceBy
  <1>6. DOMAIN sorted = 1 .. n /\ \A i \in 1 .. n : sorted[i] = steps[order[i]]
    BY <1>3
  <1>7. Len(sorted) = n
    BY <1>1, <1>5, <1>6 DEF IsSequence
  <1>8. Sorts(steps, sorted, order)
    BY <1>1, <1>2, <1>3, <1>5, <1>6, <1>7 DEF n, Sorts, Lists
  <1> QED
    BY <1>8 DEF sorted

(* A full score is a pipeline that runs the expected steps.                *)
LEMMA PerfectHasCast ==
    ASSUME NEW task, IsPipeline(task), NEW manifest, IsPipeline(manifest),
           manifest.parses = TRUE, Scoring!Runnable(manifest.transforms),
           Scoring!Perfect(Scoring!Matched(task, manifest,
                               Scoring!TopologicalTransforms(manifest.transforms)))
    PROVE  /\ Supplied(task.sources, manifest.sources) /\ Supplied(task.sinks, manifest.sinks)
           /\ \E f \in Scoring!Casts(task, manifest.transforms) :
                  task.ordered =>
                      \A e, later \in DOMAIN f :
                          e < later => f[later] \notin Scoring!Upstream(manifest.transforms)[f[e]]
  <1> DEFINE steps == manifest.transforms
             wanted == task.transforms
             n == Len(wanted)
             N == Len(steps)
             sorted == Scoring!TopologicalTransforms(steps)
             pairs == Scoring!MatchTransforms(wanted, sorted)
             depths == Scoring!Depths(steps)
             Depth(x) == depths[steps[x].name]
             up == Scoring!Upstream(steps)
  <1>1. /\ IsSequence(steps) /\ Len(steps) = N /\ N \in Nat /\ DOMAIN steps = 1 .. N
        /\ IsSequence(wanted) /\ n \in Nat /\ DOMAIN wanted = 1 .. n
    BY DEF IsPipeline, IsSequence
  <1>2. PICK order :
            /\ IsSequence(sorted) /\ Len(sorted) = N /\ DOMAIN sorted = 1 .. N
            /\ \A i \in 1 .. N : sorted[i] = steps[order[i]]
            /\ Lists(steps, depths, N, order)
    <2>1. PICK order : Sorts(steps, sorted, order)
      BY <1>1, TopologicalHolds
    <2>2. /\ IsSequence(sorted) /\ Len(sorted) = Len(steps)
          /\ \A i \in 1 .. Len(steps) : sorted[i] = steps[order[i]]
          /\ Lists(steps, depths, Len(steps), order)
      BY <2>1, Zenon DEF Sorts
    <2> HIDE DEF sorted, depths, steps, N
    <2>3. DOMAIN sorted = 1 .. Len(sorted)
      BY <2>2 DEF IsSequence
    <2> QED
      BY <1>1, <2>2, <2>3
  <1>3. /\ pairs \in [1 .. n -> 0 .. N]
        /\ \A e \in 1 .. n : pairs[e] # 0 =>
               /\ sorted[pairs[e]].operation = wanted[e].operation
               /\ \A d \in 1 .. e - 1 : pairs[d] # pairs[e]
    <2>1. /\ N = Len(sorted) /\ n = Len(wanted) /\ IsSequence(sorted) /\ IsSequence(wanted)
          /\ pairs = Scoring!MatchTransforms(wanted, sorted)
      BY <1>1, <1>2
    <2> HIDE DEF pairs, sorted, wanted, n, N
    <2>2. PairsUp(wanted, sorted, pairs)
      BY <2>1, MatchesTake
    <2> QED
      BY <2>1, <2>2 DEF PairsUp
  <1>4. /\ Supplied(task.sources, manifest.sources) /\ Supplied(task.sinks, manifest.sinks)
        /\ \A e \in 1 .. n : pairs[e] # 0
        /\ InTurn(task, pairs)
        /\ \A e \in 1 .. n : Fits(task, sorted, pairs, e)
    <2>0. IsSequence(sorted)
      BY <1>2
    <2>1. DOMAIN pairs = DOMAIN task.transforms
      BY <1>1, <1>3
    <2>2. Scoring!Perfect(Scoring!PipelineChecks(task, manifest, sorted, pairs))
      BY Zenon DEF Scoring!Matched
    <2> HIDE DEF pairs, sorted
    <2>3. /\ Supplied(task.sources, manifest.sources) /\ Supplied(task.sinks, manifest.sinks)
          /\ \A e \in DOMAIN pairs : pairs[e] # 0
          /\ InTurn(task, pairs)
          /\ \A e \in DOMAIN pairs : Fits(task, sorted, pairs, e)
      BY <2>0, <2>1, <2>2, PipelinePasses, Zenon
    <2> QED
      BY <1>1, <2>1, <2>3
  <1>5. \A x \in 1 .. N : Depth(x) \in Nat
    BY <1>1, DepthsHold
  <1>6. \A x \in 1 .. N : \A y \in up[x] : Depth(y) < Depth(x)
    BY <1>1, UpstreamIsLessDeep
  <1>7. \A i, j \in 1 .. N : i < j => \/ Depth(order[i]) < Depth(order[j])
                                      \/ Depth(order[i]) = Depth(order[j]) /\ order[i] < order[j]
    BY <1>2 DEF Deeper, Lists
  <1> DEFINE f == [e \in 1 .. n |-> order[pairs[e]]]
  <1>8. pairs \in [1 .. n -> 1 .. N]
    BY <1>3, <1>4
  <1> HIDE DEF pairs, sorted, depths, Depth, up, steps, wanted, n, N
  <1>9. f \in [1 .. n -> 1 .. N] /\ \A e \in 1 .. n : f[e] = order[pairs[e]]
    BY <1>2, <1>8 DEF Lists
  <1>10. \A e, later \in 1 .. n : e < later => pairs[e] # pairs[later]
    BY <1>1, <1>3, <1>4
  <1>11. \A i, j \in 1 .. N : i < j => order[i] # order[j]
    <2> TAKE i, j \in 1 .. N
    <2>1. order[i] \in 1 .. N /\ order[j] \in 1 .. N
      BY <1>2 DEF Lists
    <2> QED
      BY <1>5, <1>7, <2>1
  <1>12. \A e, later \in 1 .. n : e < later => f[e] # f[later]
    BY <1>1, <1>8, <1>9, <1>10, <1>11
  <1>13. Scoring!Injective(f)
    BY <1>1, <1>9, <1>12 DEF Scoring!Injective
  <1>14. \A e \in 1 .. n : sorted[pairs[e]] = steps[f[e]]
    BY <1>2, <1>8, <1>9
  <1>15. ASSUME NEW e \in 1 .. n
         PROVE  /\ steps[f[e]].operation = task.transforms[e].operation
                /\ task.transforms[e].value # {} =>
                       Scoring!ValuesMatch(task.transforms[e].value, steps[f[e]].value,
                                           task.transforms[e].tolerance)
    BY <1>3, <1>4, <1>14 DEF Fits, wanted
  <1>16. f \in Scoring!Casts(task, steps)
    BY <1>1, <1>9, <1>13, <1>15 DEF Scoring!Casts, wanted
  <1>17. ASSUME task.ordered, NEW e \in 1 .. n, NEW later \in 1 .. n, e < later
         PROVE  f[later] \notin up[f[e]]
    <2>1. Len(task.transforms) >= 2
      BY <1>1, <1>17 DEF n, wanted
    <2>2. DOMAIN pairs = 1 .. n /\ Len(pairs) = n
      BY <1>1, <1>8
    <2>3. \A d \in 1 .. n - 1 : pairs[d] <= pairs[d + 1]
      BY <1>4, <1>17, <2>1, <2>2 DEF InTurn
    <2>4. pairs[e] <= pairs[later]
      <3>1. \A d \in 1 .. n : pairs[d] \in Nat
        BY <1>8
      <3>2. \A d \in 1 .. n - 1 : pairs[d] + 0 <= pairs[d + 1]
        BY <1>1, <2>3, <3>1
      <3>3. pairs[e] + 0 <= pairs[later]
        BY <1>1, <1>17, <3>1, <3>2, Climbs
      <3> QED
        BY <3>1, <3>3
    <2>5. pairs[e] < pairs[later]
      BY <1>8, <1>10, <1>17, <2>4
    <2>6. Depth(f[e]) <= Depth(f[later])
      <3>1. pairs[e] \in 1 .. N /\ pairs[later] \in 1 .. N /\ f[e] \in 1 .. N /\ f[later] \in 1 .. N
        BY <1>8, <1>9
      <3>2. Depth(f[e]) \in Nat /\ Depth(f[later]) \in Nat
        BY <1>5, <3>1
      <3>3. Depth(f[e]) < Depth(f[later]) \/ Depth(f[e]) = Depth(f[later])
        BY <1>7, <1>9, <2>5, <3>1
      <3> QED
        BY <3>2, <3>3
    <2>7. f[e] \in 1 .. N /\ f[later] \in 1 .. N
      BY <1>9
    <2> QED
      BY <1>5, <1>6, <2>6, <2>7
  <1>18. DOMAIN f = 1 .. n
    OBVIOUS
  <1> HIDE DEF f
  <1> QED
    BY <1>4, <1>16, <1>17, <1>18 DEF steps, up

(* A chain of just the expected steps has a full score in any order.       *)
LEMMA ChainIsPerfect ==
    ASSUME NEW task, IsPipeline(task), NEW manifest, IsPipeline(manifest),
           manifest.parses = TRUE, Scoring!Runnable(manifest.transforms),
           Supplied(task.sources, manifest.sources), Supplied(task.sinks, manifest.sinks),
           Len(manifest.transforms) = Len(task.transforms),
           NEW f \in Scoring!Casts(task, manifest.transforms),
           \A e \in 2 .. Len(task.transforms) :
               manifest.transforms[f[e]].input = manifest.transforms[f[e - 1]].name
    PROVE  Scoring!Perfect(Scoring!Matched(task, manifest,
                               Scoring!TopologicalTransforms(manifest.transforms)))
  <1> DEFINE steps == manifest.transforms
             wanted == task.transforms
             n == Len(wanted)
             sorted == Scoring!TopologicalTransforms(steps)
             pairs == Scoring!MatchTransforms(wanted, sorted)
             depths == Scoring!Depths(steps)
             Depth(x) == depths[steps[x].name]
  <1>1. /\ IsSequence(steps) /\ Len(steps) = n /\ DOMAIN steps = 1 .. n
        /\ IsSequence(wanted) /\ n \in Nat /\ DOMAIN wanted = 1 .. n
    BY DEF IsPipeline, IsSequence
  <1>2. PICK order :
            /\ IsSequence(sorted) /\ Len(sorted) = n /\ DOMAIN sorted = 1 .. n
            /\ \A i \in 1 .. n : sorted[i] = steps[order[i]]
            /\ Lists(steps, depths, n, order)
    <2>1. PICK order : Sorts(steps, sorted, order)
      BY <1>1, TopologicalHolds
    <2>2. /\ IsSequence(sorted) /\ Len(sorted) = Len(steps)
          /\ \A i \in 1 .. Len(steps) : sorted[i] = steps[order[i]]
          /\ Lists(steps, depths, Len(steps), order)
      BY <2>1, Zenon DEF Sorts
    <2> HIDE DEF sorted, depths, steps, n
    <2>3. DOMAIN sorted = 1 .. Len(sorted)
      BY <2>2 DEF IsSequence
    <2> QED
      BY <1>1, <2>2, <2>3
  <1>3. /\ f \in [1 .. n -> 1 .. n]
        /\ \A i, j \in 1 .. n : f[i] = f[j] => i = j
        /\ \A e \in 1 .. n :
               /\ steps[f[e]].operation = wanted[e].operation
               /\ wanted[e].value # {} =>
                      Scoring!ValuesMatch(wanted[e].value, steps[f[e]].value, wanted[e].tolerance)
    BY <1>1 DEF Scoring!Casts, Scoring!Injective
  <1>4. \A x \in 1 .. n : Depth(x) \in Nat /\ \A y \in Scoring!Reads(steps, x) : Depth(y) < Depth(x)
    BY <1>1, DepthsHold
  <1>5. \A e \in 1 .. n - 1 : Depth(f[e]) < Depth(f[e + 1])
    <2> TAKE e \in 1 .. n - 1
    <2>1. e \in 1 .. n /\ e + 1 \in 2 .. n /\ e + 1 \in 1 .. n /\ (e + 1) - 1 = e
      BY <1>1
    <2>2. steps[f[e + 1]].input = steps[f[e]].name
      BY <2>1
    <2>3. f[e] \in 1 .. n /\ f[e + 1] \in 1 .. n
      BY <1>3, <2>1
    <2>4. f[e] \in Scoring!Reads(steps, f[e + 1])
      BY <1>1, <2>2, <2>3 DEF Scoring!Reads, Scoring!Parents
    <2> HIDE DEF Depth
    <2> QED
      BY <1>4, <2>3, <2>4
  <1>6. \A i, j \in 1 .. n : i < j => Deeper(steps, depths, f[i], f[j])
    <2> DEFINE a == [e \in 1 .. n |-> Depth(f[e])]
    <2> HIDE DEF Depth
    <2>1. \A e \in 1 .. n : a[e] \in Nat
      BY <1>3, <1>4
    <2>2. \A e \in 1 .. n - 1 : a[e] + 1 <= a[e + 1]
      <3> TAKE e \in 1 .. n - 1
      <3>1. e \in 1 .. n /\ e + 1 \in 1 .. n
        BY <1>1
      <3>2. a[e] < a[e + 1] /\ a[e] \in Nat /\ a[e + 1] \in Nat
        BY <1>5, <2>1, <3>1
      <3> QED
        BY <3>2
    <2> TAKE i, j \in 1 .. n
    <2> SUFFICES ASSUME i < j PROVE Deeper(steps, depths, f[i], f[j])
      OBVIOUS
    <2> HIDE DEF a
    <2>3. a[i] + 1 <= a[j]
      BY <1>1, <2>1, <2>2, Climbs
    <2>4. a[i] < a[j]
      BY <2>1, <2>3
    <2>5. Depth(f[i]) < Depth(f[j])
      BY <2>4 DEF a
    <2> QED
      BY <2>5 DEF Deeper, Depth
  <1>7. \A x \in 1 .. n : \E i \in 1 .. n : f[i] = x
    <2>1. IsFiniteSet(1 .. n)
      BY <1>1, FS_Interval
    <2>2. f \in [1 .. n -> 1 .. n] /\ DOMAIN f = 1 .. n /\ \A i, j \in DOMAIN f : f[i] = f[j] => i = j
      BY <1>3
    <2> HIDE DEF n
    <2>3. f \in Injection(1 .. n, 1 .. n)
      BY <2>2, Zenon DEF Injection, IsInjective
    <2>4. f \in Surjection(1 .. n, 1 .. n)
      BY <2>1, <2>3, FS_Injection
    <2> QED
      BY <2>4 DEF Surjection
  <1>8. f = order
    <2>1. \A x \in 1 .. n : depths[steps[x].name] \in Nat
      BY <1>4
    <2> HIDE DEF depths, n, steps
    <2>2. Lists(steps, depths, n, f)
      BY <1>1, <1>3, <1>6, <1>7, <2>1 DEF Lists
    <2> QED
      BY <1>2, <2>2, SameOrder
  <1>9. \A e \in 1 .. n : sorted[e] = steps[f[e]]
    BY <1>2, <1>8
  <1>10. \A e \in 1 .. n : sorted[e].operation = wanted[e].operation
    BY <1>3, <1>9
  <1>11. pairs \in [1 .. n -> 0 .. n] /\ \A e \in 1 .. n : pairs[e] = e
    <2>1. /\ n = Len(sorted) /\ n = Len(wanted) /\ IsSequence(sorted) /\ IsSequence(wanted)
          /\ pairs = Scoring!MatchTransforms(wanted, sorted)
      BY <1>1, <1>2
    <2> HIDE DEF pairs, sorted, wanted, n
    <2>2. PairsUp(wanted, sorted, pairs)
      BY <2>1, MatchesTake
    <2> QED
      BY <1>10, <2>1, <2>2 DEF PairsUp
  <1> HIDE DEF pairs, sorted, steps, wanted, n, depths, Depth
  <1>12. \A e \in 1 .. n : pairs[e] # 0
    BY <1>1, <1>11
  <1>13. InTurn(task, pairs)
    <2>1. Len(pairs) = n
      BY <1>1, <1>11
    <2>2. \A e \in 1 .. n - 1 : pairs[e] <= pairs[e + 1]
      <3> TAKE e \in 1 .. n - 1
      <3>1. e \in 1 .. n /\ e + 1 \in 1 .. n
        BY <1>1
      <3>2. pairs[e] = e /\ pairs[e + 1] = e + 1
        BY <1>11, <3>1
      <3> QED
        BY <3>1, <3>2
    <2> QED
      BY <1>11, <1>12, <2>1, <2>2 DEF InTurn
  <1>14. \A e \in 1 .. n : Fits(task, sorted, pairs, e)
    BY <1>3, <1>9, <1>11, <1>12 DEF Fits, wanted
  <1>15. Scoring!Operations(sorted) \subseteq Scoring!Operations(task.transforms)
    BY <1>1, <1>2, <1>10 DEF Scoring!Operations, wanted
  <1>16. DOMAIN pairs = DOMAIN task.transforms
    BY <1>1, <1>11 DEF wanted
  <1>17. Scoring!Perfect(Scoring!PipelineChecks(task, manifest, sorted, pairs))
    BY <1>2, <1>11, <1>12, <1>13, <1>14, <1>15, <1>16, PipelinePasses
  <1> QED
    BY <1>17, Zenon DEF Scoring!Matched, pairs, sorted, steps, wanted

LEMMA PipelineScorePromised == ScoringInv => Scoring!PerfectIsThePipeline
  <1> DEFINE steps == answer.transforms
             wanted == question.transforms
             up == Scoring!Upstream(steps)
             casts == Scoring!Casts(question, steps)
             formats == \A kind \in {"sources", "sinks"} :
                            \A want \in Scoring!ToSet(question[kind]) :
                                Scoring!Times(question[kind], want)
                                    <= Scoring!Times(answer[kind], want)
  <1> SUFFICES ASSUME ScoringInv, result # Scoring!Unscored, question \in GoldenTasks,
                      answer.parses, question.unavailable = Scoring!Absent,
                      Scoring!Runnable(steps)
               PROVE  /\ Scoring!Perfect(result) =>
                             /\ formats
                             /\ \E f \in casts :
                                    question.ordered =>
                                        \A e, later \in DOMAIN f :
                                            e < later => f[later] \notin up[f[e]]
                      /\ (/\ formats
                          /\ Len(steps) = Len(wanted)
                          /\ \E f \in casts : \A e \in 2 .. Len(wanted) :
                                 steps[f[e]].input = steps[f[e - 1]].name)
                             => Scoring!Perfect(result)
    BY Zenon DEF Scoring!PerfectIsThePipeline
  <1>1. answer \in ModelAnswers
    BY ResultAssumption DEF ScoringInv
  <1>2. IsPipeline(question) /\ IsPipeline(answer) /\ answer.parses = TRUE
    BY <1>1, ResultAssumption
  <1>3. result = Scoring!Matched(question, answer, Scoring!TopologicalTransforms(steps))
    BY DEF ScoringInv, Scoring!ScoreManifest
  <1>4. formats <=> Supplied(question.sources, answer.sources) /\ Supplied(question.sinks, answer.sinks)
    BY DEF Supplied
  <1>5. ASSUME Scoring!Perfect(result)
        PROVE  /\ formats
               /\ \E f \in casts :
                      question.ordered =>
                          \A e, later \in DOMAIN f : e < later => f[later] \notin up[f[e]]
    <2> HIDE DEF formats
    <2> QED
      BY <1>2, <1>3, <1>4, <1>5, PerfectHasCast
  <1>6. ASSUME formats, Len(steps) = Len(wanted),
               NEW f \in casts,
               \A e \in 2 .. Len(wanted) : steps[f[e]].input = steps[f[e - 1]].name
        PROVE  Scoring!Perfect(result)
    <2> HIDE DEF formats
    <2> QED
      BY <1>2, <1>3, <1>4, <1>6, ChainIsPerfect
  <1> QED
    BY <1>5, <1>6
=============================================================================
