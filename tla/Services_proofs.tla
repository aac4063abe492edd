--------------------------- MODULE Services_proofs ---------------------------
(***************************************************************************)
(* The two parts that ask services outside the backend.  Recommendations   *)
(* are honest for any number of requests, any history and whatever         *)
(* service, gateway and provider reply.  Scans report the repository       *)
(* whatever it holds, whoever pushes to it and however long its manifests  *)
(* are.                                                                    *)
(***************************************************************************)
EXTENDS AiRecommendation, RepositoryScan, TLAPS, FiniteSetTheorems,
        SequenceTheorems, WellFoundedInduction

Providers == {"nvidia", "openai"}

\* A request is where its provider allows it to be, and holds an answer when it
\* has been answered and not before.
StageSound(ask) ==
  /\ ask.at \in {"warm", "post", "posted", "replied"} =>
       deployment.configured /\ deployment.provider = "nvidia"
  /\ ask.at = "openai" => deployment.configured /\ deployment.provider = "openai"
  /\ ask.at # "answered" => ask.answer = None

\* A refusal has no body; the second question follows the gateway's refusal.
ReplySound(reply) == reply.status = 200 \/ reply = Failure(reply.status)
PostSound(ask) ==
  /\ ask.at \in {"history", "warm"} => ask.posts = 0 /\ ask.reply = None
  /\ ask.at = "post" => \/ ask.posts = 0
                        \/ ask.posts = 1 /\ ask.reply = Failure(502)
  /\ ask.at = "posted" => ask.reply = None
  /\ ask.at = "replied" => ask.reply \in Replies /\ ReplySound(ask.reply)
  /\ ask.posts = 2 => ask.earlier = Failure(502)

AnswerSound(ask) ==
  LET shown == ask.answer IN
  /\ shown \in Answers
  /\ shown.sla = GetSlaHours(shown.recommendation.priority)
  /\ shown.provider # "rules" =>
       /\ deployment.provider = shown.provider /\ deployment.configured
       /\ shown.label = shown.provider
  /\ shown.provider = "rules" =>
       /\ shown.label \notin Providers /\ StandsInFor(shown.label) = deployment.provider
       /\ shown.recommendation = GenerateWithRules(ask.question)
  /\ shown.sources = Cardinality(ask.sources)

\* What is true of a request on its own, whatever the others do.
AskSound(ask) ==
  /\ ask \in AskRow
  /\ ask.at = "history" => ask.sources = {}
  /\ ask.at # "history" => CitesTheNewest(ask)
  /\ StageSound(ask) /\ PostSound(ask)
  /\ ask.at = "answered" => AnswerSound(ask)

AiInv ==
  /\ deployment \in Deployments /\ past \in [PastActions -> PastAction]
  /\ asks \in [AiRequests -> AskRow \cup {None}]
  /\ \A r \in AiRequests : asks[r] # None => AskSound(asks[r])

-----------------------------------------------------------------------------
(* Operators *)

\* A nonempty set of numbers has a least one.
LEMMA Least ==
  ASSUME NEW S \in SUBSET Nat, S # {}
  PROVE  \E x \in S : \A y \in S : x <= y
<1>1. PICK x \in S : \A y \in S : <<y, x>> \notin OpToRel(<, Nat)
  BY NatLessThanWellFounded, WFMin, Zenon
<1>2. ASSUME NEW y \in S PROVE x <= y
  <2>1. ~(y < x)
    BY <1>1 DEF OpToRel
  <2> QED BY <2>1
<1> QED BY <1>2

\* However many past actions are relevant, three of them are retrieved at most.
LEMMA NewestAreFew ==
  ASSUME NEW found \in SUBSET PastActions
  PROVE  Newest(found) \in SUBSET PastActions /\ Cardinality(Newest(found)) <= MaxSources
<1> DEFINE new == Newest(found)
           Newer(p) == {n \in found : n > p}
<1>1. new \in SUBSET Nat /\ new \in SUBSET PastActions /\ new \subseteq found
  BY AiAssumption DEF Newest
<1>2. IsFiniteSet(found) /\ IsFiniteSet(new)
  BY <1>1, FS_Subset, AiAssumption
<1>3. ASSUME new = {} PROVE Cardinality(new) <= MaxSources
  BY <1>3, FS_EmptySet DEF MaxSources
<1>4. ASSUME new # {} PROVE Cardinality(new) <= MaxSources
  <2>1. PICK p \in new : \A y \in new : p <= y
    BY <1>1, <1>4, Least
  <2>2. new \ {p} \in SUBSET Newer(p)
    BY <1>1, <2>1
  <2>3. IsFiniteSet(Newer(p)) /\ Cardinality(Newer(p)) < MaxSources
    <3>1. Newer(p) \in SUBSET found
      OBVIOUS
    <3> QED BY <3>1, <1>2, FS_Subset, <2>1 DEF Newest
  <2>4. Cardinality(new \ {p}) <= Cardinality(Newer(p))
    BY <2>2, <2>3, FS_Subset
  <2>5. Cardinality(new \ {p}) = Cardinality(new) - 1
    BY <2>1, <1>2, FS_RemoveElement
  <2>6. Cardinality(new) \in Nat /\ Cardinality(Newer(p)) \in Nat
    BY <1>2, <2>3, FS_CardinalityType
  <2> HIDE DEF new, Newer
  <2> QED BY <2>3, <2>4, <2>5, <2>6 DEF MaxSources
<1> QED BY <1>1, <1>3, <1>4

\* An action is left out only if three newer ones are retrieved.  Of the actions
\* left out take one with the fewest newer ones: these are all retrieved.
LEMMA LeftOutOnlyByNewer ==
  ASSUME NEW found \in SUBSET PastActions, NEW n \in found \ Newest(found)
  PROVE  /\ Cardinality(Newest(found)) = MaxSources
         /\ \A p \in Newest(found) : n < p
<1> DEFINE new == Newest(found)
           Newer(p) == {m \in found : m > p}
           Counts == {Cardinality(Newer(m)) : m \in found \ new}
<1>1. /\ found \in SUBSET Nat /\ new \subseteq found /\ IsFiniteSet(found)
      /\ \A m \in found : m \in new <=> Cardinality(Newer(m)) < MaxSources
  BY AiAssumption, FS_Subset DEF Newest
<1>2. ASSUME NEW m \in found
      PROVE  IsFiniteSet(Newer(m)) /\ Cardinality(Newer(m)) \in Nat
  <2>1. Newer(m) \in SUBSET found
    OBVIOUS
  <2> QED BY <1>1, <2>1, FS_Subset, FS_CardinalityType
<1>3. ASSUME NEW p \in new PROVE n < p
  <2>1. SUFFICES ASSUME ~(n < p) PROVE FALSE
    OBVIOUS
  <2>2. n > p
    <3>1. n \in Nat /\ p \in Nat /\ n # p
      BY <1>1
    <3> QED BY <2>1, <3>1
  <2>3. Newer(n) \in SUBSET Newer(p)
    <3>1. ASSUME NEW m \in found, m > n PROVE m > p
      <4>1. m \in Nat /\ n \in Nat /\ p \in Nat
        BY <1>1
      <4> QED BY <2>2, <3>1, <4>1
    <3> QED BY <3>1
  <2>4. Cardinality(Newer(n)) <= Cardinality(Newer(p))
    BY <1>1, <1>2, <2>3, FS_Subset
  <2>5. Cardinality(Newer(p)) < MaxSources /\ ~(Cardinality(Newer(n)) < MaxSources)
    BY <1>1
  <2>6. Cardinality(Newer(p)) \in Nat /\ Cardinality(Newer(n)) \in Nat
    BY <1>1, <1>2
  <2> HIDE DEF new, Newer
  <2> QED BY <2>4, <2>5, <2>6 DEF MaxSources
<1>4. Counts \in SUBSET Nat /\ Counts # {}
  BY <1>2
<1>5. PICK least \in Counts : \A y \in Counts : least <= y
  BY <1>4, Least
<1>6. PICK last \in found \ new : Cardinality(Newer(last)) = least
  BY <1>5
<1>7. Newer(last) \in SUBSET new
  <2>1. SUFFICES ASSUME NEW m \in Newer(last), m \notin new PROVE FALSE
    OBVIOUS
  <2>2. m \in found /\ m > last /\ Newer(m) \in SUBSET (Newer(last) \ {m})
    <3>1. m \in found /\ m > last
      OBVIOUS
    <3>2. ASSUME NEW x \in found, x > m PROVE x > last /\ x # m
      <4>1. x \in Nat /\ m \in Nat /\ last \in Nat
        BY <1>1, <3>1
      <4> QED BY <3>1, <3>2, <4>1
    <3> QED BY <3>1, <3>2
  <2>3. Cardinality(Newer(last) \ {m}) = Cardinality(Newer(last)) - 1
    <3>1. IsFiniteSet(Newer(last)) /\ m \in Newer(last)
      BY <1>2
    <3> HIDE DEF Newer
    <3> QED BY <3>1, FS_RemoveElement
  <2>4. Cardinality(Newer(m)) <= Cardinality(Newer(last) \ {m})
    <3>1. IsFiniteSet(Newer(last) \ {m})
      BY <1>2, FS_RemoveElement
    <3> QED BY <2>2, <3>1, FS_Subset
  <2>5. least <= Cardinality(Newer(m))
    BY <1>5, <2>1, <2>2
  <2>6. Cardinality(Newer(last)) \in Nat /\ Cardinality(Newer(m)) \in Nat
    BY <1>2, <2>2
  <2> HIDE DEF new, Newer, Counts
  <2> QED BY <1>6, <2>3, <2>4, <2>5, <2>6
<1>8. Cardinality(new) = MaxSources
  <2>1. IsFiniteSet(new) /\ Cardinality(new) \in Nat
    BY <1>1, FS_Subset, FS_CardinalityType
  <2>2. Cardinality(Newer(last)) <= Cardinality(new)
    BY <1>7, <2>1, FS_Subset
  <2>3. Cardinality(Newer(last)) \in Nat /\ ~(Cardinality(Newer(last)) < MaxSources)
    BY <1>1, <1>2, <1>6
  <2>4. Cardinality(new) <= MaxSources
    BY NewestAreFew
  <2> HIDE DEF new, Newer
  <2> QED BY <2>1, <2>2, <2>3, <2>4 DEF MaxSources
<1> QED BY <1>3, <1>8

\* What a request retrieves it may cite, and it retrieves the newest.
LEMMA RetrievedAreTheNewest ==
  ASSUME NEW ask, ask.sources = Newest(Relevant(ask.question))
  PROVE  CitesTheNewest(ask)
<1> DEFINE found == Relevant(ask.question)
           new == Newest(found)
<1>1. found \in SUBSET PastActions /\ new \subseteq found
  BY DEF Relevant, Newest
<1>2. Cardinality(new) <= MaxSources
  BY <1>1, NewestAreFew
<1>3. \A p \in PastActions : p \in found <=> Citable(p, ask.question)
  BY DEF Relevant, Citable
<1>4. \A n \in found \ new : Cardinality(new) = MaxSources /\ \A p \in new : n < p
  BY <1>1, LeftOutOnlyByNewer
<1> HIDE DEF found, new
<1>5. ask.sources = new
  BY DEF found, new
<1> QED BY <1>1, <1>2, <1>3, <1>4, <1>5 DEF CitesTheNewest

\* The rules engine answers with a recommendation, and every priority has hours.
LEMMA RulesRecommend ==
  ASSUME NEW q \in Question PROVE GenerateWithRules(q) \in Recommendation
BY DEF GenerateWithRules, RulesPriority, RulesAction, Recommendation, Priorities,
       ActionTypes

LEMMA SlaHours ==
  ASSUME NEW priority \in Priorities PROVE GetSlaHours(priority) \in {24, 72, 168, 336}
BY DEF GetSlaHours, Priorities

\* A refusal is a reply.
LEMMA FailureIsReply ==
  ASSUME NEW status \in {200, 401, 422, 500, 502, 503}
  PROVE  Failure(status) \in Replies /\ ReplySound(Failure(status))
BY DEF Failure, Replies, ReplySound

-----------------------------------------------------------------------------
(* Steps *)

LEMMA InitAi == AiInit => AiInv
BY AiAssumption DEF AiInit, AiInv

\* A step of one request leaves the others as they are.
LEMMA GoKeeps ==
  ASSUME AiInv, NEW r \in AiRequests, NEW state, Go(r, state), AskSound(state)
  PROVE  AiInv'
<1>1. deployment' = deployment /\ past' = past /\ asks' = [asks EXCEPT ![r] = state]
  BY DEF Go
<1>2. state \in AskRow
  BY DEF AskSound
<1>3. asks' \in [AiRequests -> AskRow \cup {None}]
  BY <1>1, <1>2 DEF AiInv
<1>4. ASSUME NEW x, AskSound(x) PROVE AskSound(x)'
  BY <1>1, <1>4 DEF AskSound, StageSound, PostSound, AnswerSound, CitesTheNewest, Citable
<1>5. ASSUME NEW s \in AiRequests, asks'[s] # None PROVE AskSound(asks[s])'
  <2>1. AskSound(asks'[s])
    BY <1>1, <1>5 DEF AiInv
  <2> DEFINE x == asks'[s]
  <2>2. PICK y : y = asks'[s]
    OBVIOUS
  <2>3. AskSound(y) BY <2>1, <2>2
  <2>4. AskSound(y)' BY <2>3, <1>4
  <2> QED BY <2>2, <2>4 DEF AskSound, StageSound, PostSound, AnswerSound, CitesTheNewest,
                            Citable
<1> QED BY <1>1, <1>3, <1>5 DEF AiInv

LEMMA ReceiveStep ==
  ASSUME AiInv, NEW r \in AiRequests, NEW q \in Asked, ReceiveQuestion(r, q)
  PROVE  AiInv'
<1>1. NewAsk(q) \in AskRow
  BY DEF NewAsk, AskRow, Stages
<1>2. AskSound(NewAsk(q))
  BY <1>1 DEF AskSound, NewAsk, StageSound, PostSound
<1> QED BY <1>2, GoKeeps DEF ReceiveQuestion

\* What a request holds while it is served.
LEMMA AskKnown ==
  ASSUME AiInv, NEW r \in AiRequests, NEW stage, At(r, stage)
  PROVE  /\ asks[r] \in AskRow /\ AskSound(asks[r]) /\ asks[r].at = stage
         /\ asks[r].question \in Question /\ deployment \in Deployment
BY AiAssumption DEF AiInv, At, AskRow

LEMMA RetrieveStep ==
  ASSUME AiInv, NEW r \in AiRequests, RetrieveVerifiedHistory(r)
  PROVE  AiInv'
<1> DEFINE ask == asks[r]
           found == Newest(Relevant(ask.question))
           new == [ask EXCEPT !.at = FirstStage, !.sources = found]
<1>1. ask \in AskRow /\ AskSound(ask) /\ ask.at = "history"
  BY AskKnown DEF RetrieveVerifiedHistory
<1>2. found \in SUBSET PastActions
  BY DEF Relevant, Newest
<1>3. /\ FirstStage \in {"warm", "openai", "rules"}
      /\ FirstStage = "warm" => deployment.configured /\ deployment.provider = "nvidia"
      /\ FirstStage = "openai" => deployment.configured /\ deployment.provider = "openai"
  BY DEF FirstStage
<1>4. AskSound(new)
  <2>1. new \in AskRow
    BY <1>1, <1>2, <1>3 DEF AskRow, Stages
  <2>2. new.sources = found /\ new.question = ask.question
    BY <1>1 DEF AskRow
  <2>3. CitesTheNewest(new)
    BY <2>2, RetrievedAreTheNewest
  <2>4. StageSound(new) /\ PostSound(new) /\ new.at \notin {"history", "answered"}
    BY <1>1, <1>3 DEF AskRow, AskSound, StageSound, PostSound
  <2> HIDE DEF new
  <2> QED BY <2>1, <2>3, <2>4 DEF AskSound
<1>5. Go(r, new)
  BY DEF RetrieveVerifiedHistory, Ask
<1> HIDE DEF new
<1> QED BY <1>4, <1>5, GoKeeps

LEMMA WarmStep ==
  ASSUME AiInv, NEW r \in AiRequests, Warm(r)
  PROVE  AiInv'
<1> DEFINE ask == asks[r]
           new == [ask EXCEPT !.at = "post"]
<1>1. ask \in AskRow /\ AskSound(ask) /\ ask.at = "warm"
  BY AskKnown DEF Warm
<1>2. AskSound(new)
  <2>1. new \in AskRow
    BY <1>1, Zenon DEF AskRow, Stages
  <2> QED BY <1>1, <2>1 DEF AskRow, AskSound, StageSound, PostSound, CitesTheNewest
<1>3. Go(r, new)
  BY DEF Warm, Ask
<1> HIDE DEF new
<1> QED BY <1>2, <1>3, GoKeeps

LEMMA PostStep ==
  ASSUME AiInv, NEW r \in AiRequests, Post(r)
  PROVE  AiInv'
<1> DEFINE ask == asks[r]
           new == [ask EXCEPT !.at = "posted", !.posts = @ + 1,
                              !.earlier = ask.reply, !.reply = None]
<1>1. ask \in AskRow /\ AskSound(ask) /\ ask.at = "post"
  BY AskKnown DEF Post
<1>2. ask.posts = 0 \/ (ask.posts = 1 /\ ask.reply = Failure(502))
  BY <1>1 DEF AskSound, PostSound
<1>3. new \in AskRow
  <2>1. ask.posts + 1 \in 0 .. 2
    BY <1>2
  <2>2. ask.reply \in Replies \cup {None}
    BY <1>1 DEF AskRow
  <2> QED BY <1>1, <2>1, <2>2, Zenon DEF AskRow, Stages
<1>4. AskSound(new)
  BY <1>1, <1>2, <1>3 DEF AskRow, AskSound, StageSound, PostSound, CitesTheNewest
<1>5. Go(r, new)
  BY DEF Post, Ask
<1> HIDE DEF new
<1> QED BY <1>4, <1>5, GoKeeps

\* Only the refusal of the gateway has status 502.
LEMMA RetryStep ==
  ASSUME AiInv, NEW r \in AiRequests, Retry(r)
  PROVE  AiInv'
<1> DEFINE ask == asks[r]
           new == [ask EXCEPT !.at = "post"]
<1>1. ask \in AskRow /\ AskSound(ask) /\ ask.at = "replied"
  BY AskKnown DEF Retry
<1>2. ask.posts \in {0, 1} /\ ask.reply = Failure(502)
  BY <1>1 DEF Retry, Again, Ask, AskSound, PostSound, ReplySound, AskRow
<1>3. new \in AskRow
  BY <1>1 DEF AskRow, Stages
<1>4. AskSound(new)
  BY <1>1, <1>2, <1>3 DEF AskRow, AskSound, StageSound, PostSound, CitesTheNewest
<1>5. Go(r, new)
  BY DEF Retry, Ask
<1> HIDE DEF new
<1> QED BY <1>4, <1>5, GoKeeps

\* An answer is shown with the hours of its priority and the number of sources.
LEMMA AnsweredKeeps ==
  ASSUME AiInv, NEW r \in AiRequests, NEW stage \in Stages \ {"history", "answered"},
         At(r, stage),
         NEW recommendation \in Recommendation,
         NEW label \in {"nvidia", "openai", "rules", "nvidia fallback", "openai fallback"},
         NEW provider \in {"nvidia", "openai", "rules"},
         provider # "rules" => /\ deployment.provider = provider /\ deployment.configured
                               /\ label = provider,
         provider = "rules" => /\ label \notin Providers
                               /\ StandsInFor(label) = deployment.provider
                               /\ recommendation = GenerateWithRules(asks[r].question),
         Answered(r, recommendation, label, provider)
  PROVE  AiInv'
<1> DEFINE ask == asks[r]
           shown == WithMetadata(recommendation, label, provider, ask.sources)
           new == [ask EXCEPT !.at = "answered", !.reply = None, !.answer = shown]
<1>1. ask \in AskRow /\ AskSound(ask)
        /\ ask.at \notin {"history", "answered"}
  BY AskKnown
<1>2. Cardinality(ask.sources) \in Nat
  BY <1>1, FS_Subset, FS_CardinalityType, AiAssumption DEF AskRow
<1>3. GetSlaHours(recommendation.priority) \in {24, 72, 168, 336}
  BY SlaHours DEF Recommendation
<1>4. shown \in Answers
  BY <1>2, <1>3 DEF WithMetadata, Answers
<1>5. new \in AskRow
  BY <1>1, <1>4, Zenon DEF AskRow, Stages
<1>6. /\ new.answer = shown /\ new.question = ask.question /\ new.sources = ask.sources
      /\ new.at = "answered" /\ new.posts = ask.posts /\ new.earlier = ask.earlier
  BY <1>1 DEF AskRow
<1>7. AnswerSound(new)
  <2>1. /\ shown.sla = GetSlaHours(shown.recommendation.priority)
        /\ shown.recommendation = recommendation /\ shown.label = label
        /\ shown.provider = provider /\ shown.sources = Cardinality(ask.sources)
    BY DEF WithMetadata
  <2> HIDE DEF shown, new
  <2> QED BY <1>4, <1>6, <2>1 DEF AnswerSound
<1>8. AskSound(new)
  BY <1>1, <1>5, <1>6, <1>7 DEF AskSound, StageSound, PostSound, CitesTheNewest
<1>9. Go(r, new)
  BY DEF Answered, Ask
<1> HIDE DEF new
<1> QED BY <1>8, <1>9, GoKeeps

LEMMA UseNvidiaStep ==
  ASSUME AiInv, NEW r \in AiRequests, UseNvidia(r)
  PROVE  AiInv'
<1>1. AskSound(asks[r]) /\ asks[r].at = "replied" /\ At(r, "replied")
  BY AskKnown DEF UseNvidia
<1>2. deployment.provider = "nvidia" /\ deployment.configured
  BY <1>1 DEF AskSound, StageSound
<1>3. asks[r].reply.body \in Recommendation
  BY DEF UseNvidia, NvidiaSucceeds, ValidateRecommendation, Ask
<1>4. Answered(r, asks[r].reply.body, "nvidia", "nvidia")
  BY DEF UseNvidia, Ask
<1> QED BY <1>1, <1>2, <1>3, <1>4, AnsweredKeeps DEF Stages

LEMMA UseOpenAiStep ==
  ASSUME AiInv, NEW r \in AiRequests, UseOpenAi(r)
  PROVE  AiInv'
<1>1. AskSound(asks[r]) /\ asks[r].at = "openai" /\ At(r, "openai")
  BY AskKnown DEF UseOpenAi
<1>2. deployment.provider = "openai" /\ deployment.configured
  BY <1>1 DEF AskSound, StageSound
<1>3. PICK body \in Said : Answered(r, body, "openai", "openai")
  BY DEF UseOpenAi
<1>4. body \in Recommendation
  BY AiAssumption
<1> QED BY <1>1, <1>2, <1>3, <1>4, AnsweredKeeps DEF Stages

LEMMA UseRulesStep ==
  ASSUME AiInv, NEW r \in AiRequests, UseRules(r)
  PROVE  AiInv'
<1>1. At(r, "rules") /\ asks[r].question \in Question /\ deployment \in Deployment
  BY AskKnown DEF UseRules
<1>2. GenerateWithRules(asks[r].question) \in Recommendation
  BY <1>1, RulesRecommend
<1>3. RulesLabel \in {"rules", "nvidia fallback", "openai fallback"}
      /\ StandsInFor(RulesLabel) = deployment.provider
  BY <1>1 DEF RulesLabel, StandsInFor, Deployment
<1>4. Answered(r, GenerateWithRules(asks[r].question), RulesLabel, "rules")
  BY DEF UseRules, Ask
<1> HIDE DEF RulesLabel
<1> QED BY <1>1, <1>2, <1>3, <1>4, AnsweredKeeps DEF Stages, Providers

LEMMA FailNvidiaStep ==
  ASSUME AiInv, NEW r \in AiRequests, FailNvidia(r)
  PROVE  AiInv'
<1> DEFINE ask == asks[r]
           new == [ask EXCEPT !.at = "rules", !.reply = None]
<1>1. ask \in AskRow /\ AskSound(ask) /\ ask.at = "replied"
  BY AskKnown DEF FailNvidia
<1>2. AskSound(new)
  <2>1. new \in AskRow
    BY <1>1, Zenon DEF AskRow, Stages
  <2> QED BY <1>1, <2>1 DEF AskRow, AskSound, StageSound, PostSound, CitesTheNewest
<1>3. Go(r, new)
  BY DEF FailNvidia, Ask
<1> HIDE DEF new
<1> QED BY <1>2, <1>3, GoKeeps

LEMMA LoseNvidiaStep ==
  ASSUME AiInv, NEW r \in AiRequests, LoseNvidia(r)
  PROVE  AiInv'
<1> DEFINE ask == asks[r]
           new == [ask EXCEPT !.at = "rules"]
<1>1. ask \in AskRow /\ AskSound(ask) /\ ask.at = "posted"
  BY AskKnown DEF LoseNvidia
<1>2. AskSound(new)
  <2>1. new \in AskRow
    BY <1>1, Zenon DEF AskRow, Stages
  <2> QED BY <1>1, <2>1 DEF AskRow, AskSound, StageSound, PostSound, CitesTheNewest
<1>3. Go(r, new)
  BY DEF LoseNvidia, Ask
<1> HIDE DEF new
<1> QED BY <1>2, <1>3, GoKeeps

LEMMA FailOpenAiStep ==
  ASSUME AiInv, NEW r \in AiRequests, FailOpenAi(r)
  PROVE  AiInv'
<1> DEFINE ask == asks[r]
           new == [ask EXCEPT !.at = "rules"]
<1>1. ask \in AskRow /\ AskSound(ask) /\ ask.at = "openai"
  BY AskKnown DEF FailOpenAi
<1>2. AskSound(new)
  <2>1. new \in AskRow
    BY <1>1, Zenon DEF AskRow, Stages
  <2> QED BY <1>1, <2>1 DEF AskRow, AskSound, StageSound, PostSound, CitesTheNewest
<1>3. Go(r, new)
  BY DEF FailOpenAi, Ask
<1> HIDE DEF new
<1> QED BY <1>2, <1>3, GoKeeps

\* Whatever comes back to a request that waits for it is a sound reply.
LEMMA RepliedKeeps ==
  ASSUME AiInv, NEW r \in AiRequests, At(r, "posted"),
         NEW reply \in Replies, ReplySound(reply),
         Go(r, [Ask(r) EXCEPT !.at = "replied", !.reply = reply])
  PROVE  AiInv'
<1> DEFINE ask == asks[r]
           new == [ask EXCEPT !.at = "replied", !.reply = reply]
<1>1. ask \in AskRow /\ AskSound(ask) /\ ask.at = "posted"
  BY AskKnown
<1>2. new \in AskRow
  BY <1>1, Zenon DEF AskRow, Stages
<1>3. AskSound(new)
  BY <1>1, <1>2 DEF AskRow, AskSound, StageSound, PostSound, CitesTheNewest
<1>4. Go(r, new)
  BY DEF Ask
<1> HIDE DEF new
<1> QED BY <1>3, <1>4, GoKeeps

LEMMA ServiceStep ==
  ASSUME AiInv, NEW r \in AiRequests, ServiceReplies(r)
  PROVE  AiInv'
<1>1. PICK said \in Said \cup {Nonsense} :
        Go(r, [Ask(r) EXCEPT !.at = "replied", !.reply = Serve(Ask(r), said)])
  BY DEF ServiceReplies
<1>2. Serve(Ask(r), said) \in Replies /\ ReplySound(Serve(Ask(r), said))
  <2>1. ASSUME said # Nonsense
        PROVE  [status |-> 200, body |-> said] \in Replies
    BY <2>1, AiAssumption DEF Replies
  <2> QED BY <2>1, FailureIsReply DEF Serve, Unavailable, ReplySound
<1> QED BY <1>1, <1>2, RepliedKeeps DEF ServiceReplies

LEMMA GatewayStep ==
  ASSUME AiInv, NEW r \in AiRequests, GatewayReplies(r)
  PROVE  AiInv'
<1>1. PICK status \in {200, 502} :
        Go(r, [Ask(r) EXCEPT !.at = "replied", !.reply = Failure(status)])
  BY DEF GatewayReplies
<1>2. Failure(status) \in Replies /\ ReplySound(Failure(status))
  BY FailureIsReply
<1> QED BY <1>1, <1>2, RepliedKeeps DEF GatewayReplies

LEMMA AiStep ==
  AiInv /\ [AiNext]_aiVars => AiInv'
<1> SUFFICES ASSUME AiInv, [AiNext]_aiVars PROVE AiInv'
  OBVIOUS
<1>1. ASSUME UNCHANGED aiVars PROVE AiInv'
  <2>1. asks' = asks /\ deployment' = deployment /\ past' = past
    BY <1>1 DEF aiVars
  <2> QED BY <2>1 DEF AiInv, AskSound, StageSound, PostSound, AnswerSound, CitesTheNewest,
                   Citable
<1>2. ASSUME NEW r \in AiRequests, NEW q \in Asked, ReceiveQuestion(r, q) PROVE AiInv'
  BY <1>2, ReceiveStep
<1>3. ASSUME NEW r \in AiRequests, Handle(r) PROVE AiInv'
  BY <1>3, RetrieveStep, WarmStep, PostStep, RetryStep, UseNvidiaStep, FailNvidiaStep,
     LoseNvidiaStep, UseOpenAiStep, FailOpenAiStep, UseRulesStep, ServiceStep, GatewayStep
     DEF Handle
<1> QED BY <1>1, <1>2, <1>3 DEF AiNext

-----------------------------------------------------------------------------
(* What follows *)

LEMMA InvHonest ==
  ASSUME AiInv PROVE AnswersAreHonest
<1> SUFFICES ASSUME NEW r \in AiRequests, IsAnswered(r)
             PROVE  LET shown == Ask(r).answer IN
                    /\ shown.recommendation \in Recommendation
                    /\ shown.provider # "rules" =>
                         /\ deployment.provider = shown.provider /\ deployment.configured
                         /\ shown.label = shown.provider
                    /\ shown.provider = "rules" =>
                         /\ shown.label \notin {"nvidia", "openai"}
                         /\ StandsInFor(shown.label) = deployment.provider
                         /\ shown.recommendation = GenerateWithRules(Ask(r).question)
                    /\ shown.sources = Cardinality(Ask(r).sources)
                    /\ CitesTheNewest(Ask(r))
  BY DEF AnswersAreHonest
<1>1. AnswerSound(asks[r]) /\ CitesTheNewest(asks[r])
  BY AskKnown DEF IsAnswered, AskSound
<1> QED BY <1>1 DEF AnswerSound, Answers, Ask, Providers

LEMMA InvRetried ==
  ASSUME AiInv PROVE RetriedAfterGatewayOnly
BY DEF AiInv, AskSound, PostSound, RetriedAfterGatewayOnly, Ask

\* With the same knowledge of fixes the rules give a public exploit the priority
\* that no other exploit exceeds.
LEMMA InvExploit ==
  ASSUME AiInv PROVE ExploitNeverDelays
<1> SUFFICES ASSUME NEW r \in AiRequests, NEW s \in AiRequests,
                    IsAnswered(r), IsAnswered(s),
                    Ask(r).answer.provider = "rules", Ask(s).answer.provider = "rules",
                    Ask(r).question.fix = Ask(s).question.fix,
                    Ask(r).question.exploit = "PUBLIC_EXPLOIT_AVAILABLE"
             PROVE  Ask(r).answer.sla <= Ask(s).answer.sla
  BY DEF ExploitNeverDelays
<1>1. ASSUME NEW t \in AiRequests, IsAnswered(t), Ask(t).answer.provider = "rules"
      PROVE  Ask(t).answer.sla = GetSlaHours(RulesPriority(Ask(t).question))
  <2> DEFINE shown == Ask(t).answer
  <2>1. AnswerSound(asks[t])
    BY <1>1, AskKnown DEF IsAnswered, AskSound
  <2>2. /\ shown.sla = GetSlaHours(shown.recommendation.priority)
        /\ shown.recommendation = GenerateWithRules(Ask(t).question)
    BY <1>1, <2>1 DEF AnswerSound, Ask
  <2>3. GenerateWithRules(Ask(t).question).priority = RulesPriority(Ask(t).question)
    BY DEF GenerateWithRules
  <2> QED BY <2>2, <2>3
<1>2. RulesPriority(Ask(s).question) \in Priorities
  BY DEF RulesPriority, Priorities
<1>3. GetSlaHours(RulesPriority(Ask(s).question)) \in {24, 72, 168, 336}
  BY <1>2, SlaHours
<1>4. CASE Ask(r).question.fix = "NO_FIX_AVAILABLE"
  <2>1. RulesPriority(Ask(r).question) = "High" /\ RulesPriority(Ask(s).question) = "High"
    BY <1>4 DEF RulesPriority
  <2> QED BY <1>1, <2>1, <1>3
<1>5. CASE Ask(r).question.fix # "NO_FIX_AVAILABLE"
  <2>1. RulesPriority(Ask(r).question) = "Critical"
    BY <1>5 DEF RulesPriority
  <2>2. GetSlaHours("Critical") = 24
    BY DEF GetSlaHours
  <2> QED BY <1>1, <1>3, <2>1, <2>2
<1> QED BY <1>4, <1>5

\* Requests, history and deployment keep their types.
THEOREM AiTypes == AiSpec => []AiTypeOK
<1>1. AiInit => AiInv
  BY InitAi
<1>2. AiInv /\ [AiNext]_aiVars => AiInv'
  BY AiStep
<1>3. AiInv => AiTypeOK
  BY DEF AiInv, AiTypeOK, AskSound
<1> QED BY <1>1, <1>2, <1>3, PTL DEF AiSpec

\* Whatever service, gateway and provider reply, an answer names who gave it or
\* whom the rules stand in for, is well formed and cites the newest verified
\* actions of the caller's organization on the same vulnerability or software; a
\* model is asked again only after the gateway refused, and a public exploit
\* never gets a finding more time.
THEOREM HonestRecommendations ==
  AiSpec => []RecommendationsAreHonest
<1>1. AiInit => AiInv
  BY InitAi
<1>2. AiInv /\ [AiNext]_aiVars => AiInv'
  BY AiStep
<1>3. AiInv => RecommendationsAreHonest
  BY InvHonest, InvRetried, InvExploit DEF RecommendationsAreHonest
<1> QED BY <1>1, <1>2, <1>3, PTL DEF AiSpec

-----------------------------------------------------------------------------
(* Lists of dependencies *)

\* Entries at the same place are the same entry.
PlacesApart(list) == \A e, f \in list : e.place = f.place => e = f

\* A list the handler works on.
DependencyList(list) == list \in SUBSET Entries /\ IsFiniteSet(list) /\ PlacesApart(list)

\* The entries of a list are in one order.
LEMMA BeforeIsAnOrder ==
  /\ \A e \in Entries : ~Before(e, e)
  /\ \A e, f, g \in Entries : Before(e, f) /\ Before(f, g) => Before(e, g)
  /\ \A e, f \in Entries : Before(e, f) \/ Before(f, e) \/ e.place = f.place
<1>1. \A e \in Entries : /\ e.place[1] \in Nat /\ e.place[2] \in Nat
                         /\ e.place = <<e.place[1], e.place[2]>>
  BY DEF Entries
<1> QED BY <1>1 DEF Before

\* What a function takes a finite set to is finite and no larger.
LEMMA FiniteImage ==
  ASSUME NEW S, IsFiniteSet(S), NEW h, DOMAIN h = S,
         NEW T, T = {h[x] : x \in S}
  PROVE  IsFiniteSet(T) /\ Cardinality(T) <= Cardinality(S)
         /\ ((\A x, y \in S : h[x] = h[y] => x = y) => Cardinality(T) = Cardinality(S))
<1>1. ASSUME NEW U, U = [x \in S |-> h[x]] PROVE U \in Surjection(S, T)
  BY <1>1 DEF Surjection
<1> DEFINE U == [x \in S |-> h[x]]
<1>2. U \in Surjection(S, T)
  BY <1>1
<1>3. (\A x, y \in S : h[x] = h[y] => x = y) => U \in Injection(S, T)
  BY <1>2 DEF Surjection, Injection, IsInjective
<1> HIDE DEF U
<1> QED BY <1>2, <1>3, FS_Surjection

\* A list that is not empty has a first entry and a last one.
LEMMA FirstExists ==
  ASSUME NEW list \in SUBSET Entries, IsFiniteSet(list), list # {}
  PROVE  \E e \in list : \A f \in list : ~Before(f, e)
<1> DEFINE Below(e) == {f \in list : Before(f, e)}
           sizes == {Cardinality(Below(e)) : e \in list}
<1>1. \A e \in list : IsFiniteSet(Below(e)) /\ Cardinality(Below(e)) \in Nat
  <2> TAKE e \in list
  <2>1. Below(e) \in SUBSET list
    OBVIOUS
  <2>2. IsFiniteSet(Below(e))
    BY <2>1, FS_Subset
  <2> QED BY <2>2, FS_CardinalityType
<1>2. sizes \in SUBSET Nat /\ sizes # {}
  BY <1>1
<1>3. PICK e \in list : \A f \in list : Cardinality(Below(e)) <= Cardinality(Below(f))
  <2>1. PICK size \in sizes : \A other \in sizes : size <= other
    <3> HIDE DEF sizes
    <3> QED BY <1>2, Least
  <2> QED BY <2>1
<1>4. ASSUME NEW f \in list, Before(f, e) PROVE FALSE
  <2>1. Below(f) \in SUBSET Below(e) /\ f \in Below(e) /\ f \notin Below(f)
    BY <1>4, BeforeIsAnOrder
  <2>2. Cardinality(Below(f)) <= Cardinality(Below(e)) /\ Below(f) # Below(e)
    BY <1>1, <2>1, FS_Subset
  <2>3. Cardinality(Below(f)) # Cardinality(Below(e))
    BY <1>1, <2>1, <2>2, FS_Subset
  <2> HIDE DEF Below
  <2> QED BY <1>1, <1>3, <2>2, <2>3
<1> QED BY <1>4

LEMMA LastExists ==
  ASSUME NEW list \in SUBSET Entries, IsFiniteSet(list), list # {}
  PROVE  \E e \in list : \A f \in list : ~Before(e, f)
<1> DEFINE Above(e) == {f \in list : Before(e, f)}
           sizes == {Cardinality(Above(e)) : e \in list}
<1>1. \A e \in list : IsFiniteSet(Above(e)) /\ Cardinality(Above(e)) \in Nat
  <2> TAKE e \in list
  <2>1. Above(e) \in SUBSET list
    OBVIOUS
  <2>2. IsFiniteSet(Above(e))
    BY <2>1, FS_Subset
  <2> QED BY <2>2, FS_CardinalityType
<1>2. sizes \in SUBSET Nat /\ sizes # {}
  BY <1>1
<1>3. PICK e \in list : \A f \in list : Cardinality(Above(e)) <= Cardinality(Above(f))
  <2>1. PICK size \in sizes : \A other \in sizes : size <= other
    <3> HIDE DEF sizes
    <3> QED BY <1>2, Least
  <2> QED BY <2>1
<1>4. ASSUME NEW f \in list, Before(e, f) PROVE FALSE
  <2>1. Above(f) \in SUBSET Above(e) /\ f \in Above(e) /\ f \notin Above(f)
    BY <1>4, BeforeIsAnOrder
  <2>2. Cardinality(Above(f)) <= Cardinality(Above(e)) /\ Above(f) # Above(e)
    BY <1>1, <2>1, FS_Subset
  <2>3. Cardinality(Above(f)) # Cardinality(Above(e))
    BY <1>1, <2>1, <2>2, FS_Subset
  <2> HIDE DEF Above
  <2> QED BY <1>1, <1>3, <2>2, <2>3
<1> QED BY <1>4

\* slice(0, n) returns n entries, or the whole list if it has no more.
LEMMA LeadingEntries ==
  ASSUME NEW list, DependencyList(list), NEW n \in Nat
  PROVE  /\ Leading(list, n) \in SUBSET list
         /\ Cardinality(Leading(list, n)) <= n
         /\ Cardinality(list) <= n => Leading(list, n) = list
         /\ Cardinality(list) > n => Cardinality(Leading(list, n)) = n
<1> DEFINE Below(e) == {f \in list : Before(f, e)}
<1>1. Leading(list, n) = {e \in list : Cardinality(Below(e)) < n}
  BY DEF Leading
<1>2. /\ IsFiniteSet(list) /\ Cardinality(list) \in Nat
      /\ IsFiniteSet(Leading(list, n)) /\ Cardinality(Leading(list, n)) \in Nat
  BY <1>1, FS_Subset, FS_CardinalityType DEF DependencyList
<1>3. \A e \in list : /\ IsFiniteSet(Below(e)) /\ Cardinality(Below(e)) \in Nat
                      /\ Below(e) \in SUBSET (list \ {e})
  <2> TAKE e \in list
  <2>1. Below(e) \in SUBSET list /\ e \notin Below(e)
    BY BeforeIsAnOrder DEF DependencyList
  <2>2. IsFiniteSet(Below(e))
    BY <1>2, <2>1, FS_Subset
  <2> QED BY <2>1, <2>2, FS_CardinalityType
<1>4. Cardinality(Leading(list, n)) <= n
  <2>1. CASE Leading(list, n) = {}
    BY <2>1, FS_EmptySet
  <2>2. CASE Leading(list, n) # {}
    <3>1. PICK e \in Leading(list, n) : \A f \in Leading(list, n) : ~Before(e, f)
      BY <1>1, <1>2, <2>2, LastExists DEF DependencyList
    <3>2. Leading(list, n) \ {e} \in SUBSET Below(e)
      BY <1>1, <3>1, BeforeIsAnOrder DEF DependencyList, PlacesApart
    <3>3. Cardinality(Leading(list, n) \ {e}) = Cardinality(Leading(list, n)) - 1
      BY <1>2, <3>1, FS_RemoveElement
    <3>4. e \in list /\ Cardinality(Below(e)) < n
      BY <1>1, <3>1
    <3>5. Cardinality(Leading(list, n) \ {e}) <= Cardinality(Below(e))
      BY <1>3, <3>2, <3>4, FS_Subset
    <3> HIDE DEF Below
    <3> QED BY <1>2, <1>3, <3>3, <3>4, <3>5
  <2> QED BY <2>1, <2>2
<1>5. ASSUME Cardinality(list) <= n, NEW e \in list PROVE Cardinality(Below(e)) < n
  <2>1. /\ IsFiniteSet(list \ {e})
        /\ Cardinality(list \ {e}) = Cardinality(list) - 1
    BY <1>2, FS_RemoveElement
  <2>2. Cardinality(Below(e)) <= Cardinality(list \ {e})
    BY <1>3, <2>1, FS_Subset
  <2> HIDE DEF Below
  <2> QED BY <1>2, <1>3, <1>5, <2>1, <2>2
<1>6. ASSUME Cardinality(list) > n PROVE Cardinality(Leading(list, n)) = n
  <2> DEFINE rest == list \ Leading(list, n)
  <2>1. rest # {}
    <3>1. SUFFICES ASSUME rest = {} PROVE FALSE
      OBVIOUS
    <3>2. Leading(list, n) = list
      BY <1>1, <3>1
    <3> QED BY <1>2, <1>4, <1>6, <3>2
  <2>2. rest \in SUBSET list /\ IsFiniteSet(rest)
    BY <1>2, FS_Subset
  <2>3. PICK e \in rest : \A f \in rest : ~Before(f, e)
    BY <2>1, <2>2, FirstExists DEF DependencyList
  <2>4. Below(e) \in SUBSET Leading(list, n)
    BY <2>3
  <2>5. Cardinality(Below(e)) <= Cardinality(Leading(list, n))
    BY <1>2, <2>4, FS_Subset
  <2>6. ~(Cardinality(Below(e)) < n) /\ Cardinality(Below(e)) \in Nat
    BY <1>1, <1>3, <2>2
  <2> HIDE DEF Below, rest
  <2> QED BY <1>2, <1>4, <2>5, <2>6
<1> HIDE DEF Below
<1> QED BY <1>1, <1>4, <1>5, <1>6

\* Removing duplicates keeps every key, each of them once, and brings in no
\* dependency and no manifest of its own.
LEMMA Deduplicated ==
  ASSUME NEW list, DependencyList(list),
         NEW D, D = DeduplicateDependencies(list)
  PROVE  /\ DependencyList(D)
         /\ \A d, e \in D : DependencyKey(d) = DependencyKey(e) => d = e
         /\ \A d \in D : \E f \in list :
              f.dependency = d.dependency /\ f.manifest = d.manifest
         /\ \A f \in list : \E d \in D : DependencyKey(d) = DependencyKey(f)
<1> DEFINE Kept(e) == [LastLike(list, e) EXCEPT !.place = e.place]
<1>1. \A e \in list : /\ Like(list, e) \in SUBSET list /\ e \in Like(list, e)
                      /\ IsFiniteSet(Like(list, e))
  <2> TAKE e \in list
  <2>1. Like(list, e) \in SUBSET list /\ e \in Like(list, e)
    BY DEF Like
  <2> QED BY <2>1, FS_Subset DEF DependencyList
<1>2. \A e \in list : LastLike(list, e) \in Like(list, e)
  <2> TAKE e \in list
  <2>1. \E f \in Like(list, e) : \A g \in Like(list, e) : ~Before(f, g)
    BY <1>1, LastExists DEF DependencyList
  <2> QED BY <2>1 DEF LastLike
<1>3. \A e \in list :
        /\ Kept(e) \in Entries /\ Kept(e).place = e.place
        /\ DependencyKey(Kept(e)) = DependencyKey(e)
        /\ \E f \in list : f.dependency = Kept(e).dependency /\ f.manifest = Kept(e).manifest
  <2> TAKE e \in list
  <2>1. PICK f \in list : f = LastLike(list, e) /\ DependencyKey(f) = DependencyKey(e)
    BY <1>1, <1>2 DEF Like
  <2>2. f \in Entries /\ e \in Entries
    BY DEF DependencyList
  <2>3. Kept(e) = [dependency |-> f.dependency, manifest |-> f.manifest, place |-> e.place]
    BY <2>1, <2>2 DEF Entries
  <2> HIDE DEF Kept
  <2> QED BY <2>1, <2>2, <2>3 DEF DependencyKey, Entries
<1>4. D = {Kept(e) : e \in Firsts(list)} /\ Firsts(list) \in SUBSET list
  BY DEF DeduplicateDependencies, Firsts
<1> HIDE DEF Kept
<1>5. IsFiniteSet(D)
  <2>1. IsFiniteSet(Firsts(list))
    BY <1>4, FS_Subset DEF DependencyList
  <2> DEFINE h == [e \in Firsts(list) |-> Kept(e)]
  <2>2. DOMAIN h = Firsts(list) /\ D = {h[e] : e \in Firsts(list)}
    BY <1>4
  <2> HIDE DEF h
  <2> QED BY <2>1, <2>2, FiniteImage
<1>6. \A e, f \in Firsts(list) : DependencyKey(e) = DependencyKey(f) => e = f
  <2> SUFFICES ASSUME NEW e \in Firsts(list), NEW f \in Firsts(list),
                      DependencyKey(e) = DependencyKey(f)
               PROVE  e = f
    OBVIOUS
  <2>1. ~Before(e, f) /\ ~Before(f, e)
    BY DEF Firsts, Like
  <2> QED BY <1>4, <2>1, BeforeIsAnOrder DEF DependencyList, PlacesApart
<1>7. \A d, e \in D : DependencyKey(d) = DependencyKey(e) => d = e
  BY <1>3, <1>4, <1>6
<1>8. PlacesApart(D)
  BY <1>3, <1>4 DEF PlacesApart, DependencyList
<1>9. \A f \in list : \E d \in D : DependencyKey(d) = DependencyKey(f)
  <2> TAKE f \in list
  <2>1. PICK e \in Like(list, f) : \A g \in Like(list, f) : ~Before(g, e)
    BY <1>1, FirstExists DEF DependencyList
  <2>2. e \in list /\ DependencyKey(e) = DependencyKey(f)
    BY <2>1 DEF Like
  <2>3. e \in Firsts(list)
    BY <2>1, <2>2 DEF Firsts, Like
  <2> QED BY <1>3, <1>4, <2>2, <2>3
<1>10. D \in SUBSET Entries
  BY <1>3, <1>4
<1>11. \A d \in D : \E f \in list :
         f.dependency = d.dependency /\ f.manifest = d.manifest
  BY <1>3, <1>4
<1>12. DependencyList(D)
  BY <1>5, <1>8, <1>10 DEF DependencyList
<1> QED BY <1>7, <1>9, <1>11, <1>12, Zenon

\* Entries with one dependency have one key, and the other way round.
LEMMA KeyIsDependency ==
  ASSUME NEW e \in Entries, NEW f \in Entries
  PROVE  DependencyKey(e) = DependencyKey(f) <=> e.dependency = f.dependency
BY ScanAssumption DEF DependencyKey, Entries

\* A scan whose manifests are all read, and none of them broken.
AllRead(scan) ==
  /\ scan \in ScanRow
  /\ \A p \in ToSet(scan.paths) : scan.texts[p] # Broken /\ scan.texts[p] \in Seq(Dependencies)

\* What the parsers return: the lines of the manifests.
LEMMA ParsedList ==
  ASSUME NEW scan, AllRead(scan)
  PROVE  /\ DependencyList(Parsed(scan))
         /\ \A e \in Parsed(scan) : /\ e.manifest \in ToSet(scan.paths)
                                    /\ e.dependency \in ToSet(scan.texts[e.manifest])
         /\ \A p \in ToSet(scan.paths) : \A d \in ToSet(scan.texts[p]) :
              \E e \in Parsed(scan) : e.dependency = d /\ e.manifest = p
<1> DEFINE Text(i) == scan.texts[scan.paths[i]]
           I == DOMAIN scan.paths
<1>1. /\ scan.paths \in Seq(Paths) /\ I = 1 .. Len(scan.paths) /\ Len(scan.paths) \in Nat
      /\ \A i \in I : scan.paths[i] \in Paths /\ scan.paths[i] \in ToSet(scan.paths)
  BY DEF AllRead, ScanRow, ToSet
<1>2. \A i \in I : /\ Text(i) \in Seq(Dependencies)
                   /\ DOMAIN Text(i) = 1 .. Len(Text(i)) /\ Len(Text(i)) \in Nat
                   /\ \A l \in DOMAIN Text(i) : Text(i)[l] \in Dependencies
  BY <1>1 DEF AllRead
<1>3. \A i \in I : Parse(scan, i) =
        {Found(Text(i)[l], scan.paths[i], <<i, l>>) : l \in DOMAIN Text(i)}
  BY DEF Parse
<1>4. \A e : e \in Parsed(scan) <=>
        \E i \in I : \E l \in DOMAIN Text(i) : e = Found(Text(i)[l], scan.paths[i], <<i, l>>)
  BY <1>3 DEF Parsed
<1>5. IsFiniteSet(Parsed(scan))
  <2>1. IsFiniteSet(I)
    BY <1>1, FS_Interval
  <2>2. ASSUME NEW i \in I PROVE IsFiniteSet(Parse(scan, i))
    <3> DEFINE h == [l \in DOMAIN Text(i) |-> Found(Text(i)[l], scan.paths[i], <<i, l>>)]
    <3>1. IsFiniteSet(DOMAIN Text(i))
      BY <1>2, FS_Interval
    <3>2. DOMAIN h = DOMAIN Text(i) /\ Parse(scan, i) = {h[l] : l \in DOMAIN Text(i)}
      BY <1>3
    <3> HIDE DEF h
    <3> QED BY <3>1, <3>2, FiniteImage
  <2> DEFINE h == [i \in I |-> Parse(scan, i)]
             files == {h[i] : i \in I}
  <2>3. IsFiniteSet(files)
    <3>1. DOMAIN h = I
      OBVIOUS
    <3> HIDE DEF h
    <3> QED BY <2>1, <3>1, FiniteImage
  <2>4. \A file \in files : IsFiniteSet(file)
    BY <2>2
  <2>5. Parsed(scan) = UNION files
    BY DEF Parsed
  <2> HIDE DEF files
  <2> QED BY <2>3, <2>4, <2>5, FS_UNION
<1>6. Parsed(scan) \in SUBSET Entries
  <2>1. ASSUME NEW i \in I, NEW l \in DOMAIN Text(i)
        PROVE  Found(Text(i)[l], scan.paths[i], <<i, l>>) \in Entries
    BY <1>1, <1>2 DEF Found, Entries
  <2>2. ASSUME NEW e \in Parsed(scan) PROVE e \in Entries
    <3>1. PICK i \in I : \E l \in DOMAIN Text(i) :
            e = Found(Text(i)[l], scan.paths[i], <<i, l>>)
      BY <1>4
    <3> QED BY <2>1, <3>1
  <2> QED BY <2>2
<1>7. PlacesApart(Parsed(scan))
  BY <1>4 DEF PlacesApart, Found
<1>8. ASSUME NEW e \in Parsed(scan)
      PROVE  /\ e.manifest \in ToSet(scan.paths)
             /\ e.dependency \in ToSet(scan.texts[e.manifest])
  <2>0. PICK i \in I : \E l \in DOMAIN Text(i) : e = Found(Text(i)[l], scan.paths[i], <<i, l>>)
    BY <1>4
  <2>1. PICK l \in DOMAIN Text(i) : e = Found(Text(i)[l], scan.paths[i], <<i, l>>)
    BY <2>0
  <2>2. e.manifest = scan.paths[i] /\ e.dependency = Text(i)[l]
    BY <2>1 DEF Found
  <2> QED BY <1>1, <2>1, <2>2 DEF ToSet
<1>9. ASSUME NEW p \in ToSet(scan.paths), NEW d \in ToSet(scan.texts[p])
      PROVE  \E e \in Parsed(scan) : e.dependency = d /\ e.manifest = p
  <2>1. PICK i \in I : scan.paths[i] = p
    BY DEF ToSet
  <2>2. PICK l \in DOMAIN Text(i) : Text(i)[l] = d
    BY <2>1 DEF ToSet
  <2>3. Found(Text(i)[l], scan.paths[i], <<i, l>>) \in Parsed(scan)
    BY <1>4
  <2> QED BY <2>1, <2>2, <2>3 DEF Found
<1> QED BY <1>5, <1>6, <1>7, <1>8, <1>9 DEF DependencyList

DependenciesRead(scan) == UNION {ToSet(scan.texts[p]) : p \in ToSet(scan.paths)}

\* What is sent to OSV: dependencies of the manifests, none of them twice, and all
\* of them if they are not more than the limit, otherwise as many as the limit.
LEMMA CollectedList ==
  ASSUME NEW scan, AllRead(scan), NEW list, list = Collected(scan)
  PROVE  /\ list \in SUBSET Entries /\ IsFiniteSet(list)
         /\ Cardinality(list) <= MaxDependencies
         /\ \A d, e \in list : d.dependency = e.dependency => d = e
         /\ \A e \in list : /\ e.manifest \in ToSet(scan.paths)
                            /\ e.dependency \in ToSet(scan.texts[e.manifest])
         /\ Cardinality(DependenciesRead(scan)) <= MaxDependencies =>
              /\ {e.dependency : e \in list} = DependenciesRead(scan)
              /\ Cardinality(list) = Cardinality(DependenciesRead(scan))
         /\ Cardinality(DependenciesRead(scan)) <= MaxDependencies
              \/ Cardinality(list) = MaxDependencies
<1> DEFINE D == DeduplicateDependencies(Parsed(scan))
<1>1. DependencyList(Parsed(scan))
  BY ParsedList
<1>2. /\ DependencyList(D)
      /\ \A d, e \in D : DependencyKey(d) = DependencyKey(e) => d = e
      /\ \A d \in D : \E f \in Parsed(scan) :
           f.dependency = d.dependency /\ f.manifest = d.manifest
      /\ \A f \in Parsed(scan) : \E d \in D : DependencyKey(d) = DependencyKey(f)
  BY <1>1, Deduplicated
<1>3. list = Leading(D, MaxDependencies)
  BY DEF Collected
<1> HIDE DEF D
<1>4. /\ list \in SUBSET D /\ Cardinality(list) <= MaxDependencies
      /\ Cardinality(D) <= MaxDependencies => list = D
      /\ Cardinality(D) > MaxDependencies => Cardinality(list) = MaxDependencies
  BY <1>2, <1>3, LeadingEntries, ScanAssumption
<1>5. IsFiniteSet(list) /\ list \in SUBSET Entries /\ D \in SUBSET Entries /\ IsFiniteSet(D)
  BY <1>2, <1>4, FS_Subset DEF DependencyList
<1>6. \A d, e \in D : d.dependency = e.dependency => d = e
  BY <1>2, <1>5, KeyIsDependency
<1>7. \A e \in D : /\ e.manifest \in ToSet(scan.paths)
                   /\ e.dependency \in ToSet(scan.texts[e.manifest])
  BY <1>2, ParsedList
<1>8. {e.dependency : e \in D} = DependenciesRead(scan)
  <2>1. ASSUME NEW e \in D PROVE e.dependency \in DependenciesRead(scan)
    BY <1>7 DEF DependenciesRead
  <2>2. ASSUME NEW d \in DependenciesRead(scan) PROVE \E e \in D : e.dependency = d
    <3>1. PICK p \in ToSet(scan.paths) : d \in ToSet(scan.texts[p])
      BY DEF DependenciesRead
    <3>2. PICK f \in Parsed(scan) : f.dependency = d
      BY <3>1, ParsedList
    <3>3. PICK e \in D : DependencyKey(e) = DependencyKey(f)
      BY <1>2
    <3> QED BY <1>1, <1>5, <3>2, <3>3, KeyIsDependency DEF DependencyList
  <2> QED BY <2>1, <2>2
<1>9. Cardinality(DependenciesRead(scan)) = Cardinality(D)
  <2> DEFINE h == [e \in D |-> e.dependency]
  <2>1. /\ DOMAIN h = D /\ DependenciesRead(scan) = {h[e] : e \in D}
        /\ \A d, e \in D : h[d] = h[e] => d = e
    BY <1>6, <1>8
  <2> HIDE DEF h
  <2> QED BY <1>5, <2>1, FiniteImage
<1>10. Cardinality(D) \in Nat /\ MaxDependencies \in Nat
  BY <1>5, FS_CardinalityType, ScanAssumption
<1>11. Cardinality(D) <= MaxDependencies \/ Cardinality(list) = MaxDependencies
  BY <1>4, <1>10
<1> QED BY <1>4, <1>5, <1>6, <1>7, <1>8, <1>9, <1>11

-----------------------------------------------------------------------------
(* Scans *)

\* The report on the manifests that a scan has read.
Report(scan) ==
  [manifests |-> scan.paths, dependencies |-> Cardinality(Collected(scan)),
   findings |-> Vulnerabilities(Collected(scan))]

\* What a scan has read is of commits that were head meanwhile: one for the list of
\* manifests, and one for each of them.
ReadOfHeads(scan) ==
  /\ scan.at \in {"files", "osv", "done"} =>
       \E c \in scan.heads : scan.paths = Slice(Tree(c), MaxManifests)
  /\ \A p \in Read(scan) : \E c \in scan.heads :
       p \in ToSet(Tree(c)) /\ scan.texts[p] = Content(c, p)

ScanSound(scan) ==
  /\ scan \in ScanRow
  /\ Len(scan.paths) <= MaxManifests /\ Read(scan) \subseteq ToSet(scan.paths)
  /\ scan.at \in {"metadata", "tree"} => Read(scan) = {}
  /\ ReadOfHeads(scan)
  /\ scan.at \in {"osv", "done"} => AllRead(scan) /\ Collected(scan) # {}
  /\ scan.at = "done" => scan.report = Report(scan)

ScanInv ==
  /\ head \in Commits /\ scans \in [Scans -> ScanRow \cup {None}]
  /\ \A r \in Scans : scans[r] # None => ScanSound(scans[r])
  /\ \A r \in Scans : Running(r) => head \in scans[r].heads

\* slice(0, n) on a list of paths.
LEMMA SliceProperties ==
  ASSUME NEW S, NEW s \in Seq(S), NEW n \in Nat
  PROVE  /\ Slice(s, n) \in Seq(S) /\ Len(Slice(s, n)) <= n
         /\ ToSet(Slice(s, n)) \subseteq ToSet(s)
         /\ ToSet(Slice(s, n)) = {s[i] : i \in {j \in DOMAIN s : j <= n}}
<1> DEFINE m == IF Len(s) < n THEN Len(s) ELSE n
<1>1. m \in Nat /\ m <= n /\ m <= Len(s) /\ 1 .. m = {j \in DOMAIN s : j <= n}
  OBVIOUS
<1>2. Slice(s, n) = SubSeq(s, 1, m)
  BY DEF Slice
<1> HIDE DEF m
<1>3. \A i \in 1 .. m : s[i] \in S /\ i \in DOMAIN s
  BY <1>1
<1>4. /\ SubSeq(s, 1, m) \in Seq(S) /\ Len(SubSeq(s, 1, m)) = m
      /\ \A i \in 1 .. m : SubSeq(s, 1, m)[i] = s[i]
  BY <1>1, <1>3, SubSeqProperties
<1>5. ToSet(Slice(s, n)) \subseteq ToSet(s)
  BY <1>1, <1>2, <1>3, <1>4 DEF ToSet
<1>6. ToSet(Slice(s, n)) = {s[i] : i \in 1 .. m}
  <2> DEFINE t == SubSeq(s, 1, m)
  <2>1. DOMAIN t = 1 .. m /\ \A i \in 1 .. m : t[i] = s[i]
    BY <1>4
  <2> HIDE DEF t
  <2>2. ToSet(t) = {s[i] : i \in 1 .. m}
    BY <2>1 DEF ToSet
  <2> QED BY <1>2, <2>2 DEF t
<1> QED BY <1>1, <1>2, <1>4, <1>5, <1>6

\* What a scan collects depends on the files it has read and on nothing else.
LEMMA CollectedOfTexts ==
  ASSUME NEW scan, NEW other, other.paths = scan.paths, other.texts = scan.texts
  PROVE  Collected(other) = Collected(scan)
BY DEF Collected, Parsed, Parse

\* Only vulnerable entries of the list are reported, and all of them.
LEMMA VulnerableEntries ==
  ASSUME NEW list
  PROVE  Vulnerabilities(list) = {e \in list : e.dependency \in Vulnerable}
BY DEF Vulnerabilities, QueryBatch

LEMMA ReportTyped ==
  ASSUME NEW scan, AllRead(scan), Collected(scan) # {}
  PROVE  Report(scan) \in Reports
<1>1. /\ Collected(scan) \in SUBSET Entries /\ IsFiniteSet(Collected(scan))
      /\ Cardinality(Collected(scan)) <= MaxDependencies
  BY CollectedList
<1>2. Cardinality(Collected(scan)) \in 1 .. MaxDependencies
  <2>1. Cardinality(Collected(scan)) \in Nat /\ Cardinality(Collected(scan)) # 0
    BY <1>1, FS_CardinalityType, FS_EmptySet
  <2> QED BY <1>1, <2>1, ScanAssumption
<1>3. Vulnerabilities(Collected(scan)) \in SUBSET Entries
  BY <1>1, VulnerableEntries
<1> QED BY <1>2, <1>3 DEF Report, Reports, AllRead, ScanRow

\* The scan of a step is sound, and so are all the others.
LEMMA OneScanMoves ==
  ASSUME ScanInv, NEW r \in Scans, NEW state, Continue(r, state),
         ScanSound(state), head \in state.heads
  PROVE  ScanInv'
<1>1. scans' = [scans EXCEPT ![r] = state] /\ head' = head
  BY DEF Continue
<1>2. state \in ScanRow
  BY DEF ScanSound
<1>3. \A s \in Scans : scans'[s] = IF s = r THEN state ELSE scans[s]
  BY <1>1 DEF ScanInv
<1>4. ASSUME NEW s \in Scans, scans'[s] # None PROVE ScanSound(scans'[s])
  BY <1>3, <1>4 DEF ScanInv
<1>5. ASSUME NEW s \in Scans, Running(s)' PROVE head' \in scans'[s].heads
  BY <1>1, <1>3, <1>5 DEF ScanInv, Running
<1>6. head' \in Commits /\ scans' \in [Scans -> ScanRow \cup {None}]
  BY <1>1, <1>2 DEF ScanInv
<1>7. \A s \in Scans : (scans[s] # None => ScanSound(scans[s]))'
  BY <1>4 DEF ScanSound, ReadOfHeads, AllRead, Read, Report
<1> QED BY <1>5, <1>6, <1>7 DEF ScanInv

\* What is known of a scan that runs.
LEMMA RunningScan ==
  ASSUME ScanInv, NEW r \in Scans, scans[r] # None
  PROVE  /\ ScanSound(scans[r]) /\ scans[r] \in ScanRow
         /\ scans[r].at \notin {"done", "failed"} => head \in scans[r].heads
BY DEF ScanInv, ScanSound, Running

\* A scan that only goes to another stage has read the same files.
LEMMA SameFiles ==
  ASSUME NEW scan, ScanSound(scan), NEW stage \in ScanStages,
         NEW next, next = [scan EXCEPT !.at = stage],
         stage \in {"files", "osv", "done"} => scan.at \in {"files", "osv", "done"},
         stage \in {"metadata", "tree"} => scan.at \in {"metadata", "tree"},
         stage \in {"osv", "done"} => AllRead(scan) /\ Collected(scan) # {},
         stage # "done"
  PROVE  ScanSound(next) /\ next.heads = scan.heads
<1>1. /\ next \in ScanRow /\ next.at = stage /\ next.paths = scan.paths
      /\ next.texts = scan.texts /\ next.heads = scan.heads
  BY DEF ScanSound, ScanRow
<1>2. Collected(next) = Collected(scan)
  BY <1>1, CollectedOfTexts
<1>3. Read(next) = Read(scan) /\ (AllRead(scan) => AllRead(next))
  BY <1>1 DEF Read, AllRead
<1>4. ReadOfHeads(next)
  BY <1>1, <1>3 DEF ScanSound, ReadOfHeads
<1> QED BY <1>1, <1>2, <1>3, <1>4 DEF ScanSound

LEMMA StartKeeps ==
  ASSUME ScanInv, NEW r \in Scans, StartScan(r) PROVE ScanInv'
<1>1. /\ NewScan \in ScanRow /\ NewScan.at = "metadata" /\ NewScan.paths = << >>
      /\ NewScan.heads = {head} /\ NewScan.texts = [p \in Paths |-> None]
  BY DEF NewScan, ScanRow, ScanStages, ScanInv
<1>2. Read(NewScan) = {}
  BY <1>1 DEF Read
<1>3. ScanSound(NewScan)
  BY <1>1, <1>2, ScanAssumption DEF ScanSound, ReadOfHeads
<1> QED BY <1>1, <1>3, OneScanMoves DEF StartScan

\* A scan that fails keeps what it has read.
LEMMA FailKeeps ==
  ASSUME ScanInv, NEW r \in Scans, scans[r] # None,
         scans[r].at \notin {"done", "failed"}, Fail(r)
  PROVE  ScanInv'
<1> DEFINE next == [scans[r] EXCEPT !.at = "failed"]
<1>1. ScanSound(next) /\ head \in next.heads
  BY RunningScan, SameFiles DEF ScanStages
<1> QED BY <1>1, OneScanMoves DEF Fail

LEMMA MetadataKeeps ==
  ASSUME ScanInv, NEW r \in Scans, ReadMetadata(r) PROVE ScanInv'
<1> DEFINE next == [scans[r] EXCEPT !.at = "tree"]
<1>1. scans[r] # None /\ scans[r].at = "metadata" /\ Continue(r, next)
  BY DEF ReadMetadata, InScan
<1>2. ScanSound(next) /\ head \in next.heads
  BY <1>1, RunningScan, SameFiles DEF ScanStages
<1> QED BY <1>1, <1>2, OneScanMoves

LEMMA ListKeeps ==
  ASSUME ScanInv, NEW r \in Scans, ListManifests(r) PROVE ScanInv'
<1>1. /\ scans[r] # None /\ scans[r].at = "tree"
      /\ ScanSound(scans[r]) /\ scans[r] \in ScanRow /\ head \in scans[r].heads
  BY RunningScan DEF ListManifests, InScan
<1>2. CASE Tree(head) = << >>
  BY <1>1, <1>2, FailKeeps DEF ListManifests
<1>3. CASE Tree(head) # << >>
  <2> DEFINE next == [scans[r] EXCEPT !.at = "files",
                                      !.paths = Slice(Tree(head), MaxManifests)]
  <2>1. Continue(r, next)
    BY <1>3 DEF ListManifests
  <2>2. /\ Slice(Tree(head), MaxManifests) \in Seq(Paths)
        /\ Len(Slice(Tree(head), MaxManifests)) <= MaxManifests
    BY ScanAssumption, SliceProperties DEF ScanInv
  <2>3. /\ next \in ScanRow /\ next.at = "files"
        /\ next.paths = Slice(Tree(head), MaxManifests)
        /\ next.texts = scans[r].texts /\ next.heads = scans[r].heads
    BY <1>1, <2>2 DEF ScanRow, ScanStages
  <2>4. Read(next) = {}
    BY <1>1, <2>3 DEF ScanSound, Read
  <2>5. ScanSound(next)
    BY <1>1, <2>2, <2>3, <2>4 DEF ScanSound, ReadOfHeads
  <2> QED BY <1>1, <2>1, <2>3, <2>5, OneScanMoves
<1> QED BY <1>2, <1>3

LEMMA ReadKeeps ==
  ASSUME ScanInv, NEW r \in Scans, ReadFile(r) PROVE ScanInv'
<1>1. /\ scans[r] # None /\ scans[r].at = "files"
      /\ ScanSound(scans[r]) /\ scans[r] \in ScanRow /\ head \in scans[r].heads
  BY RunningScan DEF ReadFile, InScan
<1>2. PICK p \in Missing(r) :
        /\ p \in ToSet(Tree(head))
        /\ Continue(r, [scans[r] EXCEPT !.texts[p] = Content(head, p)])
  BY DEF ReadFile
<1> DEFINE next == [scans[r] EXCEPT !.texts[p] = Content(head, p)]
<1>3. p \in ToSet(scans[r].paths) /\ p \in Paths
  BY <1>1, <1>2 DEF Missing, ToSet, ScanRow
<1>4. Content(head, p) \in Texts /\ Content(head, p) # None
  BY <1>2, ScanAssumption DEF ScanInv
<1>5. /\ next \in ScanRow /\ next.at = "files" /\ next.paths = scans[r].paths
      /\ next.heads = scans[r].heads
      /\ next.texts = [scans[r].texts EXCEPT ![p] = Content(head, p)]
  BY <1>1, <1>4 DEF ScanRow
<1>6. /\ \A q \in Paths : next.texts[q] = IF q = p THEN Content(head, p)
                                                  ELSE scans[r].texts[q]
      /\ Read(next) = Read(scans[r]) \cup {p}
  BY <1>1, <1>3, <1>4, <1>5 DEF Read, ScanRow
<1> HIDE DEF next
<1>7. ReadOfHeads(next)
  <2>1. ASSUME NEW q \in Read(next)
        PROVE  \E c \in next.heads : q \in ToSet(Tree(c)) /\ next.texts[q] = Content(c, q)
    <3>1. CASE q = p
      BY <1>1, <1>2, <1>3, <1>5, <1>6, <3>1
    <3>2. CASE q # p
      <4>1. q \in Read(scans[r]) /\ q \in Paths /\ next.texts[q] = scans[r].texts[q]
        BY <1>6, <2>1, <3>2 DEF Read
      <4> QED BY <1>1, <1>5, <4>1 DEF ScanSound, ReadOfHeads
    <3> QED BY <3>1, <3>2
  <2>2. \E c \in next.heads : next.paths = Slice(Tree(c), MaxManifests)
    BY <1>1, <1>5 DEF ScanSound, ReadOfHeads
  <2> QED BY <2>1, <2>2 DEF ReadOfHeads
<1>8. ScanSound(next)
  BY <1>1, <1>3, <1>5, <1>6, <1>7 DEF ScanSound
<1>9. Continue(r, next)
  BY <1>2 DEF next
<1> QED BY <1>1, <1>5, <1>8, <1>9, OneScanMoves

LEMMA ParseKeeps ==
  ASSUME ScanInv, NEW r \in Scans, ParseManifests(r) PROVE ScanInv'
<1>1. /\ scans[r] # None /\ scans[r].at = "files" /\ Missing(r) = {}
      /\ ScanSound(scans[r]) /\ scans[r] \in ScanRow /\ head \in scans[r].heads
  BY RunningScan DEF ParseManifests, InScan
<1>2. CASE Fail(r)
  BY <1>1, <1>2, FailKeeps
<1>3. CASE ~Fail(r)
  <2> DEFINE next == [scans[r] EXCEPT !.at = "osv"]
  <2>1. /\ \A p \in Paths : scans[r].texts[p] # Broken
        /\ Collected(scans[r]) # {} /\ Continue(r, next)
    BY <1>3 DEF ParseManifests
  <2>2. AllRead(scans[r])
    <3>1. ASSUME NEW p \in ToSet(scans[r].paths)
          PROVE  scans[r].texts[p] # Broken /\ scans[r].texts[p] \in Seq(Dependencies)
      <4>1. p \in Read(scans[r])
        BY <1>1 DEF Missing
      <4>2. p \in Paths /\ scans[r].texts[p] # None /\ scans[r].texts[p] \in Texts \cup {None}
        BY <1>1, <4>1 DEF Read, ScanRow
      <4> QED BY <2>1, <4>2 DEF Texts
    <3> QED BY <1>1, <3>1 DEF AllRead
  <2>3. ScanSound(next) /\ next.heads = scans[r].heads
    BY <1>1, <2>1, <2>2, SameFiles DEF ScanStages
  <2> QED BY <1>1, <2>1, <2>3, OneScanMoves
<1> QED BY <1>2, <1>3

LEMMA QueryKeeps ==
  ASSUME ScanInv, NEW r \in Scans, QueryOsv(r) PROVE ScanInv'
<1> DEFINE next == [scans[r] EXCEPT !.at = "done", !.report = Report(scans[r])]
<1>1. /\ scans[r] # None /\ scans[r].at = "osv" /\ Continue(r, next)
      /\ ScanSound(scans[r]) /\ scans[r] \in ScanRow /\ head \in scans[r].heads
  BY RunningScan DEF QueryOsv, InScan, Report
<1>2. AllRead(scans[r]) /\ Collected(scans[r]) # {}
  BY <1>1 DEF ScanSound
<1>3. /\ next \in ScanRow /\ next.at = "done" /\ next.paths = scans[r].paths
      /\ next.texts = scans[r].texts /\ next.heads = scans[r].heads
      /\ next.report = Report(scans[r])
  BY <1>1, <1>2, ReportTyped DEF ScanRow, ScanStages
<1>4. Collected(next) = Collected(scans[r])
  BY <1>3, CollectedOfTexts
<1>5. Read(next) = Read(scans[r]) /\ AllRead(next) /\ next.report = Report(next)
  BY <1>2, <1>3, <1>4 DEF Read, AllRead, Report
<1> HIDE DEF next
<1>6. ReadOfHeads(next)
  BY <1>1, <1>3, <1>5 DEF ScanSound, ReadOfHeads
<1>7. ScanSound(next)
  BY <1>1, <1>2, <1>3, <1>4, <1>5, <1>6 DEF ScanSound
<1> QED BY <1>1, <1>3, <1>7, OneScanMoves

\* A push gives the scans that run another head, and changes nothing they have read.
LEMMA PushKeeps ==
  ASSUME ScanInv, NEW c \in Commits, Push(c) PROVE ScanInv'
<1>1. head' = c /\ \A r \in Scans :
        scans'[r] = IF scans[r] = None \/ ~Running(r) THEN scans[r]
                    ELSE [scans[r] EXCEPT !.heads = @ \cup {c}]
  BY DEF Push
<1>2. ASSUME NEW r \in Scans, scans[r] # None
      PROVE  /\ scans'[r] # None /\ scans'[r] \in ScanRow /\ ScanSound(scans'[r])
             /\ scans'[r].at = scans[r].at
             /\ scans'[r].at \notin {"done", "failed"} => c \in scans'[r].heads
  <2>1. scans[r] \in ScanRow /\ ScanSound(scans[r])
    BY <1>2, RunningScan
  <2>2. CASE ~Running(r)
    BY <1>1, <1>2, <2>1, <2>2 DEF Running
  <2>3. CASE Running(r)
    <3> DEFINE next == [scans[r] EXCEPT !.heads = @ \cup {c}]
    <3>1. scans'[r] = next
      BY <1>1, <1>2, <2>3
    <3>2. /\ next \in ScanRow /\ next.at = scans[r].at /\ next.paths = scans[r].paths
          /\ next.texts = scans[r].texts /\ next.report = scans[r].report
          /\ next.heads = scans[r].heads \cup {c}
      BY <2>1 DEF ScanRow
    <3>3. Collected(next) = Collected(scans[r])
      BY <3>2, CollectedOfTexts
    <3>4. Read(next) = Read(scans[r]) /\ (AllRead(scans[r]) => AllRead(next))
      BY <3>2 DEF Read, AllRead
    <3> HIDE DEF next
    <3>5. ReadOfHeads(next)
      BY <2>1, <3>2, <3>4 DEF ScanSound, ReadOfHeads
    <3>6. ScanSound(next) /\ next # None
      BY <2>1, <2>3, <3>2, <3>3, <3>4, <3>5, ScanAssumption DEF ScanSound, Running
    <3> QED BY <3>1, <3>2, <3>6
  <2> QED BY <2>2, <2>3
<1>3. scans' \in [Scans -> ScanRow \cup {None}] /\ head' \in Commits
  <2>1. scans' = [r \in Scans |-> scans'[r]]
    BY DEF Push
  <2>2. \A r \in Scans : scans'[r] \in ScanRow \cup {None}
    BY <1>1, <1>2
  <2> QED BY <1>1, <2>1, <2>2
<1>4. \A r \in Scans : scans'[r] # None => ScanSound(scans'[r])
  BY <1>1, <1>2
<1>5. \A r \in Scans : (scans[r] # None => ScanSound(scans[r]))'
  BY <1>4 DEF ScanSound, ReadOfHeads, AllRead, Read, Report
<1>6. \A r \in Scans : (Running(r) => head \in scans[r].heads)'
  BY <1>1, <1>2 DEF Running
<1> QED BY <1>3, <1>5, <1>6 DEF ScanInv

LEMMA ScanInitial == ScanInit => ScanInv
BY DEF ScanInit, ScanInv, Running

LEMMA ScanStep == ScanInv /\ [ScanNext]_scanVars => ScanInv'
<1> SUFFICES ASSUME ScanInv, [ScanNext]_scanVars PROVE ScanInv'
  OBVIOUS
<1>1. ASSUME NEW r \in Scans, ExternalFails(r) PROVE ScanInv'
  BY <1>1, FailKeeps DEF ExternalFails, Running
<1>2. ASSUME NEW r \in Scans, StartScan(r) \/ Work(r) PROVE ScanInv'
  BY <1>1, <1>2, StartKeeps, MetadataKeeps, ListKeeps, ReadKeeps, ParseKeeps, QueryKeeps
  DEF Work
<1>3. CASE UNCHANGED scanVars
  BY <1>3 DEF scanVars, ScanInv, Running, ScanSound, ReadOfHeads, AllRead, Read, Report
<1> QED BY <1>2, <1>3, PushKeeps DEF ScanNext

\* What a scan has read has its types, of no more manifests than the limit.
THEOREM ScanTypes == ScanSpec => []ScanTypeOK
<1>1. ScanInv => ScanTypeOK
  BY DEF ScanInv, ScanSound, ScanTypeOK
<1> QED BY <1>1, ScanInitial, ScanStep, PTL DEF ScanSpec

LEMMA InvMatches == ASSUME ScanInv PROVE ReportMatchesRepository
<1> SUFFICES ASSUME NEW r \in Scans, NEW c \in Commits,
                    Reported(r), scans[r].heads = {c}
             PROVE  IF Cardinality(DependenciesOf(c)) <= MaxDependencies
                    THEN /\ FindingsOf(r) = DependenciesOf(c) \cap Vulnerable
                         /\ scans[r].report.dependencies = Cardinality(DependenciesOf(c))
                    ELSE /\ FindingsOf(r) \subseteq DependenciesOf(c) \cap Vulnerable
                         /\ scans[r].report.dependencies = MaxDependencies
  BY DEF ReportMatchesRepository
<1> DEFINE list == Collected(scans[r])
           kept == Slice(Tree(c), MaxManifests)
<1>1. /\ scans[r].at = "done" /\ ScanSound(scans[r]) /\ scans[r] \in ScanRow
      /\ AllRead(scans[r]) /\ scans[r].report = Report(scans[r])
      /\ ReadOfHeads(scans[r])
  BY RunningScan DEF Reported, InScan, ScanSound
<1>2. scans[r].paths = kept /\ kept \in Seq(Paths) /\ ToSet(kept) = FirstManifests(c)
  BY <1>1, SliceProperties, ScanAssumption DEF ReadOfHeads, ScanRow, FirstManifests
<1> HIDE DEF kept
<1>3. ASSUME NEW p \in ToSet(kept) PROVE ToSet(scans[r].texts[p]) = ListedIn(c, p)
  <2>1. p \in Paths
    BY <1>2 DEF ToSet
  <2>2. scans[r].texts[p] # Broken /\ scans[r].texts[p] \in Seq(Dependencies)
    BY <1>1, <1>2, <1>3 DEF AllRead
  <2>3. p \in Read(scans[r])
    BY <2>1, <2>2, ScanAssumption DEF Read, Texts
  <2>4. p \in ToSet(Tree(c)) /\ scans[r].texts[p] = Content(c, p)
    BY <1>1, <2>3 DEF ReadOfHeads
  <2> QED BY <2>2, <2>4 DEF ListedIn
<1>4. DependenciesRead(scans[r]) = DependenciesOf(c)
  BY <1>2, <1>3 DEF DependenciesRead, DependenciesOf
<1>5. /\ Cardinality(DependenciesOf(c)) <= MaxDependencies =>
           /\ {e.dependency : e \in list} = DependenciesOf(c)
           /\ Cardinality(list) = Cardinality(DependenciesOf(c))
      /\ Cardinality(DependenciesOf(c)) <= MaxDependencies
           \/ Cardinality(list) = MaxDependencies
  BY <1>1, <1>4, CollectedList
<1>6. ASSUME NEW e \in list PROVE e.dependency \in DependenciesOf(c)
  <2>1. /\ e.manifest \in ToSet(scans[r].paths)
        /\ e.dependency \in ToSet(scans[r].texts[e.manifest])
    BY <1>1, CollectedList
  <2>2. e.dependency \in DependenciesRead(scans[r])
    BY <2>1 DEF DependenciesRead
  <2> QED BY <1>4, <2>2
<1>7. /\ scans[r].report.dependencies = Cardinality(list)
      /\ scans[r].report.findings = {e \in list : e.dependency \in Vulnerable}
  BY <1>1, VulnerableEntries DEF Report
<1> HIDE DEF list
<1>8. FindingsOf(r) = {e.dependency : e \in list} \cap Vulnerable
  BY <1>7 DEF FindingsOf
<1> QED BY <1>5, <1>6, <1>7, <1>8

LEMMA InvNamed == ASSUME ScanInv PROVE FindingsNameTheirManifest
<1> SUFFICES ASSUME NEW r \in Scans, Reported(r), NEW f \in scans[r].report.findings
             PROVE  /\ f.manifest \in ToSet(scans[r].report.manifests)
                    /\ \E c \in scans[r].heads : f.dependency \in ListedIn(c, f.manifest)
  BY DEF FindingsNameTheirManifest
<1>1. /\ ScanSound(scans[r]) /\ scans[r] \in ScanRow
      /\ AllRead(scans[r]) /\ scans[r].report = Report(scans[r])
      /\ ReadOfHeads(scans[r])
  BY RunningScan DEF Reported, InScan, ScanSound
<1>2. f \in Collected(scans[r]) /\ scans[r].report.manifests = scans[r].paths
  BY <1>1, VulnerableEntries DEF Report
<1> DEFINE p == f.manifest
<1>3. p \in ToSet(scans[r].paths) /\ f.dependency \in ToSet(scans[r].texts[p])
  BY <1>1, <1>2, CollectedList
<1>4. p \in Paths /\ scans[r].texts[p] # Broken /\ scans[r].texts[p] \in Seq(Dependencies)
  BY <1>1, <1>3 DEF AllRead, ToSet, ScanRow
<1>5. p \in Read(scans[r])
  BY <1>4, ScanAssumption DEF Read, Texts
<1>6. PICK c \in scans[r].heads : p \in ToSet(Tree(c)) /\ scans[r].texts[p] = Content(c, p)
  BY <1>1, <1>5 DEF ReadOfHeads
<1>7. f.dependency \in ListedIn(c, p)
  BY <1>3, <1>4, <1>6 DEF ListedIn
<1> QED BY <1>2, <1>3, <1>6, <1>7

LEMMA InvOnce == ASSUME ScanInv PROVE NothingReportedTwice
<1> SUFFICES ASSUME NEW r \in Scans, Reported(r)
             PROVE  Cardinality(scans[r].report.findings) = Cardinality(FindingsOf(r))
  BY DEF NothingReportedTwice
<1> DEFINE found == scans[r].report.findings
           h == [f \in found |-> f.dependency]
<1>1. AllRead(scans[r]) /\ scans[r].report = Report(scans[r])
  BY RunningScan DEF Reported, InScan, ScanSound
<1>2. found \in SUBSET Collected(scans[r])
  BY <1>1, VulnerableEntries DEF Report
<1>3. IsFiniteSet(found) /\ \A d, e \in found : d.dependency = e.dependency => d = e
  BY <1>1, <1>2, CollectedList, FS_Subset
<1>4. /\ DOMAIN h = found /\ FindingsOf(r) = {h[f] : f \in found}
      /\ \A d, e \in found : h[d] = h[e] => d = e
  BY <1>3 DEF FindingsOf
<1> HIDE DEF h, found
<1>5. Cardinality(FindingsOf(r)) = Cardinality(found)
  BY <1>3, <1>4, FiniteImage
<1> QED BY <1>5 DEF found

\* A report is about the repository.  If nobody pushes it is about all of the first
\* manifests and nothing else, and on as many dependencies as the limit allows; in
\* any case it has no dependency twice and none that its manifest did not have.
THEOREM ScansReport == ScanSpec => []ScansReportTheRepository
<1>1. ScanInv => ScansReportTheRepository
  BY InvMatches, InvNamed, InvOnce DEF ScansReportTheRepository
<1> QED BY <1>1, ScanInitial, ScanStep, PTL DEF ScanSpec

-----------------------------------------------------------------------------
(* Progress: the safety half of EveryRequestAnswered and EveryScanEnds *)

\* The steps that a request still has before it, at most: three for each question
\* to the model that may follow.
AskLeft(at, posts) ==
  CASE at = "history" -> 10               [] at = "warm"    -> 9
    [] at = "post"    -> 8 - 3 * posts    [] at = "posted"  -> 10 - 3 * posts
    [] at = "replied" -> 9 - 3 * posts    [] at = "openai"  -> 2
    [] at = "rules"   -> 1                [] OTHER          -> 0
AskStepsLeft(r) == AskLeft(asks[r].at, asks[r].posts)

AsksAdvance == \A r \in AiRequests :
  /\ asks[r] # None => AskStepsLeft(r) \in 0 .. 10 /\ (asks'[r] = asks[r] \/ Handle(r))
  /\ Handle(r) => AskStepsLeft(r)' < AskStepsLeft(r)

\* Whatever a step makes of a request, if it is further on, the request advances.
LEMMA AskMoves ==
  ASSUME AiInv, NEW r \in AiRequests, NEW state, Go(r, state)
  PROVE  asks'[r] = state
BY DEF Go, AiInv

LEMMA AskAdvances ==
  ASSUME AiInv, NEW r \in AiRequests, Handle(r)
  PROVE  asks[r] # None /\ AskStepsLeft(r)' < AskStepsLeft(r)
<1> DEFINE ask == asks[r]
           n == ask.posts
<1>1. ask # None /\ ask \in AskRow /\ AskSound(ask)
  <2>1. \E stage \in Stages : At(r, stage)
    BY DEF Handle, RetrieveVerifiedHistory, Warm, Post, Retry, UseNvidia, FailNvidia,
       LoseNvidia, UseOpenAi, FailOpenAi, UseRules, ServiceReplies, GatewayReplies, Stages
  <2> QED BY <2>1 DEF At, AiInv
<1>2. n \in 0 .. 2
  BY <1>1 DEF AskRow
<1>3. AskStepsLeft(r) = AskLeft(ask.at, n)
      /\ AskStepsLeft(r)' = AskLeft(asks'[r].at, asks'[r].posts)
  BY DEF AskStepsLeft
<1>4. CASE RetrieveVerifiedHistory(r)
  <2>1. FirstStage \in {"warm", "openai", "rules"} /\ ask.at = "history"
    BY <1>4 DEF FirstStage, RetrieveVerifiedHistory, At
  <2>2. asks'[r] = [ask EXCEPT !.at = FirstStage, !.sources = Newest(Relevant(ask.question))]
    BY <1>4, AskMoves DEF RetrieveVerifiedHistory, Ask
  <2>3. asks'[r].at = FirstStage /\ asks'[r].posts = n
    BY <1>1, <2>2 DEF AskRow
  <2>4. \A at \in {"warm", "openai", "rules"} : AskLeft(at, n) < AskLeft("history", n)
    BY DEF AskLeft
  <2> HIDE DEF n
  <2> QED BY <1>1, <1>3, <2>1, <2>3, <2>4
<1>5. CASE Warm(r)
  <2>1. asks'[r] = [ask EXCEPT !.at = "post"] /\ ask.at = "warm"
    BY <1>5, AskMoves DEF Warm, Ask, At
  <2>2. asks'[r].at = "post" /\ asks'[r].posts = n
    BY <1>1, <2>1 DEF AskRow
  <2>3. AskLeft("post", n) < AskLeft("warm", n)
    BY <1>2 DEF AskLeft
  <2> HIDE DEF n
  <2> QED BY <1>1, <1>3, <2>1, <2>2, <2>3
<1>6. CASE Post(r)
  <2>1. asks'[r] = [ask EXCEPT !.at = "posted", !.posts = @ + 1,
                               !.earlier = ask.reply, !.reply = None]
        /\ ask.at = "post"
    BY <1>6, AskMoves DEF Post, Ask, At
  <2>2. asks'[r].at = "posted" /\ asks'[r].posts = n + 1
    BY <1>1, <2>1 DEF AskRow
  <2>3. n \in 0 .. 1
    BY <1>1, <2>1 DEF AskSound, PostSound
  <2> HIDE DEF n
  <2>4. AskLeft("posted", n + 1) < AskLeft("post", n)
    BY <2>3 DEF AskLeft
  <2> QED BY <1>1, <1>3, <2>1, <2>2, <2>3, <2>4
<1>7. CASE Retry(r)
  <2>1. asks'[r] = [ask EXCEPT !.at = "post"] /\ ask.at = "replied"
    BY <1>7, AskMoves DEF Retry, Ask, At
  <2>2. asks'[r].at = "post" /\ asks'[r].posts = n
    BY <1>1, <2>1 DEF AskRow
  <2> HIDE DEF n
  <2>3. AskLeft("post", n) < AskLeft("replied", n)
    BY <1>2 DEF AskLeft
  <2> QED BY <1>1, <1>3, <2>1, <2>2, <2>3
<1>8. CASE FailNvidia(r) \/ LoseNvidia(r) \/ FailOpenAi(r)
  <2>1. /\ \/ asks'[r] = [ask EXCEPT !.at = "rules", !.reply = None]
           \/ asks'[r] = [ask EXCEPT !.at = "rules"]
        /\ ask.at \in {"replied", "posted", "openai"}
    BY <1>8, AskMoves DEF FailNvidia, LoseNvidia, FailOpenAi, Ask, At
  <2>2. asks'[r].at = "rules" /\ asks'[r].posts = n
    BY <1>1, <2>1 DEF AskRow
  <2> HIDE DEF n
  <2>3. \A old \in {"replied", "posted", "openai"} : AskLeft("rules", n) < AskLeft(old, n)
    BY <1>2 DEF AskLeft
  <2> QED BY <1>1, <1>3, <2>1, <2>2, <2>3
<1>9. CASE UseNvidia(r) \/ UseOpenAi(r) \/ UseRules(r)
  <2>1. ask.at \in {"replied", "openai", "rules"}
    BY <1>9 DEF UseNvidia, UseOpenAi, UseRules, At
  <2>2. PICK recommendation, label, provider : Answered(r, recommendation, label, provider)
    BY <1>9 DEF UseNvidia, UseOpenAi, UseRules
  <2>3. PICK shown :
          asks'[r] = [ask EXCEPT !.at = "answered", !.reply = None, !.answer = shown]
    BY <2>2, AskMoves DEF Answered, Ask
  <2>4. asks'[r].at = "answered" /\ asks'[r].posts = n
    BY <1>1, <2>3 DEF AskRow
  <2> HIDE DEF n
  <2>5. \A old \in {"replied", "openai", "rules"} : AskLeft("answered", n) < AskLeft(old, n)
    BY <1>2 DEF AskLeft
  <2> QED BY <1>1, <1>3, <2>1, <2>4, <2>5
<1>10. CASE ServiceReplies(r) \/ GatewayReplies(r)
  <2>1. PICK reply : asks'[r] = [ask EXCEPT !.at = "replied", !.reply = reply]
    <3>1. CASE ServiceReplies(r)
      BY <3>1, AskMoves DEF ServiceReplies, Ask
    <3>2. CASE GatewayReplies(r)
      <4>1. PICK status : Go(r, [ask EXCEPT !.at = "replied", !.reply = Failure(status)])
        BY <3>2 DEF GatewayReplies, Ask
      <4> QED BY <4>1, AskMoves
    <3> QED BY <1>10, <3>1, <3>2
  <2>2. asks'[r].at = "replied" /\ asks'[r].posts = n /\ ask.at = "posted"
    BY <1>1, <1>10, <2>1 DEF AskRow, ServiceReplies, GatewayReplies, At
  <2> HIDE DEF n
  <2>3. AskLeft("replied", n) < AskLeft("posted", n)
    BY <1>2 DEF AskLeft
  <2> QED BY <1>1, <1>3, <2>2, <2>3
<1> QED BY <1>1, <1>4, <1>5, <1>6, <1>7, <1>8, <1>9, <1>10 DEF Handle

LEMMA AskStepAdvances ==
  ASSUME AiInv, [AiNext]_aiVars PROVE AsksAdvance
<1>1. AiInv'
  BY AiStep
<1>2. ASSUME NEW r \in AiRequests, asks[r] # None PROVE AskStepsLeft(r) \in 0 .. 10
  <2>1. asks[r] \in AskRow /\ AskSound(asks[r])
    BY <1>2 DEF AiInv
  <2>2. /\ asks[r].at \in Stages /\ asks[r].posts \in 0 .. 2
        /\ asks[r].at = "post" => asks[r].posts \in 0 .. 1
    BY <2>1 DEF AskRow, AskSound, PostSound
  <2>3. ASSUME NEW at \in Stages, NEW posts \in 0 .. 2, at = "post" => posts \in 0 .. 1
        PROVE  AskLeft(at, posts) \in 0 .. 10
    BY <2>3 DEF AskLeft, Stages
  <2> QED BY <2>2, <2>3 DEF AskStepsLeft
<1>3. ASSUME NEW r \in AiRequests, asks[r] # None PROVE asks'[r] = asks[r] \/ Handle(r)
  <2>1. ASSUME NEW s \in AiRequests, NEW q \in Asked, ReceiveQuestion(s, q)
        PROVE  asks'[r] = asks[r]
    BY <1>3, <2>1 DEF ReceiveQuestion, Go, AiInv
  <2>2. ASSUME NEW s \in AiRequests, Handle(s), s # r PROVE asks'[r] = asks[r]
    <3>1. PICK state : Go(s, state)
      BY <2>2 DEF Handle, RetrieveVerifiedHistory, Warm, Post, Retry, UseNvidia,
         FailNvidia, LoseNvidia, UseOpenAi, FailOpenAi, UseRules, ServiceReplies,
         GatewayReplies, Answered
    <3> QED BY <2>2, <3>1 DEF Go, AiInv
  <2>3. CASE UNCHANGED aiVars
    BY <2>3 DEF aiVars
  <2> QED BY <2>1, <2>2, <2>3 DEF AiNext
<1> QED BY <1>2, <1>3, AskAdvances DEF AsksAdvance

\* A recommendation takes ten steps at most, the second question to the model
\* included, and none but its own steps move it: so the 90 seconds of each call
\* and the falling back bound the time of every answer.
THEOREM RecommendationsAdvance == AiSpec => [][AsksAdvance]_aiVars
<1>1. AiInv /\ [AiNext]_aiVars => AiInv'
  BY AiStep
<1>2. AiInv /\ [AiNext]_aiVars => AsksAdvance
  BY AskStepAdvances
<1> QED BY InitAi, <1>1, <1>2, PTL DEF AiSpec

\* The steps that a scan still has before it, at most: one for each file that it
\* has not read, and those of the stages.
Unread(scan) == ToSet(scan.paths) \ Read(scan)
ScanLeft(scan) ==
  CASE scan.at = "metadata" -> MaxManifests + 4
    [] scan.at = "tree"     -> MaxManifests + 3
    [] scan.at = "files"    -> Cardinality(Unread(scan)) + 2
    [] scan.at = "osv"      -> 1
    [] OTHER                -> 0

ScansAdvance == \A r \in Scans :
  /\ scans[r] # None => /\ ScanLeft(scans[r]) \in 0 .. MaxManifests + 4
                        /\ scans'[r] # None /\ (~Running(r) => scans'[r] = scans[r])
                        /\ ScanLeft(scans'[r]) <= ScanLeft(scans[r])
  /\ Work(r) => ScanLeft(scans'[r]) < ScanLeft(scans[r])

\* No more files are to be read than there are places in the list.
LEMMA FewUnread ==
  ASSUME NEW scan, ScanSound(scan)
  PROVE  IsFiniteSet(Unread(scan)) /\ Cardinality(Unread(scan)) \in 0 .. MaxManifests
<1> DEFINE s == scan.paths
           T == ToSet(s)
<1>1. s \in Seq(Paths) /\ Len(s) \in Nat /\ Len(s) <= MaxManifests
      /\ MaxManifests \in Nat
  BY ScanAssumption DEF ScanSound, ScanRow
<1>2. DOMAIN s = 1 .. Len(s) /\ T = {s[i] : i \in 1 .. Len(s)}
  BY <1>1 DEF ToSet
<1>3. IsFiniteSet(1 .. Len(s)) /\ Cardinality(1 .. Len(s)) = Len(s)
  <2>1. IsFiniteSet(1 .. Len(s))
        /\ Cardinality(1 .. Len(s)) = IF 1 > Len(s) THEN 0 ELSE Len(s) - 1 + 1
    <3>1. 1 \in Int /\ Len(s) \in Int
      BY <1>1
    <3> QED BY <3>1, FS_Interval, Zenon
  <2> HIDE DEF s
  <2> QED BY <1>1, <2>1
<1> HIDE DEF T
<1>4. IsFiniteSet(T) /\ Cardinality(T) <= Len(s)
  BY <1>2, <1>3, FiniteImage
<1>5. Unread(scan) \in SUBSET T
  BY DEF Unread, T
<1>6. IsFiniteSet(Unread(scan)) /\ Cardinality(Unread(scan)) <= Cardinality(T)
  BY <1>4, <1>5, FS_Subset
<1>7. Cardinality(Unread(scan)) \in Nat /\ Cardinality(T) \in Nat
  BY <1>4, <1>6, FS_CardinalityType
<1> HIDE DEF s
<1> QED BY <1>1, <1>4, <1>6, <1>7

LEMMA ScanLeftBounded ==
  ASSUME NEW scan, ScanSound(scan)
  PROVE  ScanLeft(scan) \in 0 .. MaxManifests + 4
<1>1. Cardinality(Unread(scan)) \in 0 .. MaxManifests /\ MaxManifests \in Nat
  BY FewUnread, ScanAssumption
<1> QED BY <1>1 DEF ScanLeft

\* What a scan is given by its steps.
LEMMA WorkAdvances ==
  ASSUME ScanInv, NEW r \in Scans, Work(r)
  PROVE  /\ scans[r] # None /\ scans'[r] # None /\ Running(r)
         /\ \A s \in Scans : s # r => scans'[s] = scans[s]
         /\ ScanLeft(scans'[r]) < ScanLeft(scans[r])
<1> DEFINE scan == scans[r]
           next == scans'[r]
           unread == Cardinality(Unread(scan))
<1>1. scan # None /\ Running(r)
  BY DEF Work, ReadMetadata, ListManifests, ReadFile, ParseManifests, QueryOsv,
     ExternalFails, InScan, Running
<1>2. ScanSound(scan) /\ scan \in ScanRow /\ scan.at \in ScanStages \ {"done", "failed"}
  BY <1>1, RunningScan DEF Running, ScanRow
<1>3. unread \in 0 .. MaxManifests /\ MaxManifests \in Nat /\ IsFiniteSet(Unread(scan))
  BY <1>2, FewUnread, ScanAssumption
<1>4. ASSUME NEW state, Continue(r, state)
      PROVE  next = state /\ \A s \in Scans : s # r => scans'[s] = scans[s]
  BY <1>4 DEF Continue, ScanInv
<1>5. ASSUME NEW stage \in ScanStages, Continue(r, [scan EXCEPT !.at = stage])
      PROVE  next # None /\ next.at = stage
  <2>1. next = [scan EXCEPT !.at = stage]
    BY <1>4, <1>5
  <2>2. next \in ScanRow /\ next.at = stage
    BY <1>2, <2>1 DEF ScanRow
  <2> QED BY <2>2, ScanAssumption
<1>6. PICK state : Continue(r, state)
  BY DEF Work, ReadMetadata, ListManifests, ReadFile, ParseManifests, QueryOsv,
     ExternalFails, Fail
<1>7. \A s \in Scans : s # r => scans'[s] = scans[s]
  BY <1>4, <1>6
<1>8. CASE Fail(r)
  <2>1. next # None /\ next.at = "failed"
    BY <1>5, <1>8 DEF Fail, ScanStages
  <2>2. ScanLeft(next) = 0
    BY <2>1 DEF ScanLeft
  <2>3. ScanLeft(scan) > 0
    <3> HIDE DEF unread
    <3> QED BY <1>2, <1>3 DEF ScanLeft, ScanStages, unread
  <2> QED BY <1>1, <1>7, <2>1, <2>2, <2>3
<1>9. CASE ReadMetadata(r)
  <2>1. scan.at = "metadata" /\ next # None /\ next.at = "tree"
    BY <1>5, <1>9 DEF ReadMetadata, InScan, ScanStages
  <2>2. ScanLeft(next) < ScanLeft(scan)
    BY <1>3, <2>1 DEF ScanLeft
  <2> QED BY <1>1, <1>7, <2>1, <2>2
<1>10. CASE ListManifests(r) /\ ~Fail(r)
  <2>1. /\ scan.at = "tree"
        /\ next = [scan EXCEPT !.at = "files", !.paths = Slice(Tree(head), MaxManifests)]
    BY <1>4, <1>10 DEF ListManifests, InScan
  <2>2. /\ Slice(Tree(head), MaxManifests) \in Seq(Paths)
        /\ Len(Slice(Tree(head), MaxManifests)) <= MaxManifests
    BY ScanAssumption, SliceProperties DEF ScanInv
  <2>3. /\ next \in ScanRow /\ next.at = "files"
    BY <1>2, <2>1, <2>2 DEF ScanRow, ScanStages
  <2>4. next # None
    BY <2>3, ScanAssumption
  <2>5. Cardinality(Unread(next)) \in 0 .. MaxManifests
    <3>1. ScanInv'
      BY ListKeeps, <1>10
    <3>2. ScanSound(next)
      BY <2>4, <3>1 DEF ScanInv, ScanSound, ReadOfHeads, AllRead, Read, Report
    <3> QED BY <3>2, FewUnread
  <2>6. ScanLeft(next) < ScanLeft(scan)
    <3>1. ScanLeft(next) = Cardinality(Unread(next)) + 2 /\ ScanLeft(scan) = MaxManifests + 3
      BY <2>1, <2>3 DEF ScanLeft
    <3> QED BY <1>3, <2>5, <3>1
  <2> QED BY <1>1, <1>7, <2>4, <2>6
<1>11. CASE ReadFile(r)
  <2>1. PICK p \in Missing(r) :
          /\ p \in ToSet(Tree(head))
          /\ Continue(r, [scan EXCEPT !.texts[p] = Content(head, p)])
    BY <1>11 DEF ReadFile
  <2>2. p \in Unread(scan) /\ p \in Paths /\ scan.at = "files"
    BY <1>2, <1>11, <2>1 DEF ReadFile, InScan, Missing, Unread, ToSet, ScanRow
  <2>3. Content(head, p) \in Texts /\ Content(head, p) # None
    BY <2>1, ScanAssumption DEF ScanInv
  <2>4. next = [scan EXCEPT !.texts[p] = Content(head, p)]
    BY <1>4, <2>1
  <2>5. /\ next \in ScanRow /\ next.at = "files" /\ next.paths = scan.paths
        /\ next.texts = [scan.texts EXCEPT ![p] = Content(head, p)]
    BY <1>2, <2>2, <2>3, <2>4 DEF ScanRow
  <2>6. Unread(next) = Unread(scan) \ {p}
    BY <1>2, <2>2, <2>3, <2>5 DEF Unread, Read, ScanRow
  <2>7. Cardinality(Unread(next)) = unread - 1
    BY <1>3, <2>2, <2>6, FS_RemoveElement
  <2>8. ScanLeft(next) < ScanLeft(scan)
    <3>1. ScanLeft(next) = Cardinality(Unread(next)) + 2 /\ ScanLeft(scan) = unread + 2
      BY <2>2, <2>5 DEF ScanLeft
    <3> QED BY <1>3, <2>7, <3>1
  <2> QED BY <1>1, <1>7, <2>5, <2>8, ScanAssumption
<1>12. CASE ParseManifests(r) /\ ~Fail(r)
  <2>1. scan.at = "files" /\ next # None /\ next.at = "osv"
    BY <1>5, <1>12 DEF ParseManifests, InScan, ScanStages
  <2>2. ScanLeft(next) = 1 /\ ScanLeft(scan) = unread + 2
    BY <2>1 DEF ScanLeft
  <2> QED BY <1>1, <1>3, <1>7, <2>1, <2>2
<1>13. CASE QueryOsv(r)
  <2>1. scan.at = "osv" /\ next = [scan EXCEPT !.at = "done", !.report = Report(scan)]
    BY <1>4, <1>13 DEF QueryOsv, InScan, Report
  <2>2. AllRead(scan) /\ Collected(scan) # {}
    BY <1>2, <2>1 DEF ScanSound
  <2>3. next \in ScanRow /\ next.at = "done"
    <3>1. PICK report \in Reports : report = Report(scan)
      BY <2>2, ReportTyped
    <3> QED BY <1>2, <2>1, <3>1 DEF ScanRow, ScanStages
  <2>4. ScanLeft(next) = 0 /\ ScanLeft(scan) = 1
    BY <2>1, <2>3 DEF ScanLeft
  <2> QED BY <1>1, <1>7, <2>3, <2>4, ScanAssumption
<1> QED BY <1>8, <1>9, <1>10, <1>11, <1>12, <1>13 DEF Work, ExternalFails

LEMMA ScanStepAdvances ==
  ASSUME ScanInv, [ScanNext]_scanVars PROVE ScansAdvance
<1> SUFFICES ASSUME NEW r \in Scans
             PROVE  /\ scans[r] # None =>
                         /\ ScanLeft(scans[r]) \in 0 .. MaxManifests + 4
                         /\ scans'[r] # None /\ (~Running(r) => scans'[r] = scans[r])
                         /\ ScanLeft(scans'[r]) <= ScanLeft(scans[r])
                    /\ Work(r) => ScanLeft(scans'[r]) < ScanLeft(scans[r])
  BY DEF ScansAdvance
<1>1. scans[r] # None => ScanLeft(scans[r]) \in 0 .. MaxManifests + 4
  BY RunningScan, ScanLeftBounded
<1>2. ASSUME scans'[r] = scans[r], ~Work(r)
      PROVE  /\ scans[r] # None => scans'[r] # None
             /\ scans[r] # None => ScanLeft(scans'[r]) <= ScanLeft(scans[r])
  <2> DEFINE n == ScanLeft(scans[r])
  <2>1. scans[r] # None => n \in Nat
    BY <1>1, ScanAssumption
  <2> HIDE DEF n
  <2>2. scans[r] # None => n <= n
    BY <2>1
  <2> QED BY <1>2, <2>2 DEF n
<1>3. CASE Work(r)
  <2>1. scans[r] # None /\ scans'[r] # None /\ Running(r)
        /\ ScanLeft(scans'[r]) < ScanLeft(scans[r])
    BY <1>3, WorkAdvances
  <2>2. ScanSound(scans'[r])
    <3>1. ScanInv'
      BY ScanStep
    <3> QED BY <2>1, <3>1 DEF ScanInv, ScanSound, ReadOfHeads, AllRead, Read, Report
  <2>3. ScanLeft(scans[r]) \in Nat /\ ScanLeft(scans'[r]) \in Nat
    BY <1>1, <2>1, <2>2, ScanLeftBounded, ScanAssumption
  <2>4. ScanLeft(scans'[r]) <= ScanLeft(scans[r])
    BY <2>1, <2>3
  <2> QED BY <1>1, <2>1, <2>4
<1>4. CASE ~Work(r)
  <2>1. ASSUME NEW s \in Scans, StartScan(s), scans[r] # None PROVE scans'[r] = scans[r]
    BY <2>1 DEF StartScan, Continue, ScanInv
  <2>2. ASSUME NEW s \in Scans, Work(s) PROVE scans'[r] = scans[r]
    BY <1>4, <2>2, WorkAdvances
  <2>3. ASSUME NEW c \in Commits, Push(c), scans[r] # None
        PROVE  /\ scans'[r] # None /\ (~Running(r) => scans'[r] = scans[r])
               /\ ScanLeft(scans'[r]) <= ScanLeft(scans[r])
    <3>1. CASE ~Running(r)
      <4>1. scans'[r] = scans[r]
        BY <2>3, <3>1 DEF Push
      <4> QED BY <1>2, <1>4, <2>3, <4>1
    <3>2. CASE Running(r)
      <4> DEFINE scan == scans[r]
                 next == [scan EXCEPT !.heads = @ \cup {c}]
      <4>1. scans'[r] = next
        BY <2>3, <3>2 DEF Push
      <4>2. scan \in ScanRow
        BY <2>3, RunningScan
      <4>3. /\ next \in ScanRow /\ next.at = scan.at /\ next.paths = scan.paths
            /\ next.texts = scan.texts
        BY <4>2 DEF ScanRow
      <4>4. ScanLeft(next) = ScanLeft(scan) /\ next # None
        BY <4>3, ScanAssumption DEF ScanLeft, Unread, Read
      <4> DEFINE n == ScanLeft(scan)
      <4>5. n \in Nat
        BY <1>1, <2>3, ScanAssumption
      <4> HIDE DEF n
      <4>6. n <= n
        BY <4>5
      <4> HIDE DEF next
      <4> QED BY <3>2, <4>1, <4>4, <4>6 DEF n
    <3> QED BY <3>1, <3>2
  <2>4. CASE UNCHANGED scanVars
    BY <1>1, <1>2, <1>4, <2>4 DEF scanVars
  <2> QED BY <1>1, <1>2, <1>4, <2>1, <2>2, <2>3, <2>4 DEF ScanNext
<1> QED BY <1>3, <1>4

\* A scan takes no more steps than four and one for each manifest that is read at
\* most, whoever pushes meanwhile; no step of another scan, or push, sets it back,
\* and a scan that is over stays as it is.
THEOREM ScansAdvanceAlways == ScanSpec => [][ScansAdvance]_scanVars
<1>1. ScanInv /\ [ScanNext]_scanVars => ScansAdvance
  BY ScanStepAdvances
<1> QED BY <1>1, ScanInitial, ScanStep, PTL DEF ScanSpec
=============================================================================
