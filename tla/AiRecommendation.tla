-------------------------- MODULE AiRecommendation --------------------------
(***************************************************************************)
(* Remediation recommendations: the backend's handler                      *)
(* (ai-recommendations.service.ts) and the NVIDIA service it calls         *)
(* (ai-service/app).  A request collects the verified history of the       *)
(* organization, asks the configured provider and falls back to the rules  *)
(* engine when the provider fails in any way.                              *)
(*                                                                         *)
(* Of a recommendation the priority and the action type are kept, of the   *)
(* texts only whether the prompt is too long for the service.  Between the *)
(* two services stands a gateway that may answer 502 in place of the       *)
(* service, before or after the service has worked.                        *)
(***************************************************************************)
EXTENDS Naturals, FiniteSets, Absence

CONSTANTS
  AiRequests, Orgs,
  PastActions, \* remediation actions, numbered in the order of their completion
  Asked,      \* findings that are asked about: a set of Question
  Said,       \* what models recommend: a set of Recommendation
  Histories,  \* what the past actions may be: [PastActions -> PastAction]
  Deployments \* configurations of the two services: a set of Deployment

VARIABLES
  deployment, \* how the services are configured
  past,       \* remediation actions whose texts may be retrieved
  asks        \* the state of each request

aiVars == <<deployment, past, asks>>

Priorities == {"Critical", "High", "Medium", "Low"}
ActionTypes == {"UPDATE_SOFTWARE", "CONFIGURATION_CHANGE", "REMOVE_SOFTWARE",
                "ACCEPT_RISK", "VERIFY_PATCH", "OTHER"}
Recommendation == [priority : Priorities, action : ActionTypes]
Exploits == {"PUBLIC_EXPLOIT_AVAILABLE", "NO_KNOWN_EXPLOIT", "UNKNOWN"}
Fixes == {"FIX_AVAILABLE", "NO_FIX_AVAILABLE", "UNKNOWN"}

\* org: of the caller; cve and software: whether they are given; roomy: whether
\* the text of the past actions still fits the description the service accepts.
Question == [org : Orgs, cve : BOOLEAN, software : BOOLEAN,
             exploit : Exploits, fix : Fixes, roomy : BOOLEAN]
Deployment == [provider : {"nvidia", "openai", "none"}, configured : BOOLEAN,
               tokenShared : BOOLEAN, modelKey : BOOLEAN]
PastAction == [org : Orgs, verified : BOOLEAN, cve : BOOLEAN, software : BOOLEAN]

\* A reply of the service: its status and what its body holds.
Nonsense == [priority |-> "nonsense", action |-> "nonsense"]
Replies == [status : {200, 401, 422, 500, 502, 503},
            body : Recommendation \cup {Nonsense}]
Failure(status) == [status |-> status, body |-> Nonsense]

\* "posted": the service works on it; "replied": its reply is on the way.
Stages == {"idle", "history", "warm", "post", "posted", "replied", "openai",
           "rules", "answered"}
NewAsk(q) == [at |-> "history", question |-> q, sources |-> {}, posts |-> 0,
              reply |-> None, earlier |-> None, answer |-> None]
Answers == [recommendation : Recommendation, sla : {24, 72, 168, 336},
            provider : {"nvidia", "openai", "rules"},
            label : {"nvidia", "openai", "rules", "nvidia fallback",
                     "openai fallback"},
            sources : Nat]
AskRow == [at : Stages \ {"idle"}, question : Asked,
           sources : SUBSET PastActions, posts : 0 .. 2,
           reply : Replies \cup {None}, earlier : Replies \cup {None},
           answer : Answers \cup {None}]

\* Past actions are numbered; inputs have their types, and None is no row.
ASSUME AiAssumption ==
  /\ PastActions \subseteq Nat /\ IsFiniteSet(PastActions)
  /\ Asked \subseteq Question /\ Said \subseteq Recommendation
  /\ Histories \subseteq [PastActions -> PastAction] /\ Deployments \subseteq Deployment
  /\ None \notin AskRow /\ None \notin Replies /\ None \notin Answers

AiTypeOK ==
  /\ deployment \in Deployments
  /\ past \in [PastActions -> PastAction]
  /\ \A r \in AiRequests : asks[r] # None => asks[r] \in AskRow

AiInit ==
  /\ deployment \in Deployments
  /\ past \in Histories
  /\ asks = [r \in AiRequests |-> None]

-----------------------------------------------------------------------------
(* The answer *)

RulesPriority(q) ==
  IF q.fix = "NO_FIX_AVAILABLE" THEN "High"
  ELSE IF q.exploit = "PUBLIC_EXPLOIT_AVAILABLE" THEN "Critical"
  ELSE IF q.fix = "FIX_AVAILABLE" THEN "High" ELSE "Medium"
RulesAction(q) ==
  CASE q.fix = "FIX_AVAILABLE"    -> "UPDATE_SOFTWARE"
    [] q.fix = "NO_FIX_AVAILABLE" -> "ACCEPT_RISK"
    [] OTHER                      -> "VERIFY_PATCH"
GenerateWithRules(q) == [priority |-> RulesPriority(q), action |-> RulesAction(q)]

GetSlaHours(priority) ==
  CASE priority = "Critical" -> 24 [] priority = "High" -> 72
    [] priority = "Medium" -> 168  [] priority = "Low"  -> 336
    [] OTHER -> 168

WithMetadata(recommendation, label, provider, sources) ==
  [recommendation |-> recommendation, sla |-> GetSlaHours(recommendation.priority),
   provider |-> provider, label |-> label, sources |-> Cardinality(sources)]

RulesLabel == IF deployment.provider = "none" THEN "rules"
              ELSE IF deployment.provider = "nvidia" THEN "nvidia fallback"
              ELSE "openai fallback"

ValidateRecommendation(body) == body \in Recommendation

-----------------------------------------------------------------------------
(* The handler *)

Ask(r) == asks[r]
At(r, stage) == asks[r] # None /\ asks[r].at = stage
Go(r, state) == asks' = [asks EXCEPT ![r] = state] /\ UNCHANGED <<deployment, past>>
Answered(r, recommendation, label, provider) ==
  Go(r, [Ask(r) EXCEPT !.at = "answered", !.reply = None,
         !.answer = WithMetadata(recommendation, label, provider, Ask(r).sources)])

ReceiveQuestion(r, q) == asks[r] = None /\ Go(r, NewAsk(q))

Relevant(q) == {p \in PastActions :
  /\ past[p].org = q.org /\ past[p].verified
  /\ (q.cve /\ past[p].cve) \/ (q.software /\ past[p].software)}
MaxSources == 3

FirstStage == IF deployment.configured /\ deployment.provider = "nvidia" THEN "warm"
              ELSE IF deployment.configured /\ deployment.provider = "openai"
              THEN "openai" ELSE "rules"

\* The newest of the relevant actions.
Newest(found) == {p \in found : Cardinality({n \in found : n > p}) < MaxSources}
RetrieveVerifiedHistory(r) ==
  /\ At(r, "history")
  /\ Go(r, [Ask(r) EXCEPT !.at = FirstStage,
                           !.sources = Newest(Relevant(Ask(r).question))])

\* The health request wakes the service; what comes of it is ignored.
Warm(r) == At(r, "warm") /\ Go(r, [Ask(r) EXCEPT !.at = "post"])

Post(r) ==
  At(r, "post") /\ Go(r, [Ask(r) EXCEPT !.at = "posted", !.posts = @ + 1,
                          !.earlier = Ask(r).reply, !.reply = None])

Again(ask) == ask.posts < 2 /\ ask.reply.status = 502

Retry(r) ==
  At(r, "replied") /\ Again(Ask(r)) /\ Go(r, [Ask(r) EXCEPT !.at = "post"])

\* Mutant: any reply with status 200 is shown.
NvidiaSucceeds_Unchecked(ask) == ask.reply.status = 200
NvidiaSucceeds(ask) ==
  ask.reply.status = 200 /\ ValidateRecommendation(ask.reply.body)

UseNvidia(r) ==
  /\ At(r, "replied") /\ ~Again(Ask(r)) /\ NvidiaSucceeds(Ask(r))
  /\ Answered(r, Ask(r).reply.body, "nvidia", "nvidia")
FailNvidia(r) ==
  /\ At(r, "replied") /\ ~Again(Ask(r)) /\ ~NvidiaSucceeds(Ask(r))
  /\ Go(r, [Ask(r) EXCEPT !.at = "rules", !.reply = None])
\* The request times out, or the connection breaks: fetch throws.
LoseNvidia(r) ==
  At(r, "posted") /\ Go(r, [Ask(r) EXCEPT !.at = "rules"])

\* One call to OpenAI, answered, refused, cut off or answered with nonsense.
UseOpenAi(r) ==
  /\ At(r, "openai")
  /\ \E body \in Said : Answered(r, body, "openai", "openai")
FailOpenAi(r) == At(r, "openai") /\ Go(r, [Ask(r) EXCEPT !.at = "rules"])

UseRules(r) ==
  At(r, "rules") /\ Answered(r, GenerateWithRules(Ask(r).question),
                             RulesLabel, "rules")

-----------------------------------------------------------------------------
(* The NVIDIA service *)

\* Whether the service takes the token and the context of the request.
Authorize == deployment.tokenShared
ContextFits(ask) == ask.question.roomy \/ ask.sources = {}

\* An error of the model is meant to become a 503.  The handler that says so
\* names httpx, which the module does not import: evaluating it raises a
\* NameError, and the client gets the framework's 500.
Unavailable == 500

\* What the service makes of a reply of the model.
Serve(ask, said) ==
  IF ~Authorize THEN Failure(401)
  ELSE IF ~ContextFits(ask) THEN Failure(422)
  ELSE IF ~deployment.modelKey \/ said = Nonsense THEN Failure(Unavailable)
  ELSE [status |-> 200, body |-> said]

ServiceReplies(r) ==
  /\ At(r, "posted")
  /\ \E said \in Said \cup {Nonsense} :
       Go(r, [Ask(r) EXCEPT !.at = "replied", !.reply = Serve(Ask(r), said)])
\* The gateway answers for the service, or with a page of its own.
GatewayReplies(r) ==
  /\ At(r, "posted")
  /\ \E status \in {200, 502} :
       Go(r, [Ask(r) EXCEPT !.at = "replied", !.reply = Failure(status)])

-----------------------------------------------------------------------------
Handle(r) ==
  \/ RetrieveVerifiedHistory(r) \/ Warm(r) \/ Post(r) \/ Retry(r)
  \/ UseNvidia(r) \/ FailNvidia(r) \/ LoseNvidia(r)
  \/ UseOpenAi(r) \/ FailOpenAi(r) \/ UseRules(r)
  \/ ServiceReplies(r) \/ GatewayReplies(r)

AiNext == \E r \in AiRequests :
  (\E q \in Asked : ReceiveQuestion(r, q)) \/ Handle(r)

\* Every fetch has a timeout, so every stage of a request ends.
AiSpec == AiInit /\ [][AiNext]_aiVars /\ \A r \in AiRequests : WF_aiVars(Handle(r))

-----------------------------------------------------------------------------
(* Properties *)

IsAnswered(r) == At(r, "answered")

\* Action p may be cited in the answer to q: it is verified, of the caller's
\* organization, and about the vulnerability or the software asked for.
Citable(p, q) ==
  past[p].org = q.org /\ past[p].verified
  /\ ((q.cve /\ past[p].cve) \/ (q.software /\ past[p].software))

\* A request cites the newest citable actions, and leaves none out before it
\* cites three.
CitesTheNewest(ask) ==
  /\ Cardinality(ask.sources) <= MaxSources
  /\ \A p \in ask.sources : Citable(p, ask.question)
  /\ \A n \in PastActions \ ask.sources : Citable(n, ask.question) =>
       /\ Cardinality(ask.sources) = MaxSources
       /\ \A p \in ask.sources : n < p

\* The provider that a rules answer stands in for, by its label.
StandsInFor(label) ==
  CASE label = "nvidia fallback" -> "nvidia" [] label = "openai fallback" -> "openai"
    [] OTHER -> "none"

\* An answer that is labelled with a provider comes from that provider and is
\* well formed; a rules answer says which provider it stands in for.  It counts
\* the past actions it was given, which it may cite.
AnswersAreHonest ==
  \A r \in AiRequests : IsAnswered(r) =>
    LET shown == Ask(r).answer IN
    /\ shown.recommendation \in Recommendation
    /\ shown.provider # "rules" =>
         /\ deployment.provider = shown.provider /\ deployment.configured
         /\ shown.label = shown.provider
    /\ shown.provider = "rules" =>
         /\ shown.label \notin {"nvidia", "openai"}
         /\ StandsInFor(shown.label) = deployment.provider
         /\ shown.recommendation = GenerateWithRules(Ask(r).question)
    /\ shown.sources = Cardinality(Ask(r).sources) /\ CitesTheNewest(Ask(r))

\* The model is asked again only if the gateway has refused the first time.
RetriedAfterGatewayOnly ==
  \A r \in AiRequests :
    asks[r] # None /\ Ask(r).posts = 2 => Ask(r).earlier = Failure(502)

\* Two requests for findings that differ only in their exploit, both answered
\* by the rules: the one with a public exploit gets no more time.
ExploitNeverDelays ==
  \A r, s \in AiRequests :
    /\ IsAnswered(r) /\ IsAnswered(s)
    /\ Ask(r).answer.provider = "rules" /\ Ask(s).answer.provider = "rules"
    /\ Ask(r).question.fix = Ask(s).question.fix
    /\ Ask(r).question.exploit = "PUBLIC_EXPLOIT_AVAILABLE"
    => Ask(r).answer.sla <= Ask(s).answer.sla

\* What a caller may trust: who speaks and on what past, how often a model was
\* asked, and that an exploit is never a reason to wait longer.
RecommendationsAreHonest ==
  AnswersAreHonest /\ RetriedAfterGatewayOnly /\ ExploitNeverDelays

\* A request is answered whatever the provider does.
EveryRequestAnswered ==
  \A r \in AiRequests : asks[r] # None ~> IsAnswered(r)

\* A model that fails is reported as unavailable: the reply has status 503, as
\* the handler of the service says.
FailureIsUnavailable ==
  \A r \in AiRequests : At(r, "replied") =>
    Ask(r).reply.status \in {200, 401, 422, 502, 503}
=============================================================================
