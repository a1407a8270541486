-------------------------- MODULE MCSwaggerDefinition --------------------------
(***************************************************************************)
(* Instances of SwaggerDefinition for TLC: the specs users write, and the  *)
(* states the run "definition" starts in.                                  *)
(***************************************************************************)
EXTENDS SwaggerDefinitionProperties, Functions

Plain == [url |-> TRUE, https |-> TRUE, auth |-> FALSE, allowInsecure |-> FALSE,
          username |-> FALSE, suspend |-> FALSE, interval |-> FALSE, timeout |-> FALSE]
Polled == [Plain EXCEPT !.interval = TRUE]
Timed == [Plain EXCEPT !.timeout = TRUE]
Suspended == [Plain EXCEPT !.suspend = TRUE]
NoUrl == [Polled EXCEPT !.url = FALSE]
Secured == [Polled EXCEPT !.auth = TRUE]
Insecure == [Secured EXCEPT !.https = FALSE]
SecuredTimed == [Secured EXCEPT !.timeout = TRUE]
PolledTimed == [Timed EXCEPT !.interval = TRUE]

MCSpecs == {Plain, NoUrl, Insecure, SecuredTimed, Suspended}
MCPolledTimedSpecs == {PolledTimed}
MCPlainSpecs == {Plain}

Uids == CHOOSE uids \in [Definitions -> 1..MaxClock] : IsInjective(uids)

\* A controller that has just started, its queue full: there are more definitions
\* than workers, their API hangs and nothing disturbs them any more.
Crowd ==
  /\ \E specs \in [Definitions -> {Plain, SecuredTimed, NoUrl}] :
       definition = [d \in Definitions |-> NewObject(Uids[d], specs[d])]
  /\ cached = definition
  /\ configMap = [d \in Definitions |-> None]
  /\ cachedConfigMap = configMap
  /\ unseen = {}
  /\ upstream = [mode |-> "hang", version |-> 0]
  /\ secret = SecretKeys
  /\ queue = Definitions
  /\ delayed = {}
  /\ attempt = [w \in Workers |-> None]
  /\ clock = MaxClock

MCInit == (Init /\ secret = SecretKeys) \/ Crowd

\* The one definition users create and edit; the others are those of Crowd.
Edited == CHOOSE d \in Definitions : TRUE

MCNext ==
  \/ Environment(Edited)
  \/ \E d \in Definitions : Cluster(d)
  \/ UpstreamChanges \/ SecretChanges \/ Restart
  \/ \E w \in Workers, d \in Definitions : Start(w, d)
  \/ \E w \in Workers : Expire(w) \/ Fetch(w) \/ Write(w) \/ Patch(w)

\* Steps of Spec, with its fairness.
MCSpec == MCInit /\ [][MCNext]_vars /\ Fairness

===============================================================================
