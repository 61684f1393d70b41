------------------------------ MODULE Discovery ------------------------------
(* The search for devices: src/lib/services/discovery-service.ts, with what it   *)
(* takes of discovery-protocol.ts.  A request makes a job, and the job runs at   *)
(* once or is refused because another run holds the only context; while there   *)
(* is one, the background polls are skipped.  Requests also drop the jobs that   *)
(* said nothing for ten minutes, a running one included.                       *)
EXTENDS FiniteSets, SequencesExt

CONSTANTS
  Jobs,        \* the identifiers a request may draw
  Hosts,       \* the addresses of the subnets
  Configured,  \* the addresses of the configured devices
  Roles,       \* the classes that are probed for
  Nobody       \* no context; no host of a role

VARIABLES
  jobs,        \* job -> "none", "running", "complete", "failed", "dropped": discoveryJobs
  silent,      \* the jobs of which ten minutes ago was the last word
  context,     \* the job of discoveryRunContext, or Nobody
  stage,       \* the await of the run
  found,       \* the answers in their order: <<host, role>>
  left,        \* the hosts still to identify
  suggested    \* role -> the host of the suggested configuration

discoveryVars == <<jobs, silent, context, stage, found, left, suggested>>

Answers == Hosts \X Roles
RunStages == {"none", "scan", "broadcast", "identify"}

ASSUME SearchAssumption ==
  /\ IsFiniteSet(Hosts \cup Configured) /\ IsFiniteSet(Roles)
  /\ Nobody \notin Jobs

DiscoveryTypeOK ==
  /\ jobs \in [Jobs -> {"none", "running", "complete", "failed", "dropped"}]
  /\ silent \subseteq Jobs
  /\ context \in Jobs \cup {Nobody}
  /\ stage \in RunStages /\ (stage = "none" <=> context = Nobody)
  /\ ToSet(found) \subseteq (Hosts \cup Configured) \X Roles
  /\ left \subseteq Hosts \cup Configured
  /\ \A j \in Jobs : jobs[j] = "running" => context = j

DiscoveryInit ==
  /\ jobs = [j \in Jobs |-> "none"]
  /\ silent = {}
  /\ context = Nobody /\ stage = "none"
  /\ found = <<>> /\ left = {}
  /\ suggested = [r \in Roles |-> Nobody]

-----------------------------------------------------------------------------
(* cleanupDiscoveryJobs and updateDiscoveryJob.                               *)
Cleaned == [j \in Jobs |-> IF j \in silent THEN "dropped" ELSE jobs[j]]
Speaks == silent' = silent \ {context}

\* A job that was dropped while it ran is updated where nobody finds it.
Becomes(status) == jobs' = [jobs EXCEPT ![context] = IF @ = "dropped" THEN @ ELSE status]

\* startJob: the run begins, or fails at once because another holds the context.
StartJob(j) ==
  /\ jobs[j] = "none"
  /\ silent' = {}
  /\ IF context = Nobody
       THEN /\ jobs' = [Cleaned EXCEPT ![j] = "running"]
            /\ context' = j /\ stage' = "scan"
            /\ found' = <<>> /\ left' = {}
       ELSE /\ jobs' = [Cleaned EXCEPT ![j] = "failed"]
            /\ UNCHANGED <<context, stage, found, left>>
  /\ UNCHANGED suggested

GetJob ==
  /\ silent # {}
  /\ jobs' = Cleaned /\ silent' = {}
  /\ UNCHANGED <<context, stage, found, left, suggested>>

TenMinutes ==
  /\ \E j \in Jobs \ silent : jobs[j] \in {"running", "complete", "failed"} /\ silent' = silent \cup {j}
  /\ UNCHANGED <<jobs, context, stage, found, left, suggested>>

-----------------------------------------------------------------------------
(* The run.                                                                  *)

\* addDiscoveredInstance: an answer counts once.
Answer ==
  /\ stage = "scan"
  /\ \E a \in Answers \ ToSet(found) : found' = Append(found, a)
  /\ Speaks
  /\ UNCHANGED <<jobs, context, stage, left, suggested>>

\* Hosts that answered and configured ones are asked for every class.
Identify(answers) ==
  /\ found' = answers
  /\ left' = {a[1] : a \in ToSet(answers)} \cup Configured
  /\ stage' = "identify"

ScanEnds(mode) ==
  /\ stage = "scan"
  /\ IF mode = "active" THEN Identify(found)
                        ELSE stage' = "broadcast" /\ UNCHANGED <<found, left>>
  /\ Speaks
  /\ UNCHANGED <<jobs, context, suggested>>

\* The discover command of the device queue; what it found joins the answers.
Broadcast ==
  /\ stage = "broadcast"
  /\ \E more \in SUBSET (Answers \ ToSet(found)) :
       Cardinality(more) <= 1 /\ Identify(found \o SetToSeq(more))
  /\ Speaks
  /\ UNCHANGED <<jobs, context, suggested>>

\* One host: a silent class is no failure.
IdentifyHost ==
  /\ stage = "identify"
  /\ \E h \in left, detected \in SUBSET Roles :
       /\ left' = left \ {h}
       /\ found' = found \o SetToSeq({<<h, r>> : r \in detected} \ ToSet(found))
  /\ Speaks
  /\ UNCHANGED <<jobs, context, stage, suggested>>

\* suggestedConfigFromDiscovery: of the hosts with a role, in the order in which
\* they were found first, the last one.
HostOrder == FoldLeft(LAMBDA s, a : IF a[1] \in ToSet(s) THEN s ELSE Append(s, a[1]), <<>>, found)
Suggestion(r) ==
  LET having == SelectSeq(HostOrder, LAMBDA h : <<h, r>> \in ToSet(found))
  IN IF having = <<>> THEN Nobody ELSE Last(having)

Release ==
  /\ context' = Nobody /\ stage' = "none"
  /\ found' = <<>> /\ left' = {}
  /\ Speaks

Complete ==
  /\ stage = "identify" /\ left = {}
  /\ suggested' = [r \in Roles |-> Suggestion(r)]
  /\ Becomes("complete") /\ Release

\* The socket cannot be bound, or the discover command fails.
FailRunKeeping ==
  /\ stage \in {"scan", "broadcast"}
  /\ Becomes("failed")
  /\ stage' = "scan" /\ Speaks
  /\ UNCHANGED <<context, found, left, suggested>>

FailRun ==
  /\ stage \in {"scan", "broadcast"}
  /\ Becomes("failed") /\ Release
  /\ UNCHANGED suggested

RunStep == ScanEnds("active") \/ ScanEnds("broadcast") \/ Broadcast \/ IdentifyHost \/ Complete \/ FailRun

DiscoveryNext ==
  \/ \E j \in Jobs : StartJob(j)
  \/ GetJob \/ TenMinutes \/ Answer \/ RunStep

DiscoveryFairness == WF_discoveryVars(RunStep)

-----------------------------------------------------------------------------
(* A run lets go of the context whatever becomes of it and of its job, so that    *)
(* the polls it holds off go on (withDiscoveryRun).                            *)
DiscoveryReleases == context # Nobody ~> context = Nobody
=============================================================================
