----------------------------- MODULE DeployWizard -----------------------------
(***************************************************************************)
(* The wizard of the compute dashboard: choose a repository, configure     *)
(* (build and start command and port are detected), review, deploy.  The   *)
(* component runs in one browser tab, where what interleaves is the user,  *)
(* the answers of the API and the renderings: handleRepoSelect awaits      *)
(* detectConfig while the list of repositories stays open, and goes on     *)
(* whatever the user did meanwhile; a handler is a closure over the        *)
(* configuration that was rendered with its button.                        *)
(*                                                                         *)
(* A configuration is a repository (its URL, default branch and the name   *)
(* derived from it) and settings (everything else), of which only matters  *)
(* where they come from.  The repository list is a stub in these sources   *)
(* that is given onSelect; it is taken to call it on a click.              *)
(***************************************************************************)
EXTENDS Naturals

CONSTANTS
    Repos,          \* the user's repositories
    MaxDetections,  \* bound: detectConfig calls under way for a repository
    MaxPosts        \* bound: POSTs to /deployment/create

NoRepo == "no-repo"

ASSUME WizardAssumption ==
    /\ NoRepo \notin Repos
    /\ {"initial", "edited"} \cap Repos = {}
    /\ MaxDetections \in Nat \ {0}
    /\ MaxPosts \in Nat

VARIABLES
    step,           \* the page the wizard is to show
    selectedRepo,   \* the repository named on the review page
    config,         \* the configuration
    shown,          \* the last rendering, which is what the user clicks in
    detections,     \* detectConfig calls that are awaited, by repository
    posts,          \* how far each POST came, those of earlier visits included
    watched,        \* the POST whose state useMutation reports
    reviewed,       \* history: the configuration when Review was clicked
    sent,           \* history: what the last POST of this visit carried
    clicked         \* history: Deploy was clicked since the last rendering

page_vars == <<step, selectedRepo, config, detections>>

post_vars == <<posts, watched, sent>>

wizard_vars == <<page_vars, shown, post_vars, reviewed, clicked>>

Step == {"repo", "config", "review"}

DeployConfig == [repository: Repos \cup {NoRepo},
                 settings: {"initial", "edited"} \cup Repos]

EmptyConfig == [repository |-> NoRepo, settings |-> "initial"]

Posts == 1..MaxPosts

\* No POST: none was sent in this visit.
NoPost == 0

\* made: carried out by the orchestrator, unknown to the wizard.
PostStates == {"none", "sent", "made", "success", "error"}

\* What useMutation reports of a POST.
MutationStatus == {"idle", "pending", "success", "error"}

Rendering == [step: Step, config: DeployConfig, deploy: MutationStatus]

TypeOK ==
    /\ step \in Step
    /\ selectedRepo \in Repos \cup {NoRepo}
    /\ config \in DeployConfig
    /\ shown \in Rendering
    /\ detections \in [Repos -> 0..MaxDetections]
    /\ posts \in [Posts -> PostStates]
    /\ watched \in Posts \cup {NoPost}
    /\ reviewed \in DeployConfig
    /\ sent \in DeployConfig
    /\ clicked \in BOOLEAN

NoDetections == [repo \in Repos |-> 0]

FirstRendering == [step |-> "repo", config |-> EmptyConfig, deploy |-> "idle"]

Init ==
    /\ step = "repo"
    /\ selectedRepo = NoRepo
    /\ config = EmptyConfig
    /\ shown = FirstRendering
    /\ detections = NoDetections
    /\ posts = [post \in Posts |-> "none"]
    /\ watched = NoPost
    /\ reviewed = EmptyConfig
    /\ sent = EmptyConfig
    /\ clicked = FALSE

UnderWay(post) == posts[post] \in {"sent", "made"}

\* deploy.status
DeployStatus ==
    IF watched = NoPost THEN "idle"
    ELSE IF UnderWay(watched) THEN "pending" ELSE posts[watched]

\* The wizard is rendered as it is by the end of the step.  A click is rendered
\* before the next event, what an answer changes after any number of them.
Rendered ==
    /\ shown' = [step |-> step', config |-> config', deploy |-> DeployStatus']
    /\ clicked' = FALSE

Render ==
    /\ shown # [step |-> step, config |-> config, deploy |-> DeployStatus]
    /\ UNCHANGED <<page_vars, post_vars, reviewed>>
    /\ Rendered
--------------------------------------------------------------------------------
(***************************************************************************)
(* handleRepoSelect                                                        *)
(***************************************************************************)

\* Up to the await: the repository is set in the wizard and in the
\* configuration, whose settings stay as they were.
SelectRepo(repo) ==
    /\ shown.step = "repo"
    /\ detections[repo] < MaxDetections
    /\ selectedRepo' = repo
    /\ config' = [config EXCEPT !.repository = repo]
    /\ detections' = [detections EXCEPT ![repo] = @ + 1]
    /\ UNCHANGED <<step, post_vars, reviewed>>
    /\ Rendered

\* Mutant: the wizard goes on to a page it does not have.
StepAfterDetectionDone(s) == "detected"

\* setStep('config'), wherever the user is by now.
StepAfterDetection(s) == "config"

\* Mutant: the answer is set along with the URL it was asked for.
AfterDetectionOfRepo(c, repo) == [c EXCEPT !.settings = repo, !.repository = repo]

\* The answer is put into the configuration as it is by now.
AfterDetection(c, repo) == [c EXCEPT !.settings = repo]

Detected(repo) ==
    /\ detections[repo] > 0
    /\ detections' = [detections EXCEPT ![repo] = @ - 1]
    /\ config' = AfterDetection(config, repo)
    /\ step' = StepAfterDetection(step)
    /\ UNCHANGED <<selectedRepo, shown, post_vars, reviewed, clicked>>

\* Mutant: an error ends the handler.
StepAfterFailureKept(s) == s

\* The catch: the user will configure manually.
StepAfterFailure(s) == "config"

DetectionFails(repo) ==
    /\ detections[repo] > 0
    /\ detections' = [detections EXCEPT ![repo] = @ - 1]
    /\ step' = StepAfterFailure(step)
    /\ UNCHANGED <<selectedRepo, config, shown, post_vars, reviewed, clicked>>

DetectionEnds(repo) == Detected(repo) \/ DetectionFails(repo)
--------------------------------------------------------------------------------
(***************************************************************************)
(* The pages Configure and Review                                          *)
(***************************************************************************)

\* A field of the page is changed, in the configuration it was rendered with:
\* an answer that came since is overwritten.
Edit ==
    /\ shown.step = "config"
    /\ config' = [shown.config EXCEPT !.settings = "edited"]
    /\ UNCHANGED <<step, selectedRepo, detections, post_vars, reviewed>>
    /\ Rendered

Back ==
    /\ \/ shown.step = "config" /\ step' = "repo"
       \/ shown.step = "review" /\ step' = "config"
    /\ UNCHANGED <<selectedRepo, config, detections, post_vars, reviewed>>
    /\ Rendered

Review ==
    /\ shown.step = "config"
    /\ step' = "review"
    /\ reviewed' = config
    /\ UNCHANGED <<selectedRepo, config, detections, post_vars>>
    /\ Rendered

\* Mutant: the button is not disabled.
MayDeployAgain(status) == TRUE

\* Mutant: the button is enabled for one attempt.
MayDeployOnce(status) == status = "idle"

\* disabled={deploy.isPending}, as it was rendered.
MayDeploy(status) == status # "pending"

\* Mutant: the handler reads the configuration from a ref.
SentConfigLatest == config

\* mutate(config), in the closure the button was rendered with.
SentConfig == shown.config

\* handleDeploy: it looks at nothing but its closure, and makes useMutation
\* watch the new POST instead of any other.
Deploy ==
    /\ shown.step = "review"
    /\ MayDeploy(shown.deploy)
    /\ \E post \in Posts :
          /\ \A p \in Posts : posts[p] = "none" <=> p >= post
          /\ posts' = [posts EXCEPT ![post] = "sent"]
          /\ watched' = post
    /\ sent' = SentConfig
    /\ clicked' = TRUE
    /\ UNCHANGED <<page_vars, shown, reviewed>>
--------------------------------------------------------------------------------
(***************************************************************************)
(* createDeployment, and leaving                                           *)
(***************************************************************************)

PostMoves(post, from, to) ==
    /\ posts[post] \in from
    /\ posts' = [posts EXCEPT ![post] = to]
    /\ UNCHANGED <<page_vars, shown, watched, sent, reviewed, clicked>>

\* The orchestrator makes the deployment.
Created(post) == PostMoves(post, {"sent"}, "made")

\* onSuccess, which tells the parent to go on: for any POST, whether it is
\* watched, and the wizard that sent it mounted, or not.
DeploySucceeds(post) == PostMoves(post, {"made"}, "success")

\* The POST, or its answer, is lost or an error: the wizard cannot tell which.
DeployFails(post) == PostMoves(post, {"sent", "made"}, "error")

PostEnds(post) == DeploySucceeds(post) \/ DeployFails(post)

\* The page is left and opened again: nothing of the component survives, and
\* detectConfig is awaited for nothing.  A POST under way goes on, and
\* nobody watches it.
Leave ==
    /\ step' = "repo"
    /\ selectedRepo' = NoRepo
    /\ config' = EmptyConfig
    /\ shown' = FirstRendering
    /\ detections' = NoDetections
    /\ watched' = NoPost
    /\ reviewed' = EmptyConfig
    /\ sent' = EmptyConfig
    /\ clicked' = FALSE
    /\ UNCHANGED posts

Next ==
    \/ \E repo \in Repos : SelectRepo(repo) \/ DetectionEnds(repo)
    \/ Edit \/ Back \/ Review \/ Deploy
    \/ \E post \in Posts : Created(post) \/ PostEnds(post)
    \/ Render \/ Leave

Spec == Init /\ [][Next]_wizard_vars

\* A call of the API is answered, or fails, in the end, and React renders what
\* has changed.
LiveSpec ==
    /\ Spec
    /\ \A repo \in Repos : WF_wizard_vars(DetectionEnds(repo))
    /\ \A post \in Posts : WF_wizard_vars(PostEnds(post))
    /\ WF_wizard_vars(Render)
--------------------------------------------------------------------------------
Sends(post) == posts[post] = "none" /\ posts'[post] = "sent"

\* Deploying starts nothing the user has not reviewed: what createDeployment is
\* sent is what the configuration was when Review was clicked, although answers
\* of detectConfig may change it at any time, under the review page and between
\* two clicks on Deploy too.
DeployIsReviewed ==
    [][\A post \in Posts : Sends(post) => sent' = reviewed]_wizard_vars

\* The repository that would be deployed is the one the review page names: a late
\* answer for a repository chosen before never brings that one back, nor does
\* an edit made in a rendering from before that answer.
RepositoryIsSelected ==
    /\ config.repository = selectedRepo
    /\ shown.config.repository = selectedRepo

\* Only a click that comes before the last one was rendered can send a second
\* POST beside the one that is watched: going back and forth, editing and answers
\* of detectConfig never bring an enabled button back while it is under way.
OnlyHastyClicksDouble ==
    [][\A post \in Posts : Sends(post) /\ DeployStatus = "pending" => clicked]_wizard_vars

\* Choosing a repository leads to its configuration page, or the user leaves the
\* wizard: also when detectConfig fails, and whatever else was chosen meanwhile.
SelectionLeadsToConfig ==
    (shown.step = "repo" /\ \E repo \in Repos : detections[repo] > 0)
      ~> (shown.step = "config" \/ selectedRepo = NoRepo)

\* "Deploying..." does not stay: a review page whose button is disabled is left,
\* or the button comes back, whatever the POST came to and however many were sent.
DeployingEnds ==
    (shown.step = "review" /\ ~MayDeploy(shown.deploy))
      ~> ~(shown.step = "review" /\ ~MayDeploy(shown.deploy))
================================================================================
