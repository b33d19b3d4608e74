--------------------------- MODULE DeployWizardProofs ---------------------------
(***************************************************************************)
(* Proofs about the deploy wizard, for any repositories, and any number of *)
(* detectConfig calls under way at once, and of POSTs.                     *)
(***************************************************************************)
EXTENDS DeployWizard, TLAPS

\* What is under the review page is what was reviewed: every answer of
\* detectConfig leads away from that page as soon as it is rendered, and every
\* edit is made on another.
ReviewedIsShown ==
    /\ step = "review" => shown.step = "review" /\ config = reviewed
    /\ shown.step = "review" => shown.config = reviewed

\* A POST that is watched was sent.
WatchedWasSent == watched # NoPost => posts[watched] # "none"

\* A POST that is watched and under way disables the button, but for the time
\* between the click that sent it and the next rendering.
PendingIsShown == DeployStatus = "pending" => clicked \/ shown.deploy = "pending"

WizardInv ==
    TypeOK /\ RepositoryIsSelected /\ ReviewedIsShown /\ WatchedWasSent /\ PendingIsShown

LEMMA WizardInit == Init => WizardInv
<1>1. ASSUME Init PROVE TypeOK
  <2>1. EmptyConfig \in DeployConfig
    BY DEF DeployConfig, EmptyConfig
  <2>2. FirstRendering \in Rendering
    BY <2>1 DEF Rendering, FirstRendering, Step, MutationStatus
  <2>3. NoDetections \in [Repos -> 0..MaxDetections]
    BY WizardAssumption DEF NoDetections
  <2>4. posts \in [Posts -> PostStates]
    BY <1>1 DEF Init, PostStates
  <2>. QED
    BY <1>1, <2>1, <2>2, <2>3, <2>4 DEF Init, TypeOK, Step
<1>2. ASSUME Init PROVE RepositoryIsSelected /\ ReviewedIsShown /\ WatchedWasSent
  BY <1>2 DEF Init, RepositoryIsSelected, ReviewedIsShown, WatchedWasSent, EmptyConfig,
              FirstRendering
<1>3. ASSUME Init PROVE PendingIsShown
  BY <1>3 DEF Init, PendingIsShown, DeployStatus
<1>. QED
  BY <1>1, <1>2, <1>3 DEF WizardInv

\* useMutation reports one of four states.
LEMMA StatusType ==
    ASSUME TypeOK, WatchedWasSent
    PROVE  DeployStatus \in MutationStatus
<1>1. CASE watched = NoPost
  BY <1>1 DEF DeployStatus, MutationStatus
<1>2. CASE watched # NoPost /\ UnderWay(watched)
  BY <1>2 DEF DeployStatus, MutationStatus
<1>3. CASE watched # NoPost /\ ~UnderWay(watched)
  <2>1. posts[watched] \in {"success", "error"}
    BY <1>3 DEF UnderWay, PostStates, TypeOK, WatchedWasSent
  <2>. QED
    BY <1>3, <2>1 DEF DeployStatus, MutationStatus
<1>. QED
  BY <1>1, <1>2, <1>3

\* Steps that leave the POSTs alone leave alone what useMutation reports.
LEMMA StatusKept ==
    ASSUME UNCHANGED <<posts, watched>>
    PROVE  DeployStatus' = DeployStatus
BY DEF DeployStatus, UnderWay

\* Counting a call up to the bound, or down from one, keeps the counters typed.
LEMMA DetectionCounts ==
    ASSUME TypeOK, NEW repo \in Repos
    PROVE  /\ detections[repo] < MaxDetections =>
                [detections EXCEPT ![repo] = @ + 1] \in [Repos -> 0..MaxDetections]
           /\ detections[repo] > 0 =>
                [detections EXCEPT ![repo] = @ - 1] \in [Repos -> 0..MaxDetections]
<1>1. detections \in [Repos -> 0..MaxDetections] /\ MaxDetections \in Nat
  BY WizardAssumption DEF TypeOK
<1>. QED
  BY <1>1

\* A rendering of a typed state is typed, when no POST moves.
LEMMA RenderedType ==
    ASSUME TypeOK, WatchedWasSent, UNCHANGED <<posts, watched>>, Rendered,
           step' \in Step, config' \in DeployConfig
    PROVE  shown' \in Rendering /\ clicked' \in BOOLEAN
<1>1. DeployStatus' \in MutationStatus
  BY StatusType, StatusKept
<1>. QED
  BY <1>1 DEF Rendered, Rendering

LEMMA TypeStep ==
    ASSUME TypeOK, WatchedWasSent, [Next]_wizard_vars
    PROVE  TypeOK'
<1>. USE DEF page_vars, post_vars
<1>0. /\ config \in DeployConfig
      /\ shown.config \in DeployConfig
      /\ \A c \in DeployConfig, r \in Repos :
            /\ [c EXCEPT !.repository = r] \in DeployConfig
            /\ [c EXCEPT !.settings = r] \in DeployConfig
      /\ \A c \in DeployConfig : [c EXCEPT !.settings = "edited"] \in DeployConfig
  BY DEF TypeOK, DeployConfig, Rendering
<1>1. ASSUME NEW repo \in Repos, SelectRepo(repo) PROVE TypeOK'
  BY <1>0, <1>1, DetectionCounts, RenderedType DEF SelectRepo, TypeOK
<1>2. ASSUME NEW repo \in Repos, Detected(repo) PROVE TypeOK'
  BY <1>0, <1>2, DetectionCounts
     DEF Detected, AfterDetection, StepAfterDetection, TypeOK, Step
<1>3. ASSUME NEW repo \in Repos, DetectionFails(repo) PROVE TypeOK'
  BY <1>3, DetectionCounts DEF DetectionFails, StepAfterFailure, TypeOK, Step
<1>4. CASE Edit
  <2>1. config' \in DeployConfig /\ step' \in Step
    BY <1>0, <1>4 DEF Edit, TypeOK
  <2>2. shown' \in Rendering /\ clicked' \in BOOLEAN
    BY <1>4, <2>1, RenderedType DEF Edit
  <2>. QED
    BY <1>4, <2>1, <2>2 DEF Edit, TypeOK
<1>5. CASE Back
  <2>1. step' \in Step
    BY <1>5 DEF Back, Step
  <2>. QED
    BY <1>0, <1>5, <2>1, RenderedType DEF Back, TypeOK
<1>6. CASE Review
  <2>1. step' \in Step
    BY <1>6 DEF Review, Step
  <2>. QED
    BY <1>0, <1>6, <2>1, RenderedType DEF Review, TypeOK
<1>7. CASE Deploy
  <2>1. PICK post \in Posts : posts' = [posts EXCEPT ![post] = "sent"] /\ watched' = post
    BY <1>7 DEF Deploy
  <2>2. posts' \in [Posts -> PostStates]
    BY <2>1 DEF TypeOK, PostStates
  <2>. QED
    BY <1>0, <1>7, <2>1, <2>2 DEF Deploy, SentConfig, TypeOK
<1>8. ASSUME NEW post \in Posts, Created(post) \/ PostEnds(post) PROVE TypeOK'
  <2>1. posts' \in [Posts -> PostStates]
    BY <1>8 DEF Created, PostEnds, DeploySucceeds, DeployFails, PostMoves, TypeOK, PostStates
  <2>2. UNCHANGED <<step, selectedRepo, config, detections, shown, watched, sent, reviewed, clicked>>
    BY <1>8 DEF Created, PostEnds, DeploySucceeds, DeployFails, PostMoves
  <2>. QED
    BY <2>1, <2>2 DEF TypeOK
<1>9. CASE Render
  BY <1>0, <1>9, RenderedType DEF Render, TypeOK
<1>10. CASE Leave
  <2>1. EmptyConfig \in DeployConfig
    BY DEF DeployConfig, EmptyConfig
  <2>2. FirstRendering \in Rendering
    BY <2>1 DEF Rendering, FirstRendering, Step, MutationStatus
  <2>3. NoDetections \in [Repos -> 0..MaxDetections]
    BY WizardAssumption DEF NoDetections
  <2>. QED
    BY <1>10, <2>1, <2>2, <2>3 DEF Leave, TypeOK, Step
<1>11. CASE UNCHANGED wizard_vars
  BY <1>11 DEF wizard_vars, TypeOK
<1>. QED
  BY <1>1, <1>2, <1>3, <1>4, <1>5, <1>6, <1>7, <1>8, <1>9, <1>10, <1>11
     DEF Next, DetectionEnds

\* An answer changes the settings of the configuration, and never its
\* repository; what an edit starts from names the same one.
LEMMA SelectedStep ==
    ASSUME TypeOK, RepositoryIsSelected, [Next]_wizard_vars
    PROVE  RepositoryIsSelected'
<1>. USE DEF page_vars, post_vars
<1>0. /\ config \in DeployConfig
      /\ shown.config \in DeployConfig
  BY DEF TypeOK, Rendering
<1>1. ASSUME NEW repo \in Repos, SelectRepo(repo) PROVE RepositoryIsSelected'
  BY <1>0, <1>1 DEF SelectRepo, Rendered, RepositoryIsSelected, DeployConfig
<1>2. ASSUME NEW repo \in Repos, Detected(repo) PROVE RepositoryIsSelected'
  BY <1>0, <1>2 DEF Detected, AfterDetection, RepositoryIsSelected, DeployConfig
<1>3. CASE Edit
  BY <1>0, <1>3 DEF Edit, Rendered, RepositoryIsSelected, DeployConfig
<1>4. CASE Leave
  BY <1>4 DEF Leave, RepositoryIsSelected, EmptyConfig, FirstRendering
<1>5. CASE Back \/ Review \/ Render
  BY <1>5 DEF Back, Review, Render, Rendered, RepositoryIsSelected
<1>6. ASSUME UNCHANGED <<selectedRepo, config, shown>> PROVE RepositoryIsSelected'
  BY <1>6 DEF RepositoryIsSelected
<1>. QED
  BY <1>1, <1>2, <1>3, <1>4, <1>5, <1>6
     DEF Next, DetectionEnds, DetectionFails, Deploy, Created, PostEnds,
         DeploySucceeds, DeployFails, PostMoves, wizard_vars

\* The configuration changes on the way to the page Configure, on it, or before
\* it; only Review leads on from there.
LEMMA ReviewedStep ==
    ASSUME ReviewedIsShown, [Next]_wizard_vars
    PROVE  ReviewedIsShown'
<1>. USE DEF page_vars, post_vars, ReviewedIsShown
<1>1. ASSUME NEW repo \in Repos, SelectRepo(repo) PROVE ReviewedIsShown'
  BY <1>1 DEF SelectRepo, Rendered
<1>2. ASSUME NEW repo \in Repos, DetectionEnds(repo) PROVE ReviewedIsShown'
  BY <1>2 DEF DetectionEnds, Detected, DetectionFails, StepAfterDetection,
              StepAfterFailure
<1>3. CASE Edit \/ Back \/ Review \/ Render
  BY <1>3 DEF Edit, Back, Review, Render, Rendered
<1>4. CASE Leave
  BY <1>4 DEF Leave, FirstRendering
<1>5. ASSUME UNCHANGED <<step, config, shown, reviewed>> PROVE ReviewedIsShown'
  BY <1>5
<1>. QED
  BY <1>1, <1>2, <1>3, <1>4, <1>5
     DEF Next, Deploy, Created, PostEnds, DeploySucceeds, DeployFails, PostMoves,
         wizard_vars

LEMMA WatchedStep ==
    ASSUME TypeOK, WatchedWasSent, [Next]_wizard_vars
    PROVE  WatchedWasSent'
<1>. USE DEF page_vars, post_vars, WatchedWasSent
<1>0. posts \in [Posts -> PostStates]
  BY DEF TypeOK
<1>1. CASE Deploy
  BY <1>0, <1>1 DEF Deploy
<1>2. ASSUME NEW post \in Posts, Created(post) \/ PostEnds(post) PROVE WatchedWasSent'
  BY <1>0, <1>2 DEF Created, PostEnds, DeploySucceeds, DeployFails, PostMoves, TypeOK
<1>3. CASE Leave
  BY <1>3 DEF Leave
<1>4. ASSUME UNCHANGED <<posts, watched>> PROVE WatchedWasSent'
  BY <1>4
<1>. QED
  BY <1>1, <1>2, <1>3, <1>4
     DEF Next, DetectionEnds, SelectRepo, Detected, DetectionFails, Edit, Back, Review,
         Render, wizard_vars

\* Every rendering shows what is pending; a POST becomes pending on a click.
LEMMA PendingStep ==
    ASSUME TypeOK, PendingIsShown, [Next]_wizard_vars
    PROVE  PendingIsShown'
<1>. USE DEF page_vars, post_vars, PendingIsShown
<1>1. CASE Rendered
  BY <1>1 DEF Rendered
<1>2. CASE Deploy
  BY <1>2 DEF Deploy
<1>3. CASE Leave
  BY <1>3 DEF Leave, DeployStatus
<1>4. ASSUME NEW post \in Posts, Created(post) \/ PostEnds(post) PROVE PendingIsShown'
  <2>1. /\ UNCHANGED <<watched, shown, clicked>>
        /\ UnderWay(post)
        /\ \A p \in Posts \ {post} : posts'[p] = posts[p]
    BY <1>4 DEF Created, PostEnds, DeploySucceeds, DeployFails, PostMoves, UnderWay, TypeOK
  <2>2. DeployStatus' = "pending" => DeployStatus = "pending"
    <3>1. CASE watched = NoPost
      BY <2>1, <3>1 DEF DeployStatus
    <3>2. CASE watched = post /\ watched # NoPost
      BY <2>1, <3>2 DEF DeployStatus
    <3>3. CASE watched \in Posts \ {post}
      BY <2>1, <3>3 DEF DeployStatus, UnderWay
    <3>. QED
      BY <3>1, <3>2, <3>3 DEF TypeOK
  <2>. QED
    BY <2>1, <2>2
<1>5. ASSUME UNCHANGED <<posts, watched, shown, clicked>> PROVE PendingIsShown'
  BY <1>5, StatusKept
<1>. QED
  BY <1>1, <1>2, <1>3, <1>4, <1>5
     DEF Next, DetectionEnds, SelectRepo, Detected, DetectionFails, Edit, Back, Review,
         Render, wizard_vars

LEMMA WizardInvariant == Spec => []WizardInv
<1>1. WizardInv /\ [Next]_wizard_vars => WizardInv'
  BY TypeStep, SelectedStep, ReviewedStep, WatchedStep, PendingStep DEF WizardInv
<1>. QED
  BY WizardInit, <1>1, PTL DEF Spec

\* Nothing but a click on Deploy sends.
LEMMA OnlyDeploySends ==
    ASSUME TypeOK, [Next]_wizard_vars, NEW post \in Posts, Sends(post)
    PROVE  Deploy
<1>0. posts \in [Posts -> PostStates] /\ posts' # posts
  BY DEF TypeOK, Sends
<1>1. ASSUME NEW p \in Posts, Created(p) \/ PostEnds(p) PROVE FALSE
  <2>1. posts'[post] # "sent" \/ posts'[post] = posts[post]
    BY <1>0, <1>1 DEF Created, PostEnds, DeploySucceeds, DeployFails, PostMoves
  <2>. QED
    BY <2>1 DEF Sends
<1>. QED
  BY <1>0, <1>1
     DEF Next, DetectionEnds, SelectRepo, Detected, DetectionFails, Edit, Back, Review,
         Render, Leave, page_vars, post_vars, wizard_vars
--------------------------------------------------------------------------------
\* The state of the wizard keeps its type; in particular its page is one of three.
THEOREM TypeCorrect == Spec => []TypeOK
<1>1. WizardInv => TypeOK
  BY DEF WizardInv
<1>. QED
  BY WizardInvariant, <1>1, PTL

\* The repository that would be deployed is the one the review page names.
THEOREM RepositoryIsTheSelected == Spec => []RepositoryIsSelected
<1>1. WizardInv => RepositoryIsSelected
  BY DEF WizardInv
<1>. QED
  BY WizardInvariant, <1>1, PTL

\* What is sent is the configuration that was reviewed.
THEOREM OnlyReviewedIsDeployed == Spec => DeployIsReviewed
<1>1. ASSUME WizardInv, [Next]_wizard_vars
      PROVE  \A post \in Posts : Sends(post) => sent' = reviewed
  <2>1. SUFFICES ASSUME NEW post \in Posts, Sends(post) PROVE sent' = reviewed
    OBVIOUS
  <2>2. Deploy
    BY <1>1, <2>1, OnlyDeploySends DEF WizardInv
  <2>. QED
    BY <1>1, <2>2 DEF Deploy, SentConfig, WizardInv, ReviewedIsShown
<1>2. WizardInv /\ [Next]_wizard_vars
        => [\A post \in Posts : Sends(post) => sent' = reviewed]_wizard_vars
  BY <1>1
<1>. QED
  BY WizardInvariant, <1>2, PTL DEF Spec, DeployIsReviewed

\* While a POST is watched, a click is rendered before another one can send.
THEOREM OnlyHastyClicksSendTwice == Spec => OnlyHastyClicksDouble
<1>1. ASSUME WizardInv, [Next]_wizard_vars
      PROVE  \A post \in Posts : Sends(post) /\ DeployStatus = "pending" => clicked
  <2>1. SUFFICES ASSUME NEW post \in Posts, Sends(post), DeployStatus = "pending"
                 PROVE  clicked
    OBVIOUS
  <2>2. Deploy
    BY <1>1, <2>1, OnlyDeploySends DEF WizardInv
  <2>3. shown.deploy # "pending"
    BY <2>2 DEF Deploy, MayDeploy
  <2>. QED
    BY <1>1, <2>1, <2>3 DEF WizardInv, PendingIsShown
<1>2. WizardInv /\ [Next]_wizard_vars
        => [\A post \in Posts : Sends(post) /\ DeployStatus = "pending" => clicked]_wizard_vars
  BY <1>1
<1>. QED
  BY WizardInvariant, <1>2, PTL DEF Spec, OnlyHastyClicksDouble
=================================================================================
