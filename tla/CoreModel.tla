----------------------------- MODULE CoreModel -----------------------------
(***************************************************************************)
(* pkg/core/model: the images perceptor knows of, the scan status of each, *)
(* the queue of the images that wait for a scanner, and the pods.          *)
(*                                                                         *)
(* The model is an actor: every public method sends a closure to one       *)
(* goroutine, which applies them one after the other.  So one closure is   *)
(* one atomic action here, error returns included: a closure that refuses  *)
(* its arguments changes what it had changed before the refusal.           *)
(***************************************************************************)
EXTENDS ScanTypes, ScanQueue

CONSTANTS PodNames,    \* qualified names, "<namespace>/<name>"
          Priorities,  \* priorities of images
          ImageLists,  \* the contents of the image lists clients post
          PodLists     \* the contents of the pod lists clients post

VARIABLES images,   \* Images: sha -> status, priority and results of the image
          queue,    \* ImageScanQueue: sha -> priority in the queue
          pods      \* Pods: qualified name -> shas of the pod's containers

coreVars == <<images, queue, pods>>

\* An image and a pod as a client posts them.
Image == [sha : Shas, priority : Priorities]
Pod == [name : PodNames, images : SUBSET Image]

\* A demoted image gets priority -1; Go's integers are bounded.
ASSUME PrioritiesAssumption ==
    /\ Priorities \subseteq Int
    /\ -1 \in Priorities
    /\ \A P \in (SUBSET Priorities) \ {{}} : \E p \in P : \A x \in P : x <= p

ASSUME ListsAssumption == ImageLists \subseteq SUBSET Image /\ PodLists \subseteq SUBSET Pod

ImageInfo == [status : ScanStatuses,
              priority : Priorities,
              results : ScanResults \cup {NoResults}]

Known == DOMAIN images
InStatus(st) == {s \in Known : images[s].status = st}

CoreInit ==
    /\ images = [s \in {} |-> NoResults]
    /\ queue = EmptyQueue
    /\ pods = [n \in {} |-> {}]

-----------------------------------------------------------------------------
(***************************************************************************)
(* Status changes.  A change must be legal, then the old status is left    *)
(* and the new one entered; only InQueue has something to do, with the     *)
(* queue.  `imgs' holds the images with what the handler wrote before.     *)
(***************************************************************************)
CanLeave(s, from) == from = "InQueue" => HasKey(queue, s)

\* Mutant of leaveState: the image stays in the queue.
leaveStateOnly(s, from) == queue

leaveState(s, from) == IF from = "InQueue" THEN Remove(queue, s) ELSE queue

CanEnter(q, s, to) == to = "InQueue" => ~HasKey(q, s)
enterState(q, s, to, p) == IF to = "InQueue" THEN Add(q, s, p) ELSE q

setImageScanStatus(imgs, s, to) ==
    LET from == imgs[s].status
        left == leaveState(s, from)
        leaving == IsLegalTransition(from, to) /\ CanLeave(s, from)
    IN  \/ /\ leaving /\ CanEnter(left, s, to)
           /\ queue' = enterState(left, s, to, imgs[s].priority)
           /\ images' = [imgs EXCEPT ![s].status = to]
        \/ /\ ~ (leaving /\ CanEnter(left, s, to))
           /\ queue' = IF leaving THEN left ELSE queue
           /\ images' = imgs

-----------------------------------------------------------------------------
(***************************************************************************)
(* Adding images.  The code calls createImage for one image after the      *)
(* other; the result depends on the order only through the priority a new  *)
(* sha is created with, so a list is the set of its images and the first   *)
(* priority of each new sha is any of those offered for it.                *)
(***************************************************************************)
Offered(imgs, s) == {i.priority : i \in {j \in imgs : j.sha = s}}
ShasOf(imgs) == {i.sha : i \in imgs}

Highest(P) == CHOOSE p \in P : \A x \in P : x <= p

\* Mutant of Raised: a demotion is not remembered.
RaisedAlways(old, offered) == Highest({old} \cup offered)

\* A negative priority stays; any other is only ever raised.
Raised(old, offered) == IF old < 0 THEN old ELSE Highest({old} \cup offered)

NewImageInfo(p) == [status |-> "Unknown", priority |-> p, results |-> NoResults]

FirstPriorities(imgs) ==
    {f \in [ShasOf(imgs) \ Known -> Priorities] :
        \A s \in DOMAIN f : f[s] \in Offered(imgs, s)}

Adopted(imgs, first) ==
    [s \in Known \cup ShasOf(imgs) |->
        IF s \in Known
        THEN [images[s] EXCEPT !.priority = Raised(@, Offered(imgs, s))]
        ELSE NewImageInfo(Raised(first[s], Offered(imgs, s)))]

\* Mutant of Requeued: the queue is not told.
RequeuedNever(adopted) == queue

\* The queue follows when the priority of an image that waits was raised.
Requeued(adopted) ==
    [s \in DOMAIN queue |->
        IF s \in InStatus("InQueue") /\ adopted[s].priority > images[s].priority
        THEN adopted[s].priority
        ELSE queue[s]]

createImages(imgs) ==
    \E first \in FirstPriorities(imgs) :
        /\ images' = Adopted(imgs, first)
        /\ queue' = Requeued(Adopted(imgs, first))

-----------------------------------------------------------------------------
(* The handlers, one for each closure sent to the actor.                   *)

allImages(imgs) == createImages(imgs) /\ UNCHANGED pods

addImage(image) == allImages({image})

addPod(pod) ==
    /\ createImages(pod.images)
    /\ pods' = [n \in DOMAIN pods \cup {pod.name} |->
                  IF n = pod.name THEN ShasOf(pod.images) ELSE pods[n]]

deletePod(name) ==
    /\ pods' = [n \in DOMAIN pods \ {name} |-> pods[n]]
    /\ UNCHANGED <<images, queue>>

\* Mutant of allPods: the images of the pods are not added.
allPodsOnly(list) ==
    LET names == {pod.name : pod \in list}
    IN  /\ UNCHANGED <<images, queue>>
        /\ \E last \in [names -> list] :
              /\ \A n \in names : last[n].name = n
              /\ pods' = [n \in names |-> ShasOf(last[n].images)]

\* The old pods are dropped.  The last pod of a name is the one that is kept.
allPods(list) ==
    LET names == {pod.name : pod \in list}
    IN  /\ createImages(UNION {pod.images : pod \in list})
        /\ \E last \in [names -> list] :
              /\ \A n \in names : last[n].name = n
              /\ pods' = [n \in names |-> ShasOf(last[n].images)]

\* The image whose scan is to be started: the front of the queue, if any.
GetNextImage == Peek(queue)

startScanClient(s) ==
    /\ UNCHANGED pods
    /\ \/ s \in InStatus("InQueue") /\ setImageScanStatus(images, s, "RunningScanClient")
       \/ s \notin InStatus("InQueue") /\ UNCHANGED <<images, queue>>

\* A scan client that failed demotes the image for good; the status of the
\* image is not looked at before setImageScanStatus.
finishRunningScanClient(s, failed) ==
    /\ UNCHANGED pods
    /\ \/ s \notin Known /\ UNCHANGED <<images, queue>>
       \/ /\ s \in Known /\ failed
          /\ setImageScanStatus([images EXCEPT ![s].priority = -1], s, "InQueue")
       \/ s \in Known /\ ~failed /\ setImageScanStatus(images, s, "RunningHubScan")

\* Mutant of finishTransitions: a failure of the hub completes an image.
finishTransitionsOfAnyEnd ==
    ( {"NotFound", "Failure"} \X {"Unknown"} \X {"InQueue"} )
      \cup ( {"InProgress"} \X {"Unknown", "InQueue"} \X {"RunningHubScan"} )
      \cup ( {"Success", "Failure"} \X {"RunningHubScan"} \X {"Complete"} )

\* What scanDidFinish tries for an outcome and a status: <<outcome, from, to>>.
finishTransitions ==
    ( {"NotFound", "Failure"} \X {"Unknown"} \X {"InQueue"} )
      \cup ( {"Failure"} \X {"RunningHubScan"} \X {"InQueue"} )
      \cup ( {"InProgress"} \X {"Unknown", "InQueue"} \X {"RunningHubScan"} )
      \cup ( {"Success"} \X (ScanStatuses \ {"Complete"}) \X {"Complete"} )

\* Mutant of Outcome: every answer of the hub passes for a success.
OutcomeOfAnyAnswer(r) == IF r = NoResults THEN "NotFound" ELSE "Success"

Outcome(r) == IF r = NoResults THEN "NotFound" ELSE ScanSummaryStatus(r)

\* The results of a success are stored before the status is changed, whether
\* or not the change turns out to be legal.
scanDidFinish(s, r) ==
    LET stored == IF Outcome(r) = "Success" THEN [images EXCEPT ![s].results = r]
                                            ELSE images
        targets == {to \in ScanStatuses :
                       <<Outcome(r), images[s].status, to>> \in finishTransitions}
    IN  /\ UNCHANGED pods
        /\ \/ s \notin Known /\ UNCHANGED <<images, queue>>
           \/ s \in Known /\ targets = {} /\ images' = stored /\ UNCHANGED queue
           \/ s \in Known /\ \E to \in targets : setImageScanStatus(stored, s, to)

-----------------------------------------------------------------------------
CoreNext ==
    \/ \E pod \in UNION PodLists : addPod(pod)
    \/ \E name \in PodNames : deletePod(name)
    \/ \E list \in PodLists : allPods(list)
    \/ \E image \in Image : addImage(image)
    \/ \E list \in ImageLists : allImages(list)
    \/ \E s \in Shas : startScanClient(s)
    \/ \E s \in Shas, failed \in BOOLEAN : finishRunningScanClient(s, failed)
    \/ \E s \in Shas, r \in ScanResults \cup {NoResults} : scanDidFinish(s, r)

CoreSpec == CoreInit /\ [][CoreNext]_coreVars

-----------------------------------------------------------------------------
(* Properties.                                                             *)

\* Every variable holds a map of the types the code declares.
TypeOK ==
    /\ Known \subseteq Shas
    /\ \A s \in Known : images[s] \in ImageInfo
    /\ DOMAIN queue \subseteq Shas
    /\ \A s \in DOMAIN queue : queue[s] \in Priorities
    /\ DOMAIN pods \subseteq PodNames
    /\ \A n \in DOMAIN pods : pods[n] \subseteq Shas

\* The queue holds exactly the images in status InQueue.  So the image at its
\* front is known (unsafeGet does not panic) and can be started, and neither
\* leaving nor entering InQueue ever fails half-way.
QueueMatchesStatus == DOMAIN queue = InStatus("InQueue")

\* An image waits with its own priority, unless it was demoted by a second
\* report of a scan client while it waited.
QueuePrioritySound ==
    \A s \in InStatus("InQueue") :
        queue[s] = images[s].priority \/ images[s].priority = -1

\* Only results of a success are kept, and an image that is Complete has them:
\* GetScanResults never reports a complete image without results.
ResultsSound ==
    \A s \in Known :
        /\ images[s].results # NoResults => ScanSummaryStatus(images[s].results) = "Success"
        /\ images[s].status = "Complete" => images[s].results # NoResults

\* Every image of a pod is known: the results of a pod can be computed.
PodImagesKnown == \A n \in DOMAIN pods : pods[n] \subseteq Known

\* An image is never forgotten, a Complete image stays Complete, and results
\* once stored are only ever replaced by newer ones.
CompleteIsFinal ==
    [][\A s \in Known :
          /\ s \in Known'
          /\ images[s].status = "Complete" => images'[s].status = "Complete"
          /\ images[s].results # NoResults => images'[s].results # NoResults]_coreVars

\* A demoted image is never promoted again: no client can push an image whose
\* scan failed in front of the images that were not tried yet.
DemotionIsPermanent ==
    [][\A s \in Known : images[s].priority < 0 => images'[s].priority < 0]_coreVars
-----------------------------------------------------------------------------
(* The life of an image, and the report GetScanResults publishes for it.   *)

Stage(status) ==
    CASE status \in {"Unknown", "InQueue"} -> "Waiting"
      [] status \in {"RunningScanClient", "RunningHubScan"} -> "Working"
      [] status = "Complete" -> "Done"

stageOf(s) == IF s \in Known THEN Stage(images[s].status) ELSE "Absent"

reportOf(s) == IF s \in InStatus("Complete") THEN images[s].results ELSE NoResults

Lifecycle == INSTANCE ImageLifecycle
    WITH Results <- {r \in ScanResults : ScanSummaryStatus(r) = "Success"},
         stage <- [s \in Shas |-> stageOf(s)],
         report <- [s \in Shas |-> reportOf(s)]

\* The core model implements the life of an image: whatever order requests,
\* scan clients and hub answers come in, an image is learned of once, is done
\* once, and is reported on exactly when it is done.
ImplementsLifecycle == Lifecycle!Spec
=============================================================================
