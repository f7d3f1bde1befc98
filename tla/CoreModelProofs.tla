-------------------------- MODULE CoreModelProofs --------------------------
(***************************************************************************)
(* Theorems about CoreModel, for all sets of shas, pods, priorities and    *)
(* reports.                                                                *)
(***************************************************************************)
EXTENDS CoreModel, TLAPS

(***************************************************************************)
(* The inductive invariant: the safety properties of CoreModel together.   *)
(* None of them is inductive alone: that results belong to a success needs *)
(* their type, that the priority in the queue is sound needs that exactly  *)
(* the waiting images are queued.                                          *)
(***************************************************************************)
ImagesTypeOK == /\ Known \subseteq Shas
                /\ \A s \in Known : images[s] \in ImageInfo
                /\ DOMAIN queue \subseteq Shas
                /\ \A s \in DOMAIN queue : queue[s] \in Priorities

ImagesInv == /\ ImagesTypeOK
             /\ QueueMatchesStatus
             /\ QueuePrioritySound
             /\ ResultsSound

PodsInv == /\ DOMAIN pods \subseteq PodNames
           /\ PodImagesKnown

IInv == ImagesInv /\ PodsInv

\* A set of priorities has a highest one, and Highest finds it.
LEMMA HighestIsMaximum ==
    ASSUME NEW P \in SUBSET Priorities, P # {}
    PROVE  Highest(P) \in P /\ \A x \in P : x <= Highest(P)
  BY PrioritiesAssumption DEF Highest

\* createImage never lowers a priority, and leaves a negative one alone.
LEMMA RaisedPriority ==
    ASSUME NEW old \in Priorities, NEW P \in SUBSET Priorities
    PROVE  /\ Raised(old, P) \in Priorities
           /\ old <= Raised(old, P)
           /\ old < 0 => Raised(old, P) = old
<1> DEFINE h == Highest({old} \cup P)
<1>1. {old} \cup P \in SUBSET Priorities /\ {old} \cup P # {}
  OBVIOUS
<1>2. h \in {old} \cup P /\ old <= h
  BY <1>1, HighestIsMaximum
<1>3. old \in Int
  BY PrioritiesAssumption
<1>4. Raised(old, P) = IF old < 0 THEN old ELSE h
  BY DEF Raised
<1> HIDE DEF h
<1> QED
  BY <1>2, <1>3, <1>4

\* Offered priorities are priorities.
LEMMA OfferedType ==
    ASSUME NEW imgs \in SUBSET Image, NEW s
    PROVE  Offered(imgs, s) \in SUBSET Priorities
  BY DEF Offered, Image

\* The shas of images are shas.
LEMMA ShasOfType ==
    ASSUME NEW imgs \in SUBSET Image
    PROVE  ShasOf(imgs) \subseteq Shas
  BY DEF ShasOf, Image

\* What adding a list of images does: no image is forgotten, the new ones are
\* Unknown, and of the others only the priority may change, if it was not
\* negative.
LEMMA CreateImagesStep ==
    ASSUME ImagesInv, NEW imgs \in SUBSET Image, createImages(imgs)
    PROVE  /\ ImagesInv'
           /\ Known' = Known \cup ShasOf(imgs)
           /\ \A s \in Known : /\ images'[s].status = images[s].status
                               /\ images'[s].results = images[s].results
                               /\ images[s].priority < 0 => images'[s].priority < 0
           /\ \A s \in Known' \ Known : /\ images'[s].status = "Unknown"
                                       /\ images'[s].results = NoResults
<1>1. PICK first \in FirstPriorities(imgs) :
          images' = Adopted(imgs, first) /\ queue' = Requeued(Adopted(imgs, first))
  BY DEF createImages
<1> DEFINE raised(s) == Raised(images[s].priority, Offered(imgs, s))
           fresh(s) == Raised(first[s], Offered(imgs, s))
<1>2. ShasOf(imgs) \subseteq Shas /\ Known \subseteq Shas
  BY ShasOfType DEF ImagesInv, ImagesTypeOK
<1>3. Known' = Known \cup ShasOf(imgs)
  BY <1>1 DEF Adopted, Known
<1>4. \A s \in Known : images'[s] = [images[s] EXCEPT !.priority = raised(s)]
  BY <1>1 DEF Adopted
<1>5. \A s \in Known' \ Known : images'[s] = NewImageInfo(fresh(s))
  BY <1>1, <1>3 DEF Adopted, Known
<1>6. ASSUME NEW s \in Known
      PROVE  /\ images[s] \in ImageInfo
             /\ images[s].priority \in Priorities
             /\ raised(s) \in Priorities
             /\ images[s].priority <= raised(s)
             /\ images[s].priority < 0 => raised(s) = images[s].priority
  <2>1. images[s] \in ImageInfo /\ images[s].priority \in Priorities
    BY DEF ImagesInv, ImagesTypeOK, ImageInfo
  <2> QED
    BY <2>1, RaisedPriority, OfferedType
<1>7. ASSUME NEW s \in Known' \ Known
      PROVE  fresh(s) \in Priorities
  <2>1. first[s] \in Priorities
    BY <1>3 DEF FirstPriorities
  <2> QED
    BY <2>1, RaisedPriority, OfferedType
<1> HIDE DEF raised, fresh
<1>8. \A s \in Known : /\ images'[s] \in ImageInfo
                       /\ images'[s].status = images[s].status
                       /\ images'[s].results = images[s].results
                       /\ images'[s].priority = raised(s)
  BY <1>4, <1>6 DEF ImageInfo
<1>9. \A s \in Known' \ Known : /\ images'[s] \in ImageInfo
                               /\ images'[s].status = "Unknown"
                               /\ images'[s].results = NoResults
  <2> SUFFICES ASSUME NEW s \in Known' \ Known
               PROVE  /\ images'[s] \in ImageInfo
                      /\ images'[s].status = "Unknown"
                      /\ images'[s].results = NoResults
    OBVIOUS
  <2>1. images'[s] = NewImageInfo(fresh(s)) /\ fresh(s) \in Priorities
    BY <1>5, <1>7
  <2>2. \A p \in Priorities : NewImageInfo(p) \in ImageInfo
    BY DEF NewImageInfo, ImageInfo, ScanStatuses
  <2> QED
    BY <2>1, <2>2 DEF NewImageInfo
<1>10. InStatus("InQueue")' = InStatus("InQueue")
  BY <1>3, <1>8, <1>9 DEF InStatus
<1>11. /\ DOMAIN queue' = DOMAIN queue
       /\ \A s \in DOMAIN queue :
             queue'[s] = IF images'[s].priority > images[s].priority
                         THEN images'[s].priority ELSE queue[s]
  BY <1>1 DEF Requeued, ImagesInv, QueueMatchesStatus
<1>12. ImagesTypeOK'
  <2>1. \A s \in Known' : images'[s] \in ImageInfo
    BY <1>8, <1>9
  <2>2. \A s \in DOMAIN queue : s \in Known /\ queue[s] \in Priorities
    BY DEF ImagesInv, ImagesTypeOK, QueueMatchesStatus, InStatus
  <2>3. \A s \in DOMAIN queue' : queue'[s] \in Priorities
    BY <1>6, <1>8, <1>11, <2>2
  <2> QED
    BY <1>2, <1>3, <1>11, <2>1, <2>3 DEF ImagesInv, ImagesTypeOK
<1>13. QueueMatchesStatus'
  BY <1>10, <1>11 DEF ImagesInv, QueueMatchesStatus
<1>14. QueuePrioritySound'
  <2> SUFFICES ASSUME NEW s \in InStatus("InQueue")
               PROVE  queue'[s] = images'[s].priority \/ images'[s].priority = -1
    BY <1>10 DEF QueuePrioritySound
  <2>1. s \in Known /\ s \in DOMAIN queue
    BY DEF InStatus, ImagesInv, QueueMatchesStatus
  <2>2. images[s].priority \in Int /\ raised(s) \in Int
    BY <1>6, <2>1, PrioritiesAssumption
  <2>3. queue[s] = images[s].priority \/ images[s].priority = -1
    BY DEF ImagesInv, QueuePrioritySound
  <2> QED
    BY <1>6, <1>8, <1>11, <2>1, <2>2, <2>3
<1>15. ResultsSound'
  BY <1>3, <1>8, <1>9 DEF ImagesInv, ResultsSound
<1>16. \A s \in Known : images[s].priority < 0 => images'[s].priority < 0
  BY <1>6, <1>8
<1> QED
  BY <1>3, <1>8, <1>9, <1>12, <1>13, <1>14, <1>15, <1>16 DEF ImagesInv

-----------------------------------------------------------------------------
\* What a handler may have written for an image before it changes its status:
\* results of a success, and the priority of a demoted image.
Prepared(imgs, s) ==
    /\ DOMAIN imgs = Known
    /\ \A x \in Known \ {s} : imgs[x] = images[x]
    /\ \A x \in Known :
          /\ imgs[x] \in ImageInfo
          /\ imgs[x].status = images[x].status
          /\ imgs[x].priority = images[x].priority \/ imgs[x].priority = -1
          /\ imgs[x].results # NoResults => ScanSummaryStatus(imgs[x].results) = "Success"
          /\ images[x].results # NoResults => imgs[x].results # NoResults

\* The images themselves are such a preparation.
LEMMA NothingPrepared ==
    ASSUME ImagesInv, NEW s
    PROVE  Prepared(images, s)
  BY DEF ImagesInv, ImagesTypeOK, ResultsSound, Prepared, Known

\* Storing what the handler prepared, without a status change, is harmless.
LEMMA PreparedStep ==
    ASSUME ImagesInv, NEW s, NEW imgs, Prepared(imgs, s), images' = imgs, queue' = queue
    PROVE  ImagesInv'
<1>1. Known' = Known
  BY DEF Prepared, Known
<1>2. InStatus("InQueue")' = InStatus("InQueue")
  BY <1>1 DEF Prepared, InStatus
<1>3. ImagesTypeOK'
  BY <1>1 DEF ImagesInv, ImagesTypeOK, Prepared
<1>4. QueueMatchesStatus'
  BY <1>2 DEF ImagesInv, QueueMatchesStatus
<1>5. QueuePrioritySound'
  <2> SUFFICES ASSUME NEW x \in InStatus("InQueue")
               PROVE  queue'[x] = images'[x].priority \/ images'[x].priority = -1
    BY <1>2 DEF QueuePrioritySound
  <2>1. queue[x] = images[x].priority \/ images[x].priority = -1
    BY DEF ImagesInv, QueuePrioritySound
  <2> QED
    BY <2>1 DEF Prepared, InStatus
<1>6. ResultsSound'
  BY <1>1 DEF ImagesInv, ResultsSound, Prepared
<1> QED
  BY <1>3, <1>4, <1>5, <1>6 DEF ImagesInv

\* A status change is legal or does not happen, and takes the queue along.
LEMMA SetStatusStep ==
    ASSUME ImagesInv, NEW s \in Known, NEW imgs, Prepared(imgs, s), NEW to \in ScanStatuses,
           to = "Complete" => imgs[s].results # NoResults,
           setImageScanStatus(imgs, s, to)
    PROVE  /\ ImagesInv'
           /\ \/ images' = imgs
              \/ /\ IsLegalTransition(images[s].status, to)
                 /\ images' = [imgs EXCEPT ![s].status = to]
           /\ images'[s].status = IF IsLegalTransition(images[s].status, to)
                                  THEN to ELSE images[s].status
<1> DEFINE from == imgs[s].status
           left == leaveState(s, from)
<1>1. from = images[s].status /\ DOMAIN imgs = Known /\ imgs[s] \in ImageInfo
  BY DEF Prepared
<1>2. CanLeave(s, from)
  BY <1>1 DEF CanLeave, HasKey, ImagesInv, QueueMatchesStatus, InStatus
<1>3. IsLegalTransition(from, to) => CanEnter(left, s, to)
  <2>1. HasKey(left, s) => from # "InQueue" /\ s \in DOMAIN queue
    BY DEF leaveState, Remove, HasKey
  <2>2. s \in DOMAIN queue => images[s].status = "InQueue"
    BY DEF ImagesInv, QueueMatchesStatus, InStatus
  <2> QED
    BY <1>1, <2>1, <2>2 DEF CanEnter
<1>4. CASE ~IsLegalTransition(from, to)
  <2>1. images' = imgs /\ queue' = queue
    BY <1>4 DEF setImageScanStatus
  <2> QED
    BY <1>1, <1>4, <2>1, PreparedStep
<1>5. CASE IsLegalTransition(from, to)
  <2>1. /\ images' = [imgs EXCEPT ![s].status = to]
        /\ queue' = enterState(left, s, to, imgs[s].priority)
    BY <1>2, <1>3, <1>5 DEF setImageScanStatus
  <2>2. Known' = Known
    BY <1>1, <2>1 DEF Known
  <2>3. \A x \in Known : images'[x] = IF x = s THEN [imgs[s] EXCEPT !.status = to] ELSE imgs[x]
    BY <1>1, <2>1
  <2>4. \A x \in Known : /\ images'[x] \in ImageInfo
                         /\ images'[x].status = IF x = s THEN to ELSE images[x].status
                         /\ images'[x].priority = imgs[x].priority
                         /\ images'[x].results = imgs[x].results
    BY <2>3 DEF Prepared, ImageInfo
  <2>5. /\ \A x \in DOMAIN queue' : queue'[x] = IF x = s THEN imgs[s].priority ELSE queue[x]
        /\ DOMAIN queue' = IF to = "InQueue" THEN DOMAIN queue \cup {s} ELSE DOMAIN queue \ {s}
    <3>1. CASE from = "InQueue"
      <4>1. to # "InQueue"
        BY <1>5, <3>1 DEF IsLegalTransition, legalTransitions
      <4> QED
        BY <2>1, <3>1, <4>1 DEF leaveState, enterState, Remove
    <3>2. CASE from # "InQueue"
      <4>1. s \notin DOMAIN queue
        BY <1>1, <3>2 DEF ImagesInv, QueueMatchesStatus, InStatus
      <4> QED
        BY <2>1, <3>2, <4>1 DEF leaveState, enterState, Add, HasKey
    <3> QED
      BY <3>1, <3>2
  <2>6. InStatus("InQueue")' = IF to = "InQueue" THEN InStatus("InQueue") \cup {s}
                                                ELSE InStatus("InQueue") \ {s}
    BY <2>2, <2>4 DEF InStatus
  <2>7. ImagesTypeOK'
    <3>1. \A x \in DOMAIN queue' : x \in Shas /\ queue'[x] \in Priorities
      BY <1>1, <2>5 DEF ImagesInv, ImagesTypeOK, ImageInfo
    <3> QED
      BY <2>2, <2>4, <3>1 DEF ImagesInv, ImagesTypeOK
  <2>8. QueueMatchesStatus'
    BY <2>5, <2>6 DEF ImagesInv, QueueMatchesStatus
  <2>9. QueuePrioritySound'
    <3> SUFFICES ASSUME NEW x \in InStatus("InQueue")'
                 PROVE  queue'[x] = images'[x].priority \/ images'[x].priority = -1
      BY DEF QueuePrioritySound
    <3>1. x \in Known /\ x \in DOMAIN queue'
      BY <2>2, <2>8 DEF InStatus, QueueMatchesStatus
    <3>2. x # s => queue[x] = images[x].priority \/ images[x].priority = -1
      BY <2>6 DEF ImagesInv, QueuePrioritySound
    <3> QED
      BY <2>4, <2>5, <3>1, <3>2 DEF Prepared
  <2>10. ResultsSound'
    BY <2>2, <2>4 DEF ImagesInv, ResultsSound, Prepared
  <2> QED
    BY <1>1, <1>5, <2>1, <2>4, <2>7, <2>8, <2>9, <2>10 DEF ImagesInv
<1> QED
  BY <1>4, <1>5

-----------------------------------------------------------------------------
\* What a handler that is about one image does: the others are left alone, and
\* of the image the status changes legally, results are never dropped and the
\* priority stays or is the demoted one.
ImageStep(s) ==
    /\ Known' = Known
    /\ \A x \in Known \ {s} : images'[x] = images[x]
    /\ s \in Known =>
          /\ \/ images'[s].status = images[s].status
             \/ IsLegalTransition(images[s].status, images'[s].status)
          /\ images[s].results # NoResults => images'[s].results # NoResults
          /\ images'[s].priority = images[s].priority \/ images'[s].priority = -1

\* Storing what was prepared, with the status changed or not, is such a step.
LEMMA PreparedImageStep ==
    ASSUME NEW s, NEW imgs, Prepared(imgs, s), NEW to,
           \/ images' = imgs
           \/ /\ s \in Known
              /\ IsLegalTransition(images[s].status, to)
              /\ images' = [imgs EXCEPT ![s].status = to]
    PROVE  ImageStep(s)
<1>1. CASE images' = imgs
  BY <1>1 DEF Prepared, ImageStep, Known
<1>2. CASE /\ s \in Known
           /\ IsLegalTransition(images[s].status, to)
           /\ images' = [imgs EXCEPT ![s].status = to]
  <2>1. Known' = Known /\ \A x \in Known \ {s} : images'[x] = images[x]
    BY <1>2 DEF Prepared, Known
  <2>2. images'[s] = [imgs[s] EXCEPT !.status = to] /\ imgs[s] \in ImageInfo
    BY <1>2 DEF Prepared
  <2>3. /\ images'[s].status = to
        /\ images'[s].results = imgs[s].results
        /\ images'[s].priority = imgs[s].priority
    BY <2>2 DEF ImageInfo
  <2> QED
    BY <1>2, <2>1, <2>3 DEF Prepared, ImageStep
<1> QED
  BY <1>1, <1>2

\* A handler that refuses changes nothing, which is also such a step.
LEMMA RefusedImageStep ==
    ASSUME ImagesInv, NEW s, UNCHANGED <<images, queue>>
    PROVE  ImagesInv' /\ ImageStep(s)
  BY NothingPrepared, PreparedStep, PreparedImageStep

\* A status change on top of a preparation preserves the invariant and is a
\* step of that one image.
LEMMA HandlerStep ==
    ASSUME ImagesInv, NEW s \in Known, NEW imgs, Prepared(imgs, s), NEW to \in ScanStatuses,
           to = "Complete" => imgs[s].results # NoResults,
           setImageScanStatus(imgs, s, to)
    PROVE  /\ ImagesInv' /\ ImageStep(s)
           /\ images'[s].status = IF IsLegalTransition(images[s].status, to)
                                  THEN to ELSE images[s].status
<1>1. /\ ImagesInv'
      /\ \/ images' = imgs
         \/ /\ IsLegalTransition(images[s].status, to)
            /\ images' = [imgs EXCEPT ![s].status = to]
      /\ images'[s].status = IF IsLegalTransition(images[s].status, to)
                             THEN to ELSE images[s].status
  BY SetStatusStep
<1>2. ImageStep(s)
  BY <1>1, PreparedImageStep
<1> QED
  BY <1>1, <1>2

\* The images whose scan client runs.
Running == InStatus("RunningScanClient")

\* A step of one image makes at most that image a running one.
LEMMA RunningAfterStep ==
    ASSUME NEW s, ImageStep(s)
    PROVE  /\ Running' \subseteq Running \cup {s}
           /\ ~(s \in Known /\ images'[s].status = "RunningScanClient") => Running' \subseteq Running \ {s}
BY DEF Running, InStatus, ImageStep

\* startScanClient is a step of its image, and refuses what does not wait.
LEMMA StartScanClientStep ==
    ASSUME ImagesInv, NEW s \in Shas, startScanClient(s)
    PROVE  /\ ImagesInv' /\ ImageStep(s)
           /\ s \in Known => images'[s].status = IF images[s].status = "InQueue"
                                               THEN "RunningScanClient" ELSE images[s].status
<1>1. CASE s \in InStatus("InQueue") /\ setImageScanStatus(images, s, "RunningScanClient")
  <2>1. s \in Known /\ Prepared(images, s) /\ "RunningScanClient" \in ScanStatuses
    BY <1>1, NothingPrepared DEF InStatus, ScanStatuses
  <2>2. images[s].status = "InQueue" /\ IsLegalTransition("InQueue", "RunningScanClient")
    BY <1>1 DEF InStatus, IsLegalTransition, legalTransitions
  <2> QED
    BY <1>1, <2>1, <2>2, HandlerStep
<1>2. CASE s \notin InStatus("InQueue") /\ UNCHANGED <<images, queue>>
  BY <1>2, RefusedImageStep DEF InStatus
<1> QED
  BY <1>1, <1>2 DEF startScanClient

\* A status after a change that is refused when it is not legal.
Changed(from, to) == IF IsLegalTransition(from, to) THEN to ELSE from

\* finishRunningScanClient is a step of its image, whose client does not run
\* after it.
LEMMA FinishRunningScanClientStep ==
    ASSUME ImagesInv, NEW s \in Shas, NEW failed \in BOOLEAN,
           finishRunningScanClient(s, failed)
    PROVE  /\ ImagesInv' /\ ImageStep(s)
           /\ s \in Known => /\ images'[s].status # "RunningScanClient"
                            /\ images'[s].status =
                                 Changed(images[s].status,
                                         IF failed THEN "InQueue" ELSE "RunningHubScan")
<1> DEFINE demoted == [images EXCEPT ![s].priority = -1]
<1>0. \A to \in {"InQueue", "RunningHubScan"} : IsLegalTransition("RunningScanClient", to)
  BY DEF IsLegalTransition, legalTransitions
<1>1. CASE s \notin Known /\ UNCHANGED <<images, queue>>
  BY <1>1, RefusedImageStep
<1>2. CASE s \in Known /\ failed /\ setImageScanStatus(demoted, s, "InQueue")
  <2>1. images[s] \in ImageInfo
    BY <1>2 DEF ImagesInv, ImagesTypeOK
  <2>2. /\ demoted[s] = [images[s] EXCEPT !.priority = -1]
        /\ \A x \in Known \ {s} : demoted[x] = images[x]
        /\ DOMAIN demoted = Known
    BY <1>2 DEF Known
  <2>3. /\ demoted[s] \in ImageInfo
        /\ demoted[s].priority = -1
        /\ demoted[s].status = images[s].status
        /\ demoted[s].results = images[s].results
    BY <2>1, <2>2, PrioritiesAssumption DEF ImageInfo
  <2> HIDE DEF demoted
  <2>4. Prepared(images, s)
    BY NothingPrepared
  <2>5. ASSUME NEW x \in Known
        PROVE  /\ demoted[x] \in ImageInfo
               /\ demoted[x].status = images[x].status
               /\ demoted[x].priority = images[x].priority \/ demoted[x].priority = -1
               /\ demoted[x].results = images[x].results
    <3>1. CASE x = s
      BY <2>3, <3>1
    <3>2. CASE x # s
      <4>1. demoted[x] = images[x] /\ images[x] \in ImageInfo
        BY <2>2, <2>4, <3>2 DEF Prepared
      <4> QED
        BY <4>1
    <3> QED
      BY <3>1, <3>2
  <2>6. Prepared(demoted, s)
    BY <2>2, <2>4, <2>5 DEF Prepared
  <2> QED
    BY <1>0, <1>2, <2>6, HandlerStep DEF ScanStatuses, Changed
<1>3. CASE s \in Known /\ ~failed /\ setImageScanStatus(images, s, "RunningHubScan")
  BY <1>0, <1>3, NothingPrepared, HandlerStep DEF ScanStatuses, Changed
<1> QED
  BY <1>1, <1>2, <1>3 DEF finishRunningScanClient

\* The status after an outcome of a scan.
StatusAfter(outcome, from) ==
    CASE from = "Unknown" /\ outcome \in {"NotFound", "Failure"} -> "InQueue"
      [] from = "RunningHubScan" /\ outcome = "Failure" -> "InQueue"
      [] from \in {"Unknown", "InQueue"} /\ outcome = "InProgress" -> "RunningHubScan"
      [] from \in {"Unknown", "RunningHubScan"} /\ outcome = "Success" -> "Complete"
      [] OTHER -> from

\* That is what the transitions that are tried, and legal, come to.
LEMMA FinishTransitions ==
    ASSUME NEW outcome \in {"NotFound", "Failure", "InProgress", "Success"},
           NEW from \in ScanStatuses, NEW to \in ScanStatuses
    PROVE  /\ <<outcome, from, to>> \in finishTransitions
                => StatusAfter(outcome, from) = Changed(from, to)
           /\ StatusAfter(outcome, from) # from
                => <<outcome, from, StatusAfter(outcome, from)>> \in finishTransitions
BY DEF StatusAfter, Changed, finishTransitions, IsLegalTransition, legalTransitions, ScanStatuses

\* scanDidFinish is a step of its image, and never starts a scan client.
LEMMA ScanDidFinishStep ==
    ASSUME ImagesInv, NEW s \in Shas, NEW r \in ScanResults \cup {NoResults},
           scanDidFinish(s, r)
    PROVE  /\ ImagesInv' /\ ImageStep(s)
           /\ s \in Known /\ images'[s].status = "RunningScanClient"
                => images[s].status = "RunningScanClient"
           /\ s \in Known => images'[s].status = StatusAfter(Outcome(r), images[s].status)
<1> DEFINE stored == IF Outcome(r) = "Success" THEN [images EXCEPT ![s].results = r]
                                               ELSE images
           targets == {to \in ScanStatuses :
                         <<Outcome(r), images[s].status, to>> \in finishTransitions}
<1>0. /\ Outcome(r) \in {"NotFound", "Failure", "InProgress", "Success"}
      /\ s \in Known => images[s].status \in ScanStatuses
  BY DEF Outcome, ScanSummaryStatus, ImagesInv, ImagesTypeOK, ImageInfo
<1>1. CASE s \notin Known /\ UNCHANGED <<images, queue>>
  BY <1>1, RefusedImageStep
<1>2. ASSUME s \in Known
      PROVE  Prepared(stored, s) /\ (Outcome(r) = "Success" => stored[s].results # NoResults)
  <2>1. CASE Outcome(r) = "Success"
    <3>1. r \in ScanResults /\ r # NoResults /\ ScanSummaryStatus(r) = "Success"
      BY <2>1 DEF Outcome
    <3>2. images[s] \in ImageInfo
      BY <1>2 DEF ImagesInv, ImagesTypeOK
    <3>3. /\ stored[s] = [images[s] EXCEPT !.results = r]
          /\ \A x \in Known \ {s} : stored[x] = images[x]
          /\ DOMAIN stored = Known
      BY <1>2, <2>1 DEF Known
    <3>4. /\ stored[s] \in ImageInfo
          /\ stored[s].priority = images[s].priority
          /\ stored[s].status = images[s].status
          /\ stored[s].results = r
      BY <3>1, <3>2, <3>3 DEF ImageInfo
    <3> HIDE DEF stored
    <3> QED
      BY <1>2, <2>1, <3>1, <3>3, <3>4, NothingPrepared DEF Prepared
  <2>2. CASE Outcome(r) # "Success"
    BY <2>2, NothingPrepared
  <2> QED
    BY <2>1, <2>2
<1>3. \A to \in targets : /\ to \in ScanStatuses /\ to # "RunningScanClient"
                          /\ to = "Complete" => Outcome(r) = "Success"
  BY DEF finishTransitions
<1>4. \/ s \notin Known /\ UNCHANGED <<images, queue>>
      \/ /\ s \in Known /\ images' = stored /\ queue' = queue
         /\ StatusAfter(Outcome(r), images[s].status) = images[s].status
      \/ s \in Known /\ \E to \in targets : setImageScanStatus(stored, s, to)
  <2>1. ASSUME s \in Known, targets = {}
        PROVE  StatusAfter(Outcome(r), images[s].status) = images[s].status
    <3>1. StatusAfter(Outcome(r), images[s].status) \in ScanStatuses
      BY <1>0, <2>1 DEF StatusAfter, ScanStatuses
    <3> QED
      BY <1>0, <2>1, <3>1, FinishTransitions
  <2> QED
    BY <2>1 DEF scanDidFinish
<1>5. ASSUME NEW to \in targets, s \in Known
      PROVE  StatusAfter(Outcome(r), images[s].status) = Changed(images[s].status, to)
  BY <1>0, <1>5, FinishTransitions
<1> HIDE DEF stored, targets
<1>6. CASE /\ s \in Known /\ images' = stored /\ queue' = queue
           /\ StatusAfter(Outcome(r), images[s].status) = images[s].status
  <2>1. ImagesInv' /\ ImageStep(s)
    BY <1>2, <1>6, PreparedStep, PreparedImageStep
  <2>2. images'[s].status = images[s].status
    BY <1>2, <1>6 DEF Prepared
  <2> QED
    BY <1>6, <2>1, <2>2
<1>7. CASE s \in Known /\ \E to \in targets : setImageScanStatus(stored, s, to)
  <2>1. PICK st \in targets : setImageScanStatus(stored, s, st)
    BY <1>7
  <2>2. st \in ScanStatuses /\ st # "RunningScanClient" /\ (st = "Complete" => stored[s].results # NoResults)
    BY <1>2, <1>3, <1>7, <2>1
  <2>3. /\ ImagesInv' /\ ImageStep(s)
        /\ images'[s].status = IF IsLegalTransition(images[s].status, st)
                               THEN st ELSE images[s].status
    BY <1>2, <1>7, <2>1, <2>2, HandlerStep
  <2>4. images'[s].status = StatusAfter(Outcome(r), images[s].status)
    BY <1>5, <1>7, <2>3 DEF Changed
  <2> QED
    BY <2>2, <2>3, <2>4
<1> QED
  BY <1>1, <1>4, <1>6, <1>7

-----------------------------------------------------------------------------
\* What every step does to the images: it adds new ones, or it is a step of
\* one image, or it leaves them alone.
ImagesStep(imgs) ==
    /\ Known' = Known \cup ShasOf(imgs)
    /\ \A s \in Known : /\ images'[s].status = images[s].status
                        /\ images'[s].results = images[s].results
                        /\ images[s].priority < 0 => images'[s].priority < 0
    /\ \A s \in Known' \ Known : /\ images'[s].status = "Unknown"
                                /\ images'[s].results = NoResults

StepOfImages ==
    \/ \E imgs \in SUBSET Image : ImagesStep(imgs)
    \/ \E s \in Shas : ImageStep(s)
    \/ UNCHANGED images

\* Adding a list of images, together with what it does to the pods.
LEMMA AddStep ==
    ASSUME IInv, NEW imgs \in SUBSET Image, createImages(imgs),
           DOMAIN pods' \subseteq PodNames,
           \A n \in DOMAIN pods' :
              pods'[n] \subseteq ShasOf(imgs) \/ (n \in DOMAIN pods /\ pods'[n] = pods[n])
    PROVE  IInv' /\ StepOfImages
<1>1. ImagesInv' /\ ImagesStep(imgs)
  BY CreateImagesStep DEF IInv, ImagesStep
<1>2. \A n \in DOMAIN pods' : pods'[n] \subseteq Known'
  BY <1>1 DEF IInv, PodsInv, PodImagesKnown, ImagesStep
<1>3. PodsInv'
  BY <1>2 DEF PodsInv, PodImagesKnown
<1> QED
  BY <1>1, <1>3 DEF IInv, StepOfImages

\* A step of one image, which leaves the pods alone.
LEMMA ImageStepOfPods ==
    ASSUME IInv, NEW s \in Shas, ImagesInv', ImageStep(s), UNCHANGED pods
    PROVE  IInv' /\ StepOfImages
<1>1. PodsInv'
  BY DEF IInv, PodsInv, PodImagesKnown, ImageStep
<1> QED
  BY <1>1 DEF IInv, StepOfImages

\* Every step of the core model preserves the invariant.
LEMMA NextStep ==
    ASSUME IInv, [CoreNext]_coreVars
    PROVE  IInv' /\ StepOfImages
<1>1. ASSUME NEW pod \in UNION PodLists, addPod(pod)
      PROVE  IInv' /\ StepOfImages
  <2>1. pod.name \in PodNames /\ pod.images \in SUBSET Image
    BY ListsAssumption DEF Pod
  <2>2. createImages(pod.images) /\ DOMAIN pods' = DOMAIN pods \cup {pod.name}
    BY <1>1 DEF addPod
  <2>3. DOMAIN pods' \subseteq PodNames
    BY <2>1, <2>2 DEF IInv, PodsInv
  <2>4. \A n \in DOMAIN pods' :
              pods'[n] \subseteq ShasOf(pod.images) \/ (n \in DOMAIN pods /\ pods'[n] = pods[n])
    BY <1>1 DEF addPod
  <2> QED
    BY <2>1, <2>2, <2>3, <2>4, AddStep
<1>2. ASSUME NEW name \in PodNames, deletePod(name)
      PROVE  IInv' /\ StepOfImages
  <2>1. ImagesInv' /\ Known' = Known
    BY <1>2 DEF deletePod, IInv, ImagesInv, ImagesTypeOK, QueueMatchesStatus,
                QueuePrioritySound, ResultsSound, InStatus, Known
  <2>2. PodsInv'
    BY <1>2, <2>1 DEF deletePod, IInv, PodsInv, PodImagesKnown
  <2> QED
    BY <1>2, <2>1, <2>2 DEF deletePod, IInv, StepOfImages
<1>3. ASSUME NEW list \in PodLists, allPods(list)
      PROVE  IInv' /\ StepOfImages
  <2> DEFINE names == {pod.name : pod \in list}
             imgs == UNION {pod.images : pod \in list}
  <2>1. list \in SUBSET Pod
    BY ListsAssumption
  <2>2. names \in SUBSET PodNames /\ imgs \in SUBSET Image
    BY <2>1 DEF Pod
  <2>3. PICK last \in [names -> list] : pods' = [n \in names |-> ShasOf(last[n].images)]
    BY <1>3 DEF allPods
  <2>4. \A n \in names : pods'[n] \subseteq ShasOf(imgs)
    <3> SUFFICES ASSUME NEW n \in names PROVE ShasOf(last[n].images) \subseteq ShasOf(imgs)
      BY <2>3
    <3>1. last[n] \in list
      OBVIOUS
    <3>2. last[n].images \subseteq imgs
      BY <3>1
    <3> QED
      BY <3>2 DEF ShasOf
  <2>5. createImages(imgs) /\ DOMAIN pods' = names /\ DOMAIN pods' \subseteq PodNames
    BY <1>3, <2>2, <2>3 DEF allPods
  <2> HIDE DEF names, imgs
  <2> QED
    BY <2>2, <2>4, <2>5, AddStep
<1>4. ASSUME NEW imgs \in SUBSET Image, allImages(imgs)
      PROVE  IInv' /\ StepOfImages
  <2>1. createImages(imgs) /\ pods' = pods
    BY <1>4 DEF allImages
  <2>2. DOMAIN pods \in SUBSET PodNames
    BY DEF IInv, PodsInv
  <2> QED
    BY <2>1, <2>2, AddStep
<1>5. ASSUME NEW image \in Image, addImage(image)
      PROVE  IInv' /\ StepOfImages
  BY <1>4, <1>5 DEF addImage
<1>6. ASSUME NEW s \in Shas, startScanClient(s)
      PROVE  IInv' /\ StepOfImages
  <2>1. ImagesInv' /\ ImageStep(s) /\ UNCHANGED pods
    BY <1>6, StartScanClientStep DEF IInv, startScanClient
  <2> QED
    BY <2>1, ImageStepOfPods
<1>7. ASSUME NEW s \in Shas, NEW failed \in BOOLEAN, finishRunningScanClient(s, failed)
      PROVE  IInv' /\ StepOfImages
  <2>1. ImagesInv' /\ ImageStep(s) /\ UNCHANGED pods
    BY <1>7, FinishRunningScanClientStep DEF IInv, finishRunningScanClient
  <2> QED
    BY <2>1, ImageStepOfPods
<1>8. ASSUME NEW s \in Shas, NEW r \in ScanResults \cup {NoResults}, scanDidFinish(s, r)
      PROVE  IInv' /\ StepOfImages
  <2>1. ImagesInv' /\ ImageStep(s)
    BY <1>8, ScanDidFinishStep DEF IInv
  <2>2. UNCHANGED pods
    BY <1>8 DEF scanDidFinish
  <2> QED
    BY <2>1, <2>2, ImageStepOfPods
<1>9. CASE UNCHANGED coreVars
  BY <1>9 DEF coreVars, IInv, ImagesInv, ImagesTypeOK, QueueMatchesStatus, QueuePrioritySound,
              ResultsSound, InStatus, Known, PodsInv, PodImagesKnown, StepOfImages
<1> QED
  BY <1>1, <1>2, <1>3, <1>4, <1>5, <1>6, <1>7, <1>8, <1>9, ListsAssumption DEF CoreNext

\* The invariant holds while nothing is known.
LEMMA InitInvariant == CoreInit => IInv
  BY DEF CoreInit, EmptyQueue, IInv, ImagesInv, ImagesTypeOK, QueueMatchesStatus,
         QueuePrioritySound, ResultsSound, InStatus, Known, PodsInv, PodImagesKnown

-----------------------------------------------------------------------------
\* The conjunction of CoreModel's safety properties holds in every reachable
\* state.
THEOREM Invariance == CoreSpec => []IInv
<1>1. IInv /\ [CoreNext]_coreVars => IInv'
  BY NextStep
<1> QED
  BY <1>1, InitInvariant, PTL DEF CoreSpec

\* Every variable of the core model keeps its type.
THEOREM TypeCorrect == CoreSpec => []TypeOK
<1>1. IInv => TypeOK
  BY DEF IInv, ImagesInv, ImagesTypeOK, PodsInv, PodImagesKnown, TypeOK
<1> QED
  BY <1>1, Invariance, PTL

\* The scan queue holds exactly the images in status InQueue: getNextImage
\* never panics, and no status change fails half-way.
THEOREM QueueCorrect == CoreSpec => []QueueMatchesStatus
<1>1. IInv => QueueMatchesStatus
  BY DEF IInv, ImagesInv
<1> QED
  BY <1>1, Invariance, PTL

\* An image waits with its own priority, unless it was demoted meanwhile.
THEOREM QueuePriorityCorrect == CoreSpec => []QueuePrioritySound
<1>1. IInv => QueuePrioritySound
  BY DEF IInv, ImagesInv
<1> QED
  BY <1>1, Invariance, PTL

\* Only results of a success are kept, and a Complete image has results.
THEOREM ResultsCorrect == CoreSpec => []ResultsSound
<1>1. IInv => ResultsSound
  BY DEF IInv, ImagesInv
<1> QED
  BY <1>1, Invariance, PTL

\* Every image of a pod is known.
THEOREM PodsCorrect == CoreSpec => []PodImagesKnown
<1>1. IInv => PodImagesKnown
  BY DEF IInv, PodsInv
<1> QED
  BY <1>1, Invariance, PTL

-----------------------------------------------------------------------------
\* No image is forgotten, a Complete image stays Complete and results stay.
THEOREM CompletionIsFinal == CoreSpec => CompleteIsFinal
<1> DEFINE A == \A s \in Known :
                  /\ s \in Known'
                  /\ images[s].status = "Complete" => images'[s].status = "Complete"
                  /\ images[s].results # NoResults => images'[s].results # NoResults
<1>1. IInv /\ [CoreNext]_coreVars => [A]_coreVars
  <2> SUFFICES ASSUME StepOfImages PROVE A
    BY NextStep
  <2>1. ASSUME NEW imgs \in SUBSET Image, ImagesStep(imgs) PROVE A
    BY <2>1 DEF ImagesStep
  <2>2. ASSUME NEW s \in Shas, ImageStep(s) PROVE A
    <3> SUFFICES ASSUME NEW x \in Known
                 PROVE  /\ x \in Known'
                        /\ images[x].status = "Complete" => images'[x].status = "Complete"
                        /\ images[x].results # NoResults => images'[x].results # NoResults
      OBVIOUS
    <3>1. \A to : ~IsLegalTransition("Complete", to)
      BY DEF IsLegalTransition, legalTransitions
    <3> QED
      BY <2>2, <3>1 DEF ImageStep
  <2>3. CASE UNCHANGED images
    BY <2>3 DEF Known
  <2> QED
    BY <2>1, <2>2, <2>3 DEF StepOfImages
<1> QED
  BY <1>1, Invariance, PTL DEF CoreSpec, CompleteIsFinal

\* A demoted image is never promoted again.
THEOREM DemotionPermanent == CoreSpec => DemotionIsPermanent
<1> DEFINE A == \A s \in Known : images[s].priority < 0 => images'[s].priority < 0
<1>1. IInv /\ [CoreNext]_coreVars => [A]_coreVars
  <2> SUFFICES ASSUME StepOfImages PROVE A
    BY NextStep
  <2>1. ASSUME NEW imgs \in SUBSET Image, ImagesStep(imgs) PROVE A
    BY <2>1 DEF ImagesStep
  <2>2. ASSUME NEW s \in Shas, ImageStep(s) PROVE A
    BY <2>2 DEF ImageStep
  <2>3. CASE UNCHANGED images
    BY <2>3
  <2> QED
    BY <2>1, <2>2, <2>3 DEF StepOfImages
<1> QED
  BY <1>1, Invariance, PTL DEF CoreSpec, DemotionIsPermanent

-----------------------------------------------------------------------------
(***************************************************************************)
(* The core model implements ImageLifecycle.                               *)
(***************************************************************************)

\* Adding a list of images is Learn of the new ones.
LEMMA ImagesStepLearns ==
    ASSUME ImagesInv, ImagesInv', NEW imgs \in SUBSET Image, ImagesStep(imgs)
    PROVE  [Lifecycle!Next]_Lifecycle!lifecycleVars
<1> DEFINE new == Known' \ Known
<1>1. Known \subseteq Shas /\ Known' \subseteq Shas /\ Known \subseteq Known'
  BY DEF ImagesInv, ImagesTypeOK, ImagesStep
<1>2. \A s \in Shas : stageOf(s)' = IF s \in new THEN "Waiting" ELSE stageOf(s)
  <2> SUFFICES ASSUME NEW s \in Shas
               PROVE  stageOf(s)' = IF s \in new THEN "Waiting" ELSE stageOf(s)
    OBVIOUS
  <2>1. stageOf(s)' = IF s \in Known' THEN Stage(images'[s].status) ELSE "Absent"
    BY DEF stageOf
  <2>2. Stage("Unknown") = "Waiting"
    BY DEF Stage
  <2>3. CASE s \in new
    BY <2>1, <2>2, <2>3 DEF ImagesStep
  <2>4. CASE s \in Known
    BY <1>1, <2>1, <2>4 DEF ImagesStep, stageOf
  <2>5. CASE s \notin Known'
    BY <1>1, <2>1, <2>5 DEF stageOf
  <2> QED
    BY <2>3, <2>4, <2>5
<1>3. \A s \in Shas : reportOf(s)' = reportOf(s)
  BY <1>1 DEF reportOf, InStatus, ImagesStep
<1>4. CASE new = {}
  BY <1>2, <1>3, <1>4 DEF Lifecycle!lifecycleVars
<1>5. CASE new # {}
  <2>1. Lifecycle!Learn(new)
    BY <1>1, <1>2, <1>3, <1>5 DEF Lifecycle!Learn, stageOf
  <2> QED
    BY <1>1, <2>1 DEF Lifecycle!Next
<1> QED
  BY <1>4, <1>5

\* A step of one image is a step of its life or a stutter.
LEMMA ImageStepLives ==
    ASSUME ImagesInv, ImagesInv', NEW s \in Shas, ImageStep(s)
    PROVE  [Lifecycle!Next]_Lifecycle!lifecycleVars
<1> DEFINE results == {r \in ScanResults : ScanSummaryStatus(r) = "Success"}
<1>1. Known \subseteq Shas /\ Known' = Known
  BY DEF ImagesInv, ImagesTypeOK, ImageStep
<1>2. \A x \in Shas \ {s} : stageOf(x)' = stageOf(x) /\ reportOf(x)' = reportOf(x)
  BY <1>1 DEF stageOf, reportOf, InStatus, ImageStep
<1>3. CASE s \notin Known
  <2>1. stageOf(s)' = stageOf(s) /\ reportOf(s)' = reportOf(s)
    BY <1>1, <1>3 DEF stageOf, reportOf, InStatus
  <2> QED
    BY <1>2, <2>1 DEF Lifecycle!lifecycleVars
<1>4. CASE s \in Known
  <2> DEFINE from == images[s].status
             to == images'[s].status
  <2>1. /\ from \in ScanStatuses /\ to \in ScanStatuses
        /\ stageOf(s) = Stage(from) /\ stageOf(s)' = Stage(to)
    BY <1>1, <1>4 DEF ImagesInv, ImagesTypeOK, ImageInfo, stageOf
  <2>2. /\ reportOf(s) = IF from = "Complete" THEN images[s].results ELSE NoResults
        /\ reportOf(s)' = IF to = "Complete" THEN images'[s].results ELSE NoResults
    BY <1>1, <1>4 DEF reportOf, InStatus
  <2>3. to = "Complete" => images'[s].results \in results
    BY <1>1, <1>4 DEF ImagesInv, ImagesTypeOK, ImageInfo, ResultsSound
  <2>4. to = from \/ IsLegalTransition(from, to)
    BY <1>4 DEF ImageStep
  <2> HIDE DEF from, to, results
  <2>5. CASE Stage(from) = Stage(to) /\ to # "Complete"
    <3>1. from # "Complete"
      BY <2>1, <2>5 DEF Stage, ScanStatuses
    <3>2. stageOf(s)' = stageOf(s) /\ reportOf(s)' = reportOf(s)
      BY <2>1, <2>2, <2>5, <3>1
    <3> QED
      BY <1>2, <3>2 DEF Lifecycle!lifecycleVars
  <2>6. CASE Stage(from) = "Waiting" /\ Stage(to) = "Working"
    <3>1. from # "Complete" /\ to # "Complete"
      BY <2>6 DEF Stage
    <3>2. Lifecycle!Begin(s)
      BY <1>2, <2>1, <2>2, <2>6, <3>1 DEF Lifecycle!Begin
    <3> QED
      BY <3>2 DEF Lifecycle!Next
  <2>7. CASE Stage(from) = "Working" /\ Stage(to) = "Waiting"
    <3>1. from # "Complete" /\ to # "Complete"
      BY <2>7 DEF Stage
    <3>2. Lifecycle!GiveUp(s)
      BY <1>2, <2>1, <2>2, <2>7, <3>1 DEF Lifecycle!GiveUp
    <3> QED
      BY <3>2 DEF Lifecycle!Next
  <2>8. CASE from # "Complete" /\ to = "Complete"
    <3>1. Stage(from) \in {"Waiting", "Working"} /\ Stage(to) = "Done"
      BY <2>1, <2>8 DEF Stage, ScanStatuses
    <3>2. Lifecycle!Finish(s, images'[s].results)
      BY <1>2, <2>1, <2>2, <2>8, <3>1 DEF Lifecycle!Finish
    <3> QED
      BY <2>3, <2>8, <3>2 DEF Lifecycle!Next, results
  <2>9. CASE from = "Complete" /\ to = "Complete"
    <3>1. Stage(from) = "Done" /\ Stage(to) = "Done"
      BY <2>9 DEF Stage
    <3>2. Lifecycle!Refresh(s, images'[s].results)
      BY <1>2, <2>1, <2>2, <2>9, <3>1 DEF Lifecycle!Refresh
    <3> QED
      BY <2>3, <2>9, <3>2 DEF Lifecycle!Next, results
  <2>10. \/ Stage(from) = Stage(to) /\ to # "Complete"
         \/ Stage(from) = "Waiting" /\ Stage(to) = "Working"
         \/ Stage(from) = "Working" /\ Stage(to) = "Waiting"
         \/ from # "Complete" /\ to = "Complete"
         \/ from = "Complete" /\ to = "Complete"
    BY <2>4 DEF IsLegalTransition, legalTransitions, Stage
  <2> QED
    BY <2>5, <2>6, <2>7, <2>8, <2>9, <2>10
<1> QED
  BY <1>3, <1>4

\* So is every step of the images, one that leaves them alone included.
LEMMA StepsLive ==
    ASSUME ImagesInv, ImagesInv', StepOfImages
    PROVE  [Lifecycle!Next]_Lifecycle!lifecycleVars
<1>1. CASE UNCHANGED images
  BY <1>1 DEF Lifecycle!lifecycleVars, stageOf, reportOf, InStatus, Known
<1> QED
  BY <1>1, ImagesStepLearns, ImageStepLives DEF StepOfImages

\* Whatever order requests, scan clients and hub answers come in, an image is
\* learned of once, done once, and reported on exactly when it is done.
THEOREM Refinement == CoreSpec => ImplementsLifecycle
<1>1. CoreInit => Lifecycle!Init
  BY DEF CoreInit, Lifecycle!Init, stageOf, reportOf, InStatus, Known
<1>2. IInv /\ IInv' /\ [CoreNext]_coreVars => [Lifecycle!Next]_Lifecycle!lifecycleVars
  BY NextStep, StepsLive DEF IInv
<1> QED
  BY <1>1, <1>2, Invariance, PTL DEF CoreSpec, ImplementsLifecycle, Lifecycle!Spec

=============================================================================
