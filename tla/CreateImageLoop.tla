-------------------------- MODULE CreateImageLoop --------------------------
(***************************************************************************)
(* The loop over createImage, one image at a time and in the order of the  *)
(* list, as the code runs it.  CoreModel takes a whole list in one step;   *)
(* here that step is compared with the loop, in every state CoreModel      *)
(* reaches.                                                                *)
(***************************************************************************)
EXTENDS CoreModel, Sequences

CONSTANTS Orders   \* lists of images, as clients may post them

ASSUME OrdersAssumption == Orders \subseteq Seq(Image)

Seqs == INSTANCE SequencesExt

\* What the loop works on: the images and the queue.
Now == [images |-> images, queue |-> queue]

NewImage(known, image) ==
    [known EXCEPT !.images =
        [s \in DOMAIN @ \cup {image.sha} |->
            IF s = image.sha THEN NewImageInfo(image.priority) ELSE @[s]]]

\* The queue is told when the image waits in it.
RaisePriority(known, image) ==
    LET waits == known.images[image.sha].status = "InQueue" /\ HasKey(known.queue, image.sha)
    IN  [known EXCEPT !.images[image.sha].priority = image.priority,
                      !.queue = IF waits THEN [@ EXCEPT ![image.sha] = image.priority] ELSE @]

\* Mutant of Raises: a demotion is not remembered.
RaisesAnyway(known, image) == image.priority > known.images[image.sha].priority

\* createImage refuses a priority that is not higher, and one for an image
\* that was demoted.
Raises(known, image) ==
    /\ image.priority > known.images[image.sha].priority
    /\ known.images[image.sha].priority >= 0

createImage(known, image) ==
    IF image.sha \notin DOMAIN known.images THEN NewImage(known, image)
    ELSE IF Raises(known, image) THEN RaisePriority(known, image) ELSE known

Loop(list) == Seqs!FoldLeft(createImage, Now, list)

\* Whatever the order of a list, and with repeated shas, the loop ends in one
\* of the states that CoreModel's createImages reaches for the set of its
\* images.
ClosedFormIsTheLoop ==
    \A list \in Orders :
        LET imgs == Seqs!ToSet(list)
        IN  \E first \in FirstPriorities(imgs) :
                /\ Loop(list).images = Adopted(imgs, first)
                /\ Loop(list).queue = Requeued(Adopted(imgs, first))
=============================================================================
