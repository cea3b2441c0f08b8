-------------------------------- MODULE Images --------------------------------
(***************************************************************************)
(* The pictures of a chat (src/src/graphs/single_chat_analyzer/            *)
(* image_extraction.py and associate_images.py): two steps of a run find   *)
(* them in the messages, skip those that MongoDB has, download the rest,   *)
(* have a model describe them, copy them to the media directory, record    *)
(* them, and put their descriptions beside the discussions they were sent  *)
(* in.  Nothing of this may fail the run.  Runs overlap freely.            *)
(*                                                                         *)
(* A picture is an mxc URL, a later one a larger number.  Each run draws   *)
(* an id of its own for it, so a picture has one id per run: the run.      *)
(***************************************************************************)
EXTENDS Naturals, FiniteSets

CONSTANTS Pictures,       \* the pictures sent to the chat
          PictureRuns,    \* the runs of the two steps
          DiscussionOf,   \* the discussion of a picture's message, or NoDiscussion
          MaxPictures,    \* max_images_per_chat
          PerDiscussion,  \* MAX_IMAGES_PER_DISCUSSION
          AllDiscussions, \* MAX_IMAGES_TOTAL
          NoDiscussion, NoPicture

ASSUME ImagesAssumption ==
  /\ Pictures \subseteq Nat /\ IsFiniteSet(Pictures)
  /\ {MaxPictures, PerDiscussion, AllDiscussions} \subseteq Nat \ {0}
  /\ DOMAIN DiscussionOf = Pictures /\ NoPicture \notin PictureRuns

VARIABLES picture,   \* the record of a picture in MongoDB: under which id, beside what
          media,     \* the files of the media directory: the id and the picture
          imageRun   \* imageRun[r]: how far a run is

imageVars == <<picture, media, imageRun>>

NoRecord == [id |-> NoPicture, discussion |-> NoDiscussion]

NoImageRun == [at |-> "idle", todo |-> {}, got |-> {}, told |-> {}, manifest |-> {},
               shown |-> {}]

ImagesTypeOK ==
  /\ picture \in [Pictures -> [id : PictureRuns \cup {NoPicture},
                               discussion : {DiscussionOf[p] : p \in Pictures}
                                              \cup {NoDiscussion}]]
  /\ media \subseteq PictureRuns \X Pictures
  /\ imageRun \in [PictureRuns ->
       [at : {"idle", "skip", "download", "describe", "copy", "record", "manifest",
              "associate", "update", "done"},
        todo : SUBSET Pictures, got : SUBSET Pictures, told : SUBSET Pictures,
        manifest : SUBSET Pictures, shown : SUBSET Pictures]]

ImagesInit ==
  /\ picture = [p \in Pictures |-> NoRecord] /\ media = {}
  /\ imageRun = [r \in PictureRuns |-> NoImageRun]

\* The n most recent of a set.
Latest(n, set) == {p \in set : Cardinality({q \in set : q > p}) < n}

-----------------------------------------------------------------------------
(* extract_images_node. *)

\* The image messages of the window, the most recent ones only.
ScanMessages(r) ==
  /\ imageRun[r].at = "idle"
  /\ \E window \in SUBSET Pictures :
       imageRun' = [imageRun EXCEPT ![r].at = IF window = {} THEN "done" ELSE "skip",
                                    ![r].todo = Latest(MaxPictures, window)]
  /\ UNCHANGED <<picture, media>>

\* Those on record are left out: of the manifest too.  If MongoDB cannot say, none is.
SkipRecorded(r) ==
  LET known == {p \in Pictures : picture[p] # NoRecord} IN
  /\ imageRun[r].at = "skip"
  /\ \E todo \in {imageRun[r].todo \ known, imageRun[r].todo} :
       imageRun' = [imageRun EXCEPT ![r].at = IF todo = {} THEN "done" ELSE "download",
                                    ![r].todo = todo]
  /\ UNCHANGED <<picture, media>>

\* Some do not come, are too large or do not decrypt.
DownloadPictures(r) ==
  /\ imageRun[r].at = "download"
  /\ \E got \in SUBSET imageRun[r].todo :
       imageRun' = [imageRun EXCEPT ![r].at = "describe", ![r].got = got]
  /\ UNCHANGED <<picture, media>>

\* Some are not described, or none: the scope, the provider.
Describe(r) ==
  /\ imageRun[r].at = "describe"
  /\ \E told \in SUBSET imageRun[r].got :
       imageRun' = [imageRun EXCEPT ![r].at = "copy", ![r].told = told,
                                    ![r].todo = imageRun[r].got]
  /\ UNCHANGED <<picture, media>>

\* To the media directory, one by one in the order of the list.
CopyPicture(r) ==
  /\ imageRun[r].at = "copy" /\ imageRun[r].todo # {}
  /\ media' = media \cup ({r} \X Latest(1, imageRun[r].todo))
  /\ imageRun' = [imageRun EXCEPT ![r].todo = @ \ Latest(1, @)]
  /\ UNCHANGED picture

\* Only a run that is tracked records its pictures.
EndCopying(r) ==
  /\ imageRun[r].at = "copy" /\ imageRun[r].todo = {}
  /\ \E at \in {"record", "manifest"} :
       imageRun' = [imageRun EXCEPT ![r].at = at, ![r].todo = imageRun[r].got]
  /\ UNCHANGED <<picture, media>>

\* The upsert by URL sets the id as well: of a picture that is there under another id
\* MongoDB refuses it, and the loop goes on.
StoreImage(r) ==
  LET next == Latest(1, imageRun[r].todo) IN
  /\ imageRun[r].at = "record" /\ next # {}
  /\ \/ picture' = [p \in Pictures |-> IF p \in next /\ picture[p] = NoRecord
                                       THEN [NoRecord EXCEPT !.id = r] ELSE picture[p]]
     \/ UNCHANGED picture
  /\ imageRun' = [imageRun EXCEPT ![r].todo = @ \ next]
  /\ UNCHANGED media

EndRecording(r) ==
  /\ imageRun[r].at = "record" /\ imageRun[r].todo = {}
  /\ imageRun' = [imageRun EXCEPT ![r].at = "manifest"]
  /\ UNCHANGED <<picture, media>>

\* Slip: a file that cannot be copied does not keep the pictures from being recorded.
FailCopySlip(r) ==
  /\ imageRun[r].at = "copy"
  /\ imageRun' = [imageRun EXCEPT ![r].at = "record", ![r].todo = imageRun[r].got]
  /\ UNCHANGED <<picture, media>>

\* The disk is full, MongoDB is not there: nothing more is copied, nothing recorded.
FailCopy(r) ==
  /\ imageRun[r].at = "copy"
  /\ imageRun' = [imageRun EXCEPT ![r].at = "manifest"]
  /\ UNCHANGED <<picture, media>>

WriteManifest(r) ==
  /\ imageRun[r].at = "manifest"
  /\ imageRun' = [imageRun EXCEPT ![r].at = "associate", ![r].manifest = imageRun[r].got]
  /\ UNCHANGED <<picture, media>>

\* Any other failure, or the end of the process: there is no manifest.
FailImages(r) ==
  /\ imageRun[r].at \notin {"idle", "done"}
  /\ imageRun' = [imageRun EXCEPT ![r] =
       [NoImageRun EXCEPT !.at = "done", !.shown = imageRun[r].shown]]
  /\ UNCHANGED <<picture, media>>

-----------------------------------------------------------------------------
(* associate_images_node, once the discussions are there. *)

\* The described pictures of the manifest that were sent in a discussion.
Matching(r) ==
  {p \in imageRun[r].manifest \cap imageRun[r].told : DiscussionOf[p] # NoDiscussion}

InDiscussion(set, p) == {q \in set : DiscussionOf[q] = DiscussionOf[p]}

\* The first few of each discussion.
Capped(r) == {p \in Matching(r) : p \in Latest(PerDiscussion, InDiscussion(Matching(r), p))}

\* Discussions come in the order of their latest picture.
Earlier(r, q, p) ==
  LET leader(x) == CHOOSE y \in InDiscussion(Capped(r), x) :
                     \A z \in InDiscussion(Capped(r), x) : z <= y
  IN leader(q) > leader(p) \/ (leader(q) = leader(p) /\ q > p)

Associate(r) ==
  /\ imageRun[r].at = "associate"
  /\ imageRun' = [imageRun EXCEPT ![r].at = "update",
       ![r].shown = {p \in Capped(r) :
         Cardinality({q \in Capped(r) : Earlier(r, q, p)}) < AllDiscussions}]
  /\ UNCHANGED <<picture, media>>

\* Each by its id of this run: what was recorded under another is not found.
UpdateDiscussions(r) ==
  /\ imageRun[r].at = "update"
  /\ \E updated \in SUBSET imageRun[r].shown :
       picture' = [p \in Pictures |->
         IF p \in updated /\ picture[p].id = r
         THEN [picture[p] EXCEPT !.discussion = DiscussionOf[p]] ELSE picture[p]]
  /\ imageRun' = [imageRun EXCEPT ![r].at = "done"]
  /\ UNCHANGED media

ImagesNext ==
  \E r \in PictureRuns :
    \/ ScanMessages(r) \/ SkipRecorded(r) \/ DownloadPictures(r) \/ Describe(r)
    \/ CopyPicture(r) \/ EndCopying(r) \/ StoreImage(r) \/ EndRecording(r) \/ FailCopy(r)
    \/ WriteManifest(r) \/ FailImages(r) \/ Associate(r) \/ UpdateDiscussions(r)

-----------------------------------------------------------------------------
(***************************************************************************)
(* Whatever fails and however runs overlap: a picture on record has its    *)
(* file in the media directory, so the gallery (api/images.py) lists none  *)
(* that api/media.py cannot serve, and a discussion is recorded only for a *)
(* picture of a run that shows it there, no more than the newsletter       *)
(* takes.                                                                  *)
(***************************************************************************)
PicturesAreServable ==
  /\ \A p \in Pictures : picture[p].id # NoPicture =>
       /\ <<picture[p].id, p>> \in media
       /\ picture[p].discussion # NoDiscussion => p \in imageRun[picture[p].id].shown
  /\ \A r \in PictureRuns : \A p \in imageRun[r].shown :
       /\ Cardinality(imageRun[r].shown) <= AllDiscussions
       /\ Cardinality(InDiscussion(imageRun[r].shown, p)) <= PerDiscussion
=============================================================================
