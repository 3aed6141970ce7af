---------------------------- MODULE PlacePictures ----------------------------
(***************************************************************************)
(* The photo of a place (attachments/collector.py): it follows the details *)
(* in force.  The bytes are stored before the row that names them, rows of *)
(* one record replace each other, and places may share a photo.            *)
(*                                                                         *)
(* One process at a time collects photos (the lock of its job).            *)
(***************************************************************************)
EXTENDS PlaceDetails

CONSTANTS
  Photos,
  Picture,     \* of a content: the photo named in the details, "restricted" or
               \* "unlisted"
  Gallery      \* of a content: what is found in the list of images instead,
               \* a photo, "restricted" or "no_image"

ASSUME PicturesAssumption ==
  /\ Picture \in [Tellings -> Photos \cup {"restricted", "unlisted"}]
  /\ Gallery \in [Tellings -> Photos \cup {"restricted", "no_image"}]
  /\ {"none", "failed", "available", "restricted", "unlisted", "no_image"} \cap Photos = {}

VARIABLES
  files,       \* photos whose bytes are stored
  attachment,  \* attachment: rows of the record, by photo and date
  shown,       \* place_attachment
  tried,       \* attachment_collection
  album        \* the collection of photos

pictureVars == <<files, attachment, shown, tried, album>>

NoPhoto == [photo |-> "none", modified |-> 0]
NotTried == [state |-> "none", detail |-> 0, retry |-> "never"]
Closed == [step |-> "idle", todo |-> {}, spot |-> "none", detail |-> 0, photo |-> NoPhoto]

PicturesInit ==
  /\ files = {}
  /\ attachment = {}
  /\ shown = [s \in Spots |-> NoPhoto]
  /\ tried = [s \in Spots |-> NotTried]
  /\ album = Closed

ActivePhotos == {a.photo : a \in {b \in attachment : b.status = "active"}}

PhotoDue(s) ==
  /\ s \in linked /\ active # 0
  /\ \/ tried[s].detail # active
     \/ tried[s].retry = "now"

PhotoRetryDue(s) ==
  /\ tried[s].retry = "later"
  /\ tried' = [tried EXCEPT ![s].retry = "now"]
  /\ UNCHANGED <<files, attachment, shown, album>>

\* due_places: the details in force are read with the places.
StartAlbum ==
  /\ album = Closed
  /\ {s \in Spots : PhotoDue(s)} # {}
  /\ album' = [Closed EXCEPT !.step = "next", !.detail = active,
                             !.todo = {s \in Spots : PhotoDue(s)}]
  /\ UNCHANGED <<files, attachment, shown, tried>>

NextSpot(s) ==
  /\ album.step = "next" /\ s \in album.todo
  /\ album' = [album EXCEPT !.step = "find", !.spot = s, !.todo = @ \ {s}]
  /\ UNCHANGED <<files, attachment, shown, tried>>

Continued == [album EXCEPT !.step = IF album.todo = {} THEN "idle" ELSE "next",
                           !.spot = "none", !.photo = NoPhoto,
                           !.detail = IF album.todo = {} THEN 0 ELSE @]

\* Mutant: an attempt is for the details in force when it is recorded.
TriedNow(state) ==
  [state |-> state, detail |-> active, retry |-> IF state = "failed" THEN "later" ELSE "never"]

\* record_attempt: for the details the batch has read.
Tried(state) ==
  [state |-> state, detail |-> album.detail,
   retry |-> IF state = "failed" THEN "later" ELSE "never"]

\* saved_fallback: what another place has found out for the same details.
Neighbours == {t \in Spots : /\ tried[t].detail = album.detail
                             /\ tried[t].state \notin {"none", "failed"}
                             /\ tried[t].state = "available" =>
                                  shown[t].photo \in ActivePhotos}

\* TourPhotos.find, or the same without asking: a photo that may be used with the
\* date of its details, or why there is none.
Found ==
  LET named == Picture[details[album.detail].parts[1]]
      dated(photo) == [photo |-> photo, modified |-> details[album.detail].modified]
  IN  IF named # "unlisted" THEN {dated(named)}
      ELSE IF Neighbours # {}
      THEN {IF tried[t].state = "available" THEN shown[t] ELSE dated(tried[t].state) :
              t \in Neighbours}
      ELSE {dated(Gallery[record.content])}

\* A photo that may be used is looked for among the stored ones next.
Find ==
  /\ album.step = "find"
  /\ \E found \in Found :
       IF found.photo \in Photos
       THEN /\ album' = [album EXCEPT !.step = "reuse", !.photo = found]
            /\ UNCHANGED <<shown, tried>>
       ELSE /\ shown' = [shown EXCEPT ![album.spot] = NoPhoto]
            /\ tried' = [tried EXCEPT ![album.spot] = Tried(found.photo)]
            /\ album' = Continued
  /\ UNCHANGED <<files, attachment>>

InForce(photo) ==
  \E a \in attachment : /\ a.status = "active"
                        /\ [photo |-> a.photo, modified |-> a.modified] = photo

\* link_attachment.
Link(links) ==
  /\ shown' = [s \in Spots |-> IF s = album.spot THEN album.photo ELSE links[s]]
  /\ tried' = [tried EXCEPT ![album.spot] = Tried("available")]
  /\ album' = Continued

\* reuse_attachment.
Reuse ==
  /\ album.step = "reuse"
  /\ IF InForce(album.photo) /\ album.photo.photo \in files
     THEN Link(shown)
     ELSE album' = [album EXCEPT !.step = "download"] /\ UNCHANGED <<shown, tried>>
  /\ UNCHANGED <<files, attachment>>

\* download and save_file.
SaveFile ==
  /\ album.step = "download"
  /\ files' = files \cup {album.photo.photo}
  /\ album' = [album EXCEPT !.step = "persist"]
  /\ UNCHANGED <<attachment, shown, tried>>

\* persist: the row replaces the one in force, and with it in every place.
Persist ==
  /\ album.step = "persist"
  /\ attachment' = {[a EXCEPT !.status = "superseded"] :
                      a \in {b \in attachment : [photo |-> b.photo, modified |-> b.modified]
                                                  # album.photo}}
                   \cup {[photo |-> album.photo.photo, modified |-> album.photo.modified,
                          status |-> "active"]}
  /\ Link([s \in Spots |-> IF InForce(shown[s]) THEN album.photo ELSE shown[s]])
  /\ UNCHANGED files

PhotoFails ==
  /\ album.step \in {"find", "download"}
  /\ Trouble
  /\ tried' = [tried EXCEPT ![album.spot] = Tried("failed")]
  /\ album' = Continued
  /\ UNCHANGED <<files, attachment, shown>>

AlbumDies ==
  /\ album # Closed
  /\ Trouble
  /\ album' = Closed
  /\ UNCHANGED <<files, attachment, shown, tried>>

\* The command --refresh-spot: the operator has details and photo checked again.
Recheck(s) ==
  /\ Trouble
  /\ s \in matched
  /\ linked' = matched
  /\ attempt' = IF attempt = NoAttempt THEN attempt ELSE [attempt EXCEPT !.retry = "now"]
  /\ tried' = IF tried[s] = NotTried THEN tried ELSE [tried EXCEPT ![s].retry = "now"]
  /\ UNCHANGED <<record, listed, matched, day, calls, details, active, collector,
                 files, attachment, shown, album>>

OthersOfDetails == <<record, listed, matched, linked, day, calls, details, active, attempt,
                     collector>>

PictureStep ==
  \/ /\ \/ StartAlbum \/ Find \/ Reuse \/ SaveFile \/ Persist
        \/ \E s \in Spots : PhotoRetryDue(s) \/ NextSpot(s)
     /\ UNCHANGED detailVars
  \/ (PhotoFails \/ AlbumDies) /\ UNCHANGED OthersOfDetails
  \/ \E s \in Spots : Recheck(s)

PageStep == (DetailStep /\ UNCHANGED pictureVars) \/ PictureStep

PageSpec ==
  DetailsInit /\ PicturesInit /\ [][PageStep]_<<detailVars, pictureVars>>

----------------------------------------------------------------------------

\* What a place shows of a content.
Allowed(content) ==
  LET photo == IF Picture[content] = "unlisted" THEN Gallery[content] ELSE Picture[content]
  IN  IF photo \in Photos THEN photo ELSE "none"

PhotoSettled(s) == s \in linked /\ ~PhotoDue(s) /\ tried[s].state \notin {"none", "failed"}

\* attachments/migrations.py:58 "Photos follow stored detail revisions": when
\* nothing is due for a place, its photo is the one its details allow now, and
\* none when the provider has restricted it, although places share photos, the
\* details change while one is downloaded and processes die; and a photo that is
\* named is there, its row in force and its bytes stored.
PhotosFollowDetails ==
  \A s \in Spots :
    /\ DetailsSettled /\ listed = record.modified /\ PhotoSettled(s) =>
         shown[s].photo = Allowed(record.content)
    /\ shown[s] # NoPhoto => InForce(shown[s]) /\ shown[s].photo \in files

\* A page on which nothing is left to do shows what the provider says now.
SettledPagesAreCurrent == SettledDetailsAreCurrent /\ PhotosFollowDetails
=============================================================================
