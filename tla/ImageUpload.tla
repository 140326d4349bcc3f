----------------------------- MODULE ImageUpload -----------------------------
(***************************************************************************)
(* The upload of several images, jquery.multiImageUpload.js: the files are  *)
(* posted from a form into an iframe, the answer is read from the iframe,   *)
(* and the images of an answer are drawn one by one by a chain of timers.   *)
(*                                                                         *)
(* The progress dialog is modal over the whole window (external: EasyUI's   *)
(* messager.progress), so the user clicks nothing while it is open; the     *)
(* page's own code may call setValue and clear at any time.  An image is    *)
(* the number of the start it came with and its place among those files.    *)
(***************************************************************************)
EXTENDS Integers, Sequences, FiniteSets

CONSTANTS MaxFileNum, \* opt.maxFileNum, not 0
          CHECK_COUNT, \* how often the iframe is read while its body is empty
          MaxFiles,   \* bound: files of one upload or setValue
          MaxStarts   \* bound: uploads and calls of setValue

ASSUME FileAssumption == MaxFileNum \in Nat \ {0} /\ CHECK_COUNT \in Nat \ {0}
ASSUME UploadBoundsAssumption == MaxFiles \in Nat /\ MaxStarts \in Nat

VARIABLES images,    \* the images drawn, from left to right
          chains,    \* the chains of timers that still have images to draw
          upload,    \* the upload whose answer is awaited
          progress,  \* the progress dialog is open
          formShown, \* the form that takes files is visible
          starts,    \* uploads and calls of setValue so far
          crowded,   \* history: see AcceptedIsDrawn
          garbled,   \* history: an answer could not be parsed
          dropped    \* history: images that found the list full

uploadVars == <<images, chains, upload, progress, formShown, starts, crowded,
                garbled, dropped>>

Starts == 1 .. MaxStarts
Image == Starts \X (1 .. MaxFiles)
NoUpload == [id |-> 0, files |-> 0, checks |-> 0]

UploadTypeOK ==
    /\ images \in Seq(Image)
    /\ chains \subseteq [id : Starts, next : 1 .. MaxFiles, files : 1 .. MaxFiles]
    /\ upload \in [id : 0 .. MaxStarts, files : 0 .. MaxFiles,
                   checks : 0 .. CHECK_COUNT]
    /\ progress \in BOOLEAN /\ formShown \in BOOLEAN
    /\ crowded \in BOOLEAN /\ garbled \in BOOLEAN
    /\ starts \in 0 .. MaxStarts
    /\ dropped \subseteq Image

UploadInit ==
    /\ images = <<>> /\ chains = {} /\ upload = NoUpload
    /\ progress = FALSE /\ formShown = TRUE
    /\ starts = 0 /\ crowded = FALSE /\ garbled = FALSE /\ dropped = {}

----------------------------------------------------------------------------
\* _checkMaxFileSize: the form shows exactly when there is room.
Room(list) == Len(list) < MaxFileNum
CheckMaxFileSize == formShown' = Room(images')

\* _setImage: the first timer of a chain is set, if there is an image.
StartChain(i, files) ==
    chains' = IF files = 0 THEN chains
              ELSE chains \cup {[id |-> i, next |-> 1, files |-> files]}

\* A mutation: only the files of this choice are counted.
FitsAlone(files) == files <= MaxFileNum

\* The limit of the change handler counts the images that are drawn.
FitsLimit(files) == files <= MaxFileNum /\ Len(images) + files <= MaxFileNum

\* The change handler and _submit: the form is posted under the dialog.
ChooseFiles(files) ==
    /\ formShown /\ ~progress /\ starts < MaxStarts
    /\ FitsLimit(files)
    /\ starts' = starts + 1
    /\ upload' = [id |-> starts + 1, files |-> files, checks |-> CHECK_COUNT]
    /\ progress' = TRUE
    /\ crowded' = (crowded \/ chains # {})
    /\ UNCHANGED <<images, chains, formShown, garbled, dropped>>

Awaited == upload # NoUpload

\* cb: the iframe has no body yet, look again in 100 ms.
AnswerEmpty ==
    /\ Awaited /\ upload.checks > 1
    /\ upload' = [upload EXCEPT !.checks = @ - 1]
    /\ UNCHANGED <<images, chains, progress, formShown, starts, crowded,
                   garbled, dropped>>

\* cb: the last look is empty too, or the body is no JSON.  JSON.parse
\* throws and nothing closes the dialog.
AnswerGarbled ==
    /\ Awaited
    /\ upload' = NoUpload /\ garbled' = TRUE
    /\ UNCHANGED <<images, chains, progress, formShown, starts, crowded,
                   dropped>>

\* A mutation: the dialog is closed only when the server took the files.
RefusedUnderDialog ==
    /\ Awaited
    /\ upload' = NoUpload
    /\ UNCHANGED <<images, chains, progress, formShown, starts, crowded,
                   garbled, dropped>>

\* cb: the server refuses the files.
AnswerRefused ==
    /\ Awaited
    /\ upload' = NoUpload /\ progress' = FALSE
    /\ UNCHANGED <<images, chains, formShown, starts, crowded, garbled, dropped>>

\* cb: the server took files; opt.filterFile keeps some or all of them.
AnswerOk(files) ==
    /\ Awaited /\ files <= upload.files
    /\ StartChain(upload.id, files)
    /\ upload' = NoUpload /\ progress' = FALSE
    /\ UNCHANGED <<images, formShown, starts, crowded, garbled, dropped>>

\* The timer of a chain: _drawImage gives up silently when the list is full,
\* and the chain goes on to its next image.
DrawImage(c) ==
    LET image == <<c.id, c.next>>
    IN  /\ images' = IF Room(images) THEN Append(images, image) ELSE images
        /\ dropped' = IF Room(images) THEN dropped ELSE dropped \cup {image}
        /\ CheckMaxFileSize
        /\ chains' = (chains \ {c}) \cup
               (IF c.next = c.files THEN {} ELSE {[c EXCEPT !.next = @ + 1]})
        /\ UNCHANGED <<upload, progress, starts, crowded, garbled>>

\* setValue: no limit is checked.
SetValue(files) ==
    /\ starts < MaxStarts
    /\ starts' = starts + 1
    /\ StartChain(starts + 1, files)
    /\ crowded' = (crowded \/ chains # {} \/ Awaited \/ ~FitsLimit(files))
    /\ UNCHANGED <<images, upload, progress, formShown, garbled, dropped>>

\* clear: the images go, the chains stay.
Clear ==
    /\ images' = <<>>
    /\ CheckMaxFileSize
    /\ UNCHANGED <<chains, upload, progress, starts, crowded, garbled, dropped>>

Without(list, k) == SubSeq(list, 1, k - 1) \o SubSeq(list, k + 1, Len(list))

\* _closeFile, when opt.onBeforeClear does not refuse.
CloseFile(k) ==
    /\ ~progress
    /\ images' = Without(images, k)
    /\ CheckMaxFileSize
    /\ UNCHANGED <<chains, upload, progress, starts, crowded, garbled, dropped>>

\* onDrop: the image dragged and the one it is dropped on change places.
Drop(j, k) ==
    /\ ~progress
    /\ images' = [images EXCEPT ![j] = images[k], ![k] = images[j]]
    /\ UNCHANGED <<chains, upload, progress, formShown, starts, crowded,
                   garbled, dropped>>

UploadNext ==
    \/ \E files \in 1 .. MaxFiles : ChooseFiles(files) \/ SetValue(files)
    \/ AnswerEmpty \/ AnswerGarbled \/ AnswerRefused
    \/ \E files \in 0 .. MaxFiles : AnswerOk(files)
    \/ \E c \in chains : DrawImage(c)
    \/ Clear
    \/ \E k \in 1 .. Len(images) : CloseFile(k)
    \/ \E j, k \in 1 .. Len(images) : j # k /\ Drop(j, k)

UploadSpec == UploadInit /\ [][UploadNext]_uploadVars

\* The iframe's load event or the next look at it comes, and a timer fires.
UploadFairness ==
    /\ WF_uploadVars(AnswerEmpty \/ AnswerGarbled \/ AnswerRefused \/
                     \E files \in 0 .. MaxFiles : AnswerOk(files))
    /\ WF_uploadVars(\E c \in chains : DrawImage(c))

----------------------------------------------------------------------------
(* Properties.                                                             *)

(* There are never more images than maxFileNum, however answers, timers     *)
(* and calls of setValue overlap: the last check is made when an image is   *)
(* drawn (jquery.multiImageUpload.js:320).                                 *)
NeverOverLimit == Len(images) <= MaxFileNum

(* The form is visible exactly when another image fits: every step that     *)
(* adds or removes an image looks again, so the user is never locked out    *)
(* of a list with room (jquery.multiImageUpload.js:386-396).               *)
FormShownWhenRoom == formShown <=> Room(images)

(* A file that the change handler accepted is drawn: an image finds the     *)
(* list full only after files were chosen while images of an earlier answer *)
(* were still to be drawn, which the limit does not count, or after a call  *)
(* of setValue that overlapped or did not fit                              *)
(* (jquery.multiImageUpload.js:467).                                       *)
AcceptedIsDrawn == dropped # {} => crowded

(* No image is drawn twice, and none that was dropped is drawn, although    *)
(* several chains run at once and images change places.                    *)
DrawnOnce ==
    /\ \A j, k \in 1 .. Len(images) : j # k => images[j] # images[k]
    /\ \A j \in 1 .. Len(images) : images[j] \notin dropped

(* The four together: the list of images is what was accepted and fits.     *)
ImagesAreRight ==
    NeverOverLimit /\ FormShownWhenRoom /\ AcceptedIsDrawn /\ DrawnOnce

(* The modal dialog closes whether the files were accepted or refused, if   *)
(* every answer can be parsed; an answer that is not JSON leaves it for     *)
(* ever (jquery.multiImageUpload.js:125).                                  *)
ProgressEnds == progress ~> (~progress \/ garbled)

(* The page settles: every image of an answer or of setValue is drawn or    *)
(* dropped in the end.                                                     *)
ChainsEnd == []<>(chains = {})

(* Both together: nothing of an upload goes on for ever.                    *)
UploadEnds == ProgressEnds /\ ChainsEnd
=============================================================================
