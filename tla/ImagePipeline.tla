--------------------------- MODULE ImagePipeline ---------------------------
(***************************************************************************)
(* The fetch and raw-conversion pipeline of ironic/common/images.py:      *)
(* fetch (fetch_into, checksum validation, _handle_zstd_compression and,  *)
(* with force_raw, image_to_raw) and image_to_raw called on its own, the  *)
(* way the image cache calls it after fetching into "<path>.part".        *)
(*                                                                         *)
(* The state is the directory that holds one image: each path of it holds *)
(* a file or Absent. Every call is one atomic step: the code is           *)
(* synchronous and single-threaded, and a call's external steps (the      *)
(* download, zstd, qemu-img, the free-memory check) are inputs of the     *)
(* step chosen with \E. Calls follow each other in any order, so a file   *)
(* left by one call is seen by the next.                                  *)
(***************************************************************************)
EXTENDS ImageFormat

CONSTANTS
  Contents,           \* what an image reference may serve: [cands, safe, zstd]
  ConvOutputs,        \* the format sets a qemu-img output may match
  DeepInspection,     \* NOT [conductor]disable_deep_image_inspection
  ZstdDecompression,  \* NOT [conductor]disable_zstandard_decompression
  FileChecksum,       \* NOT [conductor]disable_file_checksum
  VerifiedHrefs,      \* references whose service verifies the transfer (glance)
  FetchForceRaw       \* the force_raw arguments callers pass to fetch

ASSUME PipelineAssumption ==
  /\ Contents \subseteq [cands: SUBSET Formats, safe: BOOLEAN, zstd: BOOLEAN]
  /\ ConvOutputs \subseteq SUBSET Formats
  /\ DeepInspection \in BOOLEAN
  /\ ZstdDecompression \in BOOLEAN
  /\ FileChecksum \in BOOLEAN
  /\ VerifiedHrefs \subseteq Hrefs
  /\ FetchForceRaw \subseteq BOOLEAN

VARIABLES
  fs,    \* path -> File \cup {Absent}
  last   \* what the last call was given and how it ended

vars == <<fs, last>>

(* The image's path, the staging path the image cache fetches into, and  *)
(* the names the code derives from them.                                 *)
Image == "img"
Part == "img.part"
Converted == "img.converted"
FetchPaths == {Image, Part}
ZstdPath(p) == IF p = Image THEN "img.zstd" ELSE "img.part.zstd"
Paths == FetchPaths \cup {Converted, "img.zstd", "img.part.zstd"}

Ops == {"none", "fetch", "to_raw"}
ZstdOutcomes == {"ok", "os_error", "exit_error"}
ZstdSteps == ZstdOutcomes \cup {"skipped"}

\* What qemu-img convert did: exited non-zero, or wrote a file.
ConvResults == [ok: BOOLEAN, out: ConvOutputs]

Call == [op: Ops, path: Paths, href: Hrefs \cup {Absent}, ok: BOOLEAN,
         checksum: BOOLEAN, got: File \cup {Absent}, zstd: ZstdSteps]

TypeOK ==
  /\ fs \in [Paths -> File \cup {Absent}]
  /\ last \in Call

Init ==
  /\ fs = [p \in Paths |-> Absent]
  /\ last = [op |-> "none", path |-> Image, href |-> Absent, ok |-> TRUE,
             checksum |-> FALSE, got |-> Absent, zstd |-> "skipped"]

(* Writing content c (or Absent, to delete) at path p; a path the       *)
(* directory did not have before comes into being.                      *)
Write(f, p, c) == [q \in DOMAIN f \cup {p} |-> IF q = p THEN c ELSE f[q]]

\* shutil.move / Path.rename of a file to another path.
Move(f, from, to) == Write(Write(f, to, f[from]), from, Absent)

\* Mutant: the failing step runs outside remove_path_on_error.
RemovePathOnErrorMut(f, p) == f

\* fileutils.remove_path_on_error(p) when its block raises.
RemovePathOnError(f, p) == Write(f, p, Absent)

\* Mutant: the converted file survives a failure of the conversion block.
DropStagedMut(f) == f

(* The inner remove_path_on_error(staged) of image_to_raw (line 590),   *)
(* when the conversion block raises: the converted file is deleted.     *)
DropStaged(f) == RemovePathOnError(f, Converted)

\* Mutant: the ISO exception of line 582 is missing.
NeedsConversionMut(fmt) == fmt \notin RAW_IMAGE_FORMATS

\* image_to_raw leaves raw, gpt and iso images unconverted (line 582).
NeedsConversion(fmt) == fmt \notin RAW_IMAGE_FORMATS /\ fmt # "iso"

\* The result of a call: the directory it leaves and whether it returned.
Result(f, ok) == [fs |-> f, ok |-> ok]

(***************************************************************************)
(* image_to_raw(href, path, path_tmp). With deep inspection the staged    *)
(* file is safety-checked and its format must be permitted; without it,  *)
(* the format is read from `path`. raw, gpt and iso are renamed into      *)
(* place; anything else needs enough free memory, is converted by         *)
(* qemu-img (told the detected source format) into "<path>.converted",   *)
(* the staged file is unlinked, and the output is re-detected and must be *)
(* raw or gpt before it is renamed to `path`. remove_path_on_error        *)
(* deletes path_tmp on every failure, and the converted file on failures *)
(* inside the inner block: a failing qemu-img leaves nothing that is     *)
(* kept, and an output that does not re-detect as raw is written, with  *)
(* the staged file already unlinked, before it is dropped.              *)
(***************************************************************************)
ToRaw(f, path, tmp, conv, memOk) ==
  LET fmt    == IF DeepInspection THEN SafetyCheckImage(f[tmp])
                                  ELSE GetSourceFormat(f[path])
      clean  == RemovePathOnError(f, tmp)
      out    == [f[tmp] EXCEPT !.cands = conv.out, !.safe = TRUE,
                               !.zstd = FALSE]
      staged == Write(clean, Converted, out)
  IN IF fmt \in Errors THEN Result(clean, FALSE)
     ELSE IF DeepInspection /\ ~ImageFormatPermitted(fmt)
          THEN Result(clean, FALSE)
     ELSE IF ~NeedsConversion(fmt)
          THEN IF f[tmp] = Absent THEN Result(clean, FALSE)
               ELSE Result(Move(f, tmp, path), TRUE)
     ELSE IF ~memOk THEN Result(clean, FALSE)
     \* qemu-img fails, or rejects a file that is not of the given format
     ELSE IF \/ ~conv.ok \/ f[tmp] = Absent
             \/ fmt \notin Matches(f[tmp])
          THEN Result(DropStaged(clean), FALSE)
     ELSE IF GetSourceFormat(out) \notin RAW_IMAGE_FORMATS
          THEN Result(DropStaged(staged), FALSE)
     ELSE Result(Move(staged, Converted, path), TRUE)

\* The outcomes image_to_raw can have, over what qemu-img and the memory check do.
ToRawResults(f, path, tmp) ==
  {ToRaw(f, path, tmp, conv, memOk) : conv \in ConvResults, memOk \in BOOLEAN}

\* A direct call image_to_raw(href, path, path + ".part").
ImageToRaw ==
  \E r \in ToRawResults(fs, Image, Part) :
    /\ fs' = r.fs
    /\ last' = [op |-> "to_raw", path |-> Image, href |-> Absent, ok |-> r.ok,
                checksum |-> FALSE, got |-> Absent, zstd |-> "skipped"]

(***************************************************************************)
(* The file checksum is validated when the transfer was not already      *)
(* verified by the image service, checking is enabled and the caller     *)
(* supplied one; validation fails exactly when the bytes are not intact. *)
(***************************************************************************)
\* Mutant: the "not" of "not transfer_checksum" is missing.
ChecksumRequiredMut(h, checksum) ==
  /\ h \in VerifiedHrefs
  /\ FileChecksum
  /\ checksum

ChecksumRequired(h, checksum) ==
  /\ h \notin VerifiedHrefs
  /\ FileChecksum
  /\ checksum

\* Whether _handle_zstd_compression runs zstd on a downloaded file.
ZstdApplies(file) == file.zstd /\ ZstdDecompression

(***************************************************************************)
(* _handle_zstd_compression(p) after a download that left `file` at p:   *)
(* a wrapped file is moved to p.zstd and `zstd -d --rm` run on it. Only  *)
(* OSError is caught, and then the file is moved back; a non-zero exit   *)
(* raises ProcessExecutionError, which propagates with the file still at *)
(* p.zstd (zstd removes its partial output). A sidecar an earlier      *)
(* failure left is overwritten by the move.                             *)
(***************************************************************************)
HandleZstd(f, p, file, zst) ==
  LET moved == Move(f, p, ZstdPath(p))
      unwrapped == [file EXCEPT !.zstd = FALSE]
  IN IF ~ZstdApplies(file) THEN Result(f, TRUE)
     \* zstd -d --rm writes p and removes p.zstd
     ELSE IF zst = "ok"
          THEN Result(Write(Write(moved, p, unwrapped), ZstdPath(p), Absent),
                      TRUE)
     ELSE IF zst = "os_error" THEN Result(Move(moved, ZstdPath(p), p), TRUE)
     ELSE Result(moved, FALSE)

\* The zstd outcomes a download can meet: none when zstd is not run.
ZstdChoices(file) == IF ZstdApplies(file) THEN ZstdOutcomes ELSE {"skipped"}

(***************************************************************************)
(* fetch(context, href, p, force_raw, checksum): fetch_into opens p for   *)
(* writing and downloads into it; remove_path_on_error(p) deletes p when  *)
(* the download or the checksum validation raises. Then the zstd check,   *)
(* then, with force_raw, image_to_raw(href, p, p + ".part").             *)
(***************************************************************************)
FetchCall(p, h, checksum, ok, g, zst) ==
  [op |-> "fetch", path |-> p, href |-> h, ok |-> ok,
   checksum |-> checksum, got |-> g, zstd |-> zst]

\* fetch_into raised (service lookup, authentication or download failed).
FetchDownloadFails(p, h, checksum) ==
  /\ fs' = RemovePathOnError(fs, p)
  /\ last' = FetchCall(p, h, checksum, FALSE, Absent, "skipped")

(* The download wrote `content`; `intact` says whether the bytes are the *)
(* published ones. A service that verifies transfers raises instead of   *)
(* returning bytes that are not intact.                                  *)
Fetch(p, h, forceRaw, checksum, content, intact) ==
  LET file == [href |-> h, cands |-> content.cands, safe |-> content.safe,
               zstd |-> content.zstd, intact |-> intact]
      got  == Write(fs, p, file)
  IN /\ forceRaw => p = Image
     /\ h \in VerifiedHrefs => intact
     /\ IF ChecksumRequired(h, checksum) /\ ~intact
          THEN /\ fs' = RemovePathOnError(got, p)
               /\ last' = FetchCall(p, h, checksum, FALSE, file, "skipped")
        ELSE \E zst \in ZstdChoices(file) :
               LET z == HandleZstd(got, p, file, zst) IN
               \E r \in IF forceRaw /\ z.ok THEN ToRawResults(z.fs, p, Part)
                                            ELSE {z} :
                 /\ fs' = r.fs
                 /\ last' = FetchCall(p, h, checksum, r.ok, file, zst)

Next ==
  \/ \E p \in FetchPaths, h \in Hrefs, checksum \in BOOLEAN :
       \/ FetchDownloadFails(p, h, checksum)
       \/ \E forceRaw \in FetchForceRaw, content \in Contents,
             intact \in BOOLEAN :
            Fetch(p, h, forceRaw, checksum, content, intact)
  \/ ImageToRaw

Spec == Init /\ [][Next]_vars

-----------------------------------------------------------------------------
(***************************************************************************)
(* FetchAtomic: a fetch that raises leaves no file at its destination     *)
(* (spec sections 1 and 7: either a valid artifact is at the destination  *)
(* or nothing is). The code relies on remove_path_on_error around the    *)
(* download and the checksum, and on the zstd and image_to_raw steps not *)
(* leaving a file at p when they raise.                                 *)
(***************************************************************************)
FetchAtomic ==
  last.op = "fetch" /\ ~last.ok => fs[last.path] = Absent

(***************************************************************************)
(* FetchDelivers: after a fetch of href to p returns, p holds a file      *)
(* fetched from that href and, when the caller supplied a checksum and    *)
(* checking is enabled, its bytes are intact (verified by fetch or by the *)
(* image service's transfer check). A file left at p by an earlier call,  *)
(* or at p + ".part", must never be handed back instead.                 *)
(***************************************************************************)
FetchDelivers ==
  last.op = "fetch" /\ last.ok =>
    /\ fs[last.path] # Absent
    /\ fs[last.path].href = last.href
    /\ last.checksum /\ FileChecksum => fs[last.path].intact

(***************************************************************************)
(* ConvertedCleanedUp: between calls there is never a "<path>.converted" *)
(* file, whether image_to_raw was called directly or by fetch with       *)
(* force_raw, and whichever step of the conversion failed: the inner     *)
(* remove_path_on_error of image_to_raw (images.py:590-607) deletes the *)
(* output of a conversion that fails or re-detects as neither raw nor   *)
(* gpt, and a successful one is renamed into place.                     *)
(***************************************************************************)
ConvertedCleanedUp == fs[Converted] = Absent

(***************************************************************************)
(* ToRawContract: every image_to_raw call consumes the staged file. When *)
(* it returns, the image now at path                                      *)
(* is the staged file itself if that was raw, gpt or iso (an ISO is never *)
(* run through qemu-img), and otherwise a conversion of the staged image  *)
(* that re-detects as raw or gpt; with deep inspection the staged file   *)
(* passed the safety check with a permitted format. When it raises, the  *)
(* file at path is untouched (spec 4.4 and 8).                           *)
(***************************************************************************)
ToRawOutcome ==
  /\ fs'[Part] = Absent
  /\ IF last'.ok
       THEN /\ fs[Part] # Absent
            /\ fs'[Image] # Absent
            /\ IF DetectFileFormat(fs[Part]) \in RAW_IMAGE_FORMATS \cup {"iso"}
                 THEN fs'[Image] = fs[Part]
                 ELSE /\ fs'[Image].href = fs[Part].href
                      /\ DetectFileFormat(fs'[Image]) \in RAW_IMAGE_FORMATS
            /\ DeepInspection =>
                 ImageFormatPermitted(SafetyCheckImage(fs[Part]))
       ELSE fs'[Image] = fs[Image]

ToRawContract == [][last'.op = "to_raw" => ToRawOutcome]_vars

(***************************************************************************)
(* ZstdRestore: when decompressing a downloaded zstd file fails, the      *)
(* original download is back at the destination (spec 4.3: the original  *)
(* file is restored if the external tool fails, never leaving the caller *)
(* without a usable file).                                               *)
(***************************************************************************)
ZstdRestore ==
  last.op = "fetch" /\ last.zstd \in {"os_error", "exit_error"} =>
    fs[last.path] = last.got

(***************************************************************************)
(* The refinement mapping onto ImageStore: the image is the file at      *)
(* Image and the staged file the one at Image + ".part"; the request is  *)
(* the last call, with a checksum counting as asked for only when file    *)
(* checksums are enabled. The other paths ("<path>.converted", the zstd  *)
(* sidecars) are the pipeline's own business and are not seen.          *)
(***************************************************************************)
Place(p) == IF p = Image THEN "image" ELSE "staged"

StoreView == [s \in {"image", "staged"} |->
                fs[IF s = "image" THEN Image ELSE Part]]

RequestView == [op |-> last.op, place |-> Place(last.path), href |-> last.href,
                checked |-> last.checksum /\ FileChecksum, ok |-> last.ok]

IS == INSTANCE ImageStore WITH store <- StoreView, request <- RequestView

(***************************************************************************)
(* ImplementsImageStore: every fetch and image_to_raw call is a step of  *)
(* the abstract store (spec 1, 4.4 and 7) or leaves the image and the    *)
(* staged file as they were: a fetch touches only its destination and   *)
(* leaves nothing or a file of the requested reference there, and       *)
(* image_to_raw consumes the staged file and installs it, a raw or gpt  *)
(* conversion of it, or nothing.                                         *)
(***************************************************************************)
ImplementsImageStore == IS!Spec
=============================================================================
