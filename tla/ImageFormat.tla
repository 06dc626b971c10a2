---------------------------- MODULE ImageFormat ----------------------------
(***************************************************************************)
(* Format detection and the security gate of ironic/common/images.py:     *)
(* detect_file_format, get_source_format, safety_check_image,             *)
(* image_format_permitted, image_format_matches and                       *)
(* check_if_image_format_is_permitted.                                    *)
(*                                                                         *)
(* The bytes of a file are abstracted to what the oslo format inspector   *)
(* reports about them: the set of formats whose inspector matches, and    *)
(* whether the matched inspector's safety_check() passes. A file also     *)
(* carries the image reference it was fetched from, whether it is wrapped *)
(* in zstd and whether its bytes are the ones its publisher's checksum    *)
(* describes; the pipeline module uses those.                             *)
(***************************************************************************)


CONSTANTS
  Hrefs,                  \* image references the image services resolve
  PermittedImageFormats,  \* [conductor]permitted_image_formats
  Absent                  \* the content of a path that holds no file

Formats == {"raw", "gpt", "qcow2", "iso", "vmdk"}

\* RAW_IMAGE_FORMATS: gpt is a whole-disk image and needs no conversion.
RAW_IMAGE_FORMATS == {"raw", "gpt"}

\* The legacy kernel/ramdisk format names image_format_matches accepts.
LegacyFormats == {"aki", "ari"}

\* The value of an omitted expected_format (None in the code).
NoFormat == "none"

File == [href: Hrefs, cands: SUBSET Formats, safe: BOOLEAN,
         zstd: BOOLEAN, intact: BOOLEAN]

ASSUME FormatAssumption ==
  /\ PermittedImageFormats \subseteq Formats
  /\ Absent \notin File

(* The detection outcomes that are not a format: open() of a missing     *)
(* path raises OSError, the inspector may match nothing (format None) or *)
(* report several formats (ImageFormatError).                            *)
OS_ERROR == "os_error"
FORMAT_NONE == "format_none"
FORMAT_ERROR == "format_error"

(* The formats the inspector's engine matches once it has read enough of *)
(* the file. No oslo inspector knows zstd, so a wrapped file only        *)
(* matches the raw fallback.                                             *)
Matches(f) == IF f.zstd THEN {"raw"} ELSE f.cands

(* detect_file_format: one match is the format; exactly {iso, gpt} is    *)
(* the ISO (a bootable ISO may carry a GPT in front); no match is None;  *)
(* any other multi-format outcome re-raises ImageFormatError.            *)
DetectFileFormat(c) ==
  IF c = Absent THEN OS_ERROR
  ELSE LET m == Matches(c) IN
       IF \E x \in Formats : m = {x} THEN CHOOSE x \in Formats : m = {x}
       ELSE IF m = {"iso", "gpt"} THEN "iso"
       ELSE IF m = {} THEN FORMAT_NONE
       ELSE FORMAT_ERROR

\* get_source_format: parse failures and None become ImageUnacceptable.
UNACCEPTABLE == "image_unacceptable"

GetSourceFormat(c) ==
  LET d == DetectFileFormat(c) IN
  IF d \in {FORMAT_ERROR, FORMAT_NONE} THEN UNACCEPTABLE ELSE d

(* safety_check_image: parse failures, None and a failing safety_check() *)
(* all become InvalidImage; a missing file's OSError is not caught. The  *)
(* raw inspector's safety check passes, so a zstd-wrapped file passes.   *)
INVALID == "invalid_image"

SafetyCheckImage(c) ==
  LET d == DetectFileFormat(c) IN
  IF d = OS_ERROR THEN OS_ERROR
  ELSE IF d \in {FORMAT_ERROR, FORMAT_NONE} THEN INVALID
  ELSE IF ~(c.zstd \/ c.safe) THEN INVALID
  ELSE d

\* The outcomes of detection and inspection that are errors.
Errors == {OS_ERROR, UNACCEPTABLE, INVALID}

\* image_format_permitted: "raw" in the list also permits gpt.
ImageFormatPermitted(fmt) ==
  fmt \in PermittedImageFormats
            \cup (IF "raw" \in PermittedImageFormats
                  THEN RAW_IMAGE_FORMATS ELSE {})

\* image_format_matches
ImageFormatMatches(actual, expected) ==
  \/ expected \in LegacyFormats
  \/ expected = "raw" /\ actual \in RAW_IMAGE_FORMATS
  \/ expected = actual

(* check_if_image_format_is_permitted: TRUE when it returns, FALSE when  *)
(* it raises InvalidImage.                                               *)
CheckIfImageFormatIsPermitted(fmt, expected) ==
  /\ ImageFormatPermitted(fmt)
  /\ expected = NoFormat \/ ImageFormatMatches(fmt, expected)
=============================================================================
