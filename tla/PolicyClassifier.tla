-------------------------- MODULE PolicyClassifier --------------------------
(***************************************************************************)
(* is_whole_disk_image and is_source_a_path of ironic/common/images.py.   *)
(* Both are pure functions of a node's instance_info and of what the     *)
(* image service answers (glance properties, or the headers and final URL *)
(* of a HEAD request). The state is one such input, chosen in Init; the  *)
(* properties compare the code's answer with spec section 4.7 on every   *)
(* input of the small sets below. Each behaviour is one node: it calls   *)
(* the two functions, in either order, and then stops.                   *)
(***************************************************************************)

\* The answers: True, False, None, or an exception leaving the function.
TRUE_ == "true"
FALSE_ == "false"
NONE_ == "none"
RAISES == "raises"

Bool(b) == IF b THEN TRUE_ ELSE FALSE_

\* image_source forms: missing, a glance UUID, an oci:// registry URL, an
\* http(s) URL, and a reference get_image_service rejects.
Sources == {"missing", "glance", "registry", "url", "unsupported"}
\* image_type / img_type values: absent, and the strings a user may set.
ImageTypes == {"absent", "partition", "whole-disk", "other"}

Infos == [source: Sources, image_type: ImageTypes,
          kernel: BOOLEAN, ramdisk: BOOLEAN]

\* get_image_properties: raises, or the image's stored properties.
GlanceAnswers == [ok: BOOLEAN, img_type: {"absent", "partition", "whole-disk"},
                  kernel_id: BOOLEAN, ramdisk_id: BOOLEAN]

\* validate_href: raises, or a response with these headers and final URL.
ContentTypes == {"absent", "text/html", "text/html; charset=utf-8",
                 "application/octet-stream"}
Probes == [ok: BOOLEAN, ctype: ContentTypes, length: BOOLEAN,
           slash: BOOLEAN]

VARIABLES
  info,    \* the node's instance_info
  glance,  \* what get_image_properties answers
  probe,   \* what validate_href answers
  path,    \* what is_source_a_path returned, or "pending"
  whole    \* what is_whole_disk_image returned, or "pending"

vars == <<info, glance, probe, path, whole>>

Answers == {TRUE_, FALSE_, NONE_, RAISES, "pending"}

TypeOK ==
  /\ info \in Infos
  /\ glance \in GlanceAnswers
  /\ probe \in Probes
  /\ path \in Answers
  /\ whole \in Answers

\* Any inputs; neither function called yet.
Init ==
  /\ info \in Infos
  /\ glance \in GlanceAnswers
  /\ probe \in Probes
  /\ path = "pending"
  /\ whole = "pending"

\* str(headers['Content-Type']).startswith('text/html')
IsHtml(ct) == ct \in {"text/html", "text/html; charset=utf-8"}

\* A validate_href failure taken as "not a path" (the except returning False).
IsSourceAPathMut(src, pr) ==
  IF src = "missing" THEN NONE_
  ELSE IF src = "unsupported" THEN RAISES
  ELSE IF ~pr.ok THEN FALSE_
  ELSE IF pr.ctype # "absent" /\ IsHtml(pr.ctype) THEN TRUE_
  ELSE IF pr.ctype # "absent" /\ pr.ctype # "text/html" /\ pr.length
       THEN FALSE_
  ELSE IF pr.slash THEN TRUE_
  ELSE FALSE_

(***************************************************************************)
(* is_source_a_path(ctx, image_source): get_image_service runs outside    *)
(* the try and raises for an unsupported reference; a failed             *)
(* validate_href gives None; then, in this order, an HTML content type   *)
(* means a listing, a non-"text/html" type with a length means a file, a *)
(* final URL ending in "/" means a listing, and anything else a file.    *)
(***************************************************************************)
IsSourceAPath(src, pr) ==
  IF src = "missing" THEN NONE_
  ELSE IF src = "unsupported" THEN RAISES
  ELSE IF ~pr.ok THEN NONE_
  ELSE IF pr.ctype # "absent" /\ IsHtml(pr.ctype) THEN TRUE_
  ELSE IF pr.ctype # "absent" /\ pr.ctype # "text/html" /\ pr.length
       THEN FALSE_
  ELSE IF pr.slash THEN TRUE_
  ELSE FALSE_

(***************************************************************************)
(* is_whole_disk_image(ctx, instance_info): no source is None; an        *)
(* explicit image_type wins; glance images use img_type, else the absence *)
(* of kernel_id and ramdisk_id (None if the lookup raises); registry      *)
(* images are whole-disk; other references are None when they look like  *)
(* a path, and otherwise whole-disk unless kernel or ramdisk is set. The  *)
(* path test is used as a truth value, so its None counts as "not a      *)
(* path".                                                                *)
(***************************************************************************)
IsWholeDiskImage(i, g, pr) ==
  IF i.source = "missing" THEN NONE_
  ELSE IF i.image_type # "absent" THEN Bool(i.image_type # "partition")
  ELSE IF i.source = "glance"
       THEN IF ~g.ok THEN NONE_
            ELSE IF g.img_type # "absent" THEN Bool(g.img_type # "partition")
            ELSE Bool(~g.kernel_id /\ ~g.ramdisk_id)
  ELSE IF i.source = "registry" THEN TRUE_
  ELSE LET isPath == IsSourceAPath(i.source, pr) IN
       IF isPath = RAISES THEN RAISES
       ELSE IF isPath = TRUE_ THEN NONE_
       ELSE Bool(~i.kernel /\ ~i.ramdisk)

\* A call of is_source_a_path on the node's image_source.
IsSourceAPathCall ==
  /\ path = "pending"
  /\ path' = IsSourceAPath(info.source, probe)
  /\ UNCHANGED <<info, glance, probe, whole>>

\* A call of is_whole_disk_image on the node's instance_info.
IsWholeDiskImageCall ==
  /\ whole = "pending"
  /\ whole' = IsWholeDiskImage(info, glance, probe)
  /\ UNCHANGED <<info, glance, probe, path>>

Next == IsSourceAPathCall \/ IsWholeDiskImageCall

Spec == Init /\ [][Next]_vars

-----------------------------------------------------------------------------
(***************************************************************************)
(* Spec 4.7, isPathSource: a probe error is unknown; an HTML type is a   *)
(* listing, with or without a length (spec 9: the text/html test comes   *)
(* before the Content-Length test, for the mounted ISO that sends both); *)
(* a non-HTML type with a length is a file; with no content type and no *)
(* length, a final URL ending in "/" is a listing.                       *)
(***************************************************************************)
PathSourceAgreesWithSpec ==
  LET r == path IN
  info.source \in {"url", "glance", "registry"} /\ r # "pending" =>
    /\ ~probe.ok => r = NONE_
    /\ probe.ok /\ IsHtml(probe.ctype) => r = TRUE_
    /\ probe.ok /\ probe.ctype \notin {"absent"} /\ ~IsHtml(probe.ctype)
         /\ probe.length => r = FALSE_
    /\ probe.ok /\ probe.ctype = "absent" /\ ~probe.length =>
         r = Bool(probe.slash)

(***************************************************************************)
(* Spec 4.7, isWholeDisk: "unknown" (None) on any resolution error or    *)
(* lookup failure, and when the source is a directory listing; callers   *)
(* must not get True or False then.                                      *)
(***************************************************************************)
WholeDiskUnknownOnLookupFailure ==
  LET r == whole IN
  /\ r # "pending"
  /\ info.image_type = "absent"
  /\ \/ info.source = "glance" /\ ~glance.ok
     \/ info.source \in {"url", "unsupported"} /\ ~probe.ok
  => r = NONE_
=============================================================================
