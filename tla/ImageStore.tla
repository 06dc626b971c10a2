----------------------------- MODULE ImageStore -----------------------------
(***************************************************************************)
(* What the fetch and conversion pipeline promises the image cache, with  *)
(* none of its mechanism (spec sections 1, 4.4 and 7). There are two      *)
(* places: the image and the staging file it is fetched into. A fetch    *)
(* into one place either raises and leaves nothing there, or returns and *)
(* leaves a file of the requested reference there, intact when the      *)
(* caller asked for a checksum to be verified; the other place is never  *)
(* touched. Installing the staged file consumes it, and either leaves    *)
(* the image as it was or replaces it by the staged image itself, when  *)
(* that is raw, gpt or an ISO, or by a raw or gpt conversion of it; with *)
(* deep inspection only a staged image that passed the safety check and *)
(* is of a permitted format is installed.                                *)
(***************************************************************************)
EXTENDS ImageFormat

CONSTANT DeepInspection  \* NOT [conductor]disable_deep_image_inspection

VARIABLES
  store,    \* place -> File \cup {Absent}
  request   \* the last call: what it asked for and whether it returned

avars == <<store, request>>

Places == {"image", "staged"}

Request == [op: {"none", "fetch", "to_raw"}, place: Places,
            href: Hrefs \cup {Absent}, checked: BOOLEAN, ok: BOOLEAN]

StoreTypeOK ==
  /\ store \in [Places -> File \cup {Absent}]
  /\ request \in Request

Init ==
  /\ store = [s \in Places |-> Absent]
  /\ request = [op |-> "none", place |-> "image", href |-> Absent,
                checked |-> FALSE, ok |-> TRUE]

\* The files a fetch of h may return: from h, and intact when checked.
Delivered(h, checked) == {f \in File : f.href = h /\ (checked => f.intact)}

\* A fetch of h into place s; checked: a checksum is to be verified.
Fetch(s, h, checked) ==
  \E ok \in BOOLEAN :
    /\ store' \in [Places -> File \cup {Absent}]
    /\ store'[s] \in IF ok THEN Delivered(h, checked) ELSE {Absent}
    /\ \A t \in Places \ {s} : store'[t] = store[t]
    /\ request' = [op |-> "fetch", place |-> s, href |-> h,
                   checked |-> checked, ok |-> ok]

(* The images installing staged file s may leave: s itself when it needs *)
(* no conversion, else a raw or gpt image of the same reference and     *)
(* integrity.                                                            *)
Installed(s) ==
  IF DetectFileFormat(s) \in RAW_IMAGE_FORMATS \cup {"iso"} THEN {s}
  ELSE {f \in File : /\ f.href = s.href /\ f.intact = s.intact
                     /\ DetectFileFormat(f) \in RAW_IMAGE_FORMATS}

\* The staged image may be installed.
Installable(s) ==
  /\ s # Absent
  /\ DeepInspection => ImageFormatPermitted(SafetyCheckImage(s))

\* Installing the staged file as the image.
Install ==
  \E ok \in BOOLEAN :
    /\ ok => Installable(store["staged"])
    /\ store' \in [Places -> File \cup {Absent}]
    /\ store'["image"] \in IF ok THEN Installed(store["staged"])
                                 ELSE {store["image"]}
    /\ store'["staged"] = Absent
    /\ request' = [op |-> "to_raw", place |-> "image", href |-> Absent,
                   checked |-> FALSE, ok |-> ok]

Next ==
  \/ \E s \in Places, h \in Hrefs, checked \in BOOLEAN : Fetch(s, h, checked)
  \/ Install

Spec == Init /\ [][Next]_avars
=============================================================================
