----------------------- MODULE PolicyClassifierProofs -----------------------
(***************************************************************************)
(* Proofs about PolicyClassifier: is_source_a_path agrees with spec      *)
(* section 4.7 for every instance_info and every HEAD response, not only *)
(* the ones TLC enumerates. The answer path is written once, by          *)
(* IsSourceAPathCall, and nothing it is computed from changes later, so  *)
(* the inductive invariant says that path is still "pending" or is the   *)
(* answer of IsSourceAPath on the current inputs.                        *)
(***************************************************************************)
EXTENDS PolicyClassifier, TLAPS

\* The answer recorded for is_source_a_path is the one the inputs give.
PathAnswered ==
  path \in {"pending", IsSourceAPath(info.source, probe)}

IInv == TypeOK /\ PathAnswered

(***************************************************************************)
(* The decision order of is_source_a_path meets the four rules of spec   *)
(* 4.7 for every reference it accepts and every probe answer; an HTML    *)
(* type is a listing even when a length comes with it, because the code  *)
(* tests the type first.                                                 *)
(***************************************************************************)
LEMMA IsSourceAPathMeetsSpec ==
  ASSUME NEW src \in {"url", "glance", "registry"}, NEW pr \in Probes
  PROVE  LET r == IsSourceAPath(src, pr) IN
         /\ ~pr.ok => r = NONE_
         /\ pr.ok /\ IsHtml(pr.ctype) => r = TRUE_
         /\ pr.ok /\ pr.ctype \notin {"absent"} /\ ~IsHtml(pr.ctype)
              /\ pr.length => r = FALSE_
         /\ pr.ok /\ pr.ctype = "absent" /\ ~pr.length =>
              r = Bool(pr.slash)
<1>1. /\ pr.ok \in BOOLEAN /\ pr.length \in BOOLEAN /\ pr.slash \in BOOLEAN
      /\ pr.ctype \in ContentTypes
  BY DEF Probes
<1>2. src # "missing" /\ src # "unsupported"
  OBVIOUS
<1> QED
  BY <1>1, <1>2 DEF IsSourceAPath, IsHtml, Bool, ContentTypes, NONE_, TRUE_,
                    FALSE_, RAISES

\* The initial states satisfy the inductive invariant.
LEMMA InitIInv == Init => IInv
BY DEF Init, IInv, TypeOK, PathAnswered, Answers

(***************************************************************************)
(* Both calls keep the invariant: IsSourceAPathCall records exactly the  *)
(* answer PathAnswered names, and IsWholeDiskImageCall touches neither   *)
(* path nor the inputs it was computed from.                             *)
(***************************************************************************)
LEMMA NextIInv == IInv /\ [Next]_vars => IInv'
<1> SUFFICES ASSUME IInv, [Next]_vars PROVE IInv'
  OBVIOUS
<1>1. IsSourceAPath(info.source, probe) \in Answers
  BY DEF IInv, TypeOK, IsSourceAPath, Answers
<1>2. IsWholeDiskImage(info, glance, probe) \in Answers
  BY DEF IInv, TypeOK, IsWholeDiskImage, IsSourceAPath, Bool, Answers
<1>3. CASE IsSourceAPathCall
  BY <1>1, <1>3 DEF IsSourceAPathCall, IInv, TypeOK, PathAnswered
<1>4. CASE IsWholeDiskImageCall
  BY <1>2, <1>4 DEF IsWholeDiskImageCall, IInv, TypeOK, PathAnswered
<1>5. CASE UNCHANGED vars
  BY <1>5 DEF vars, IInv, TypeOK, PathAnswered
<1> QED
  BY <1>3, <1>4, <1>5 DEF Next

(***************************************************************************)
(* PathSourceAgreesWithSpec, proved: in every reachable state, an answer *)
(* is_source_a_path returned for a URL, glance or registry reference     *)
(* agrees with spec 4.7's rules for probe errors, HTML listings, files  *)
(* with a length, and the trailing-slash fallback.                       *)
(***************************************************************************)
THEOREM PathSourceProved == Spec => []PathSourceAgreesWithSpec
<1>1. IInv => PathSourceAgreesWithSpec
  <2> SUFFICES ASSUME IInv,
                      info.source \in {"url", "glance", "registry"},
                      path # "pending"
               PROVE  PathSourceAgreesWithSpec
    BY DEF PathSourceAgreesWithSpec
  <2>1. path = IsSourceAPath(info.source, probe)
    BY DEF IInv, PathAnswered
  <2>2. probe \in Probes
    BY DEF IInv, TypeOK
  <2> QED
    BY <2>1, <2>2, IsSourceAPathMeetsSpec DEF PathSourceAgreesWithSpec
<1> QED
  BY <1>1, InitIInv, NextIInv, PTL DEF Spec
=============================================================================
