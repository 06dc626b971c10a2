-------------------------- MODULE MCImagePipeline --------------------------
(* Small instances of ImagePipeline for TLC. *)
EXTENDS ImagePipeline

\* Two references, so that a file of one can be mistaken for the other.
MCHrefs == {"glance_img", "http_img"}
MCVerifiedHrefs == {"glance_img"}

\* ironic's default [conductor]permitted_image_formats.
MCPermitted == {"raw", "qcow2", "iso"}

(* What a reference may serve: a raw disk, a safe qcow2, a qcow2 whose    *)
(* safety check fails (a backing file), an ISO with a GPT in front, an   *)
(* ambiguous qcow2+vmdk match, a vmdk (not permitted) and a zstd-wrapped *)
(* qcow2.                                                                *)
MCContents ==
  { [cands |-> {"raw"},          safe |-> TRUE,  zstd |-> FALSE],
    [cands |-> {"qcow2"},        safe |-> TRUE,  zstd |-> FALSE],
    [cands |-> {"qcow2"},        safe |-> FALSE, zstd |-> FALSE],
    [cands |-> {"iso", "gpt"},   safe |-> TRUE,  zstd |-> FALSE],
    [cands |-> {"qcow2", "vmdk"}, safe |-> TRUE, zstd |-> FALSE],
    [cands |-> {"vmdk"},         safe |-> TRUE,  zstd |-> FALSE],
    [cands |-> {"qcow2"},        safe |-> TRUE,  zstd |-> TRUE] }

\* qemu-img writes raw, or (a faulty conversion) a file still seen as qcow2.
MCConvOutputs == {{"raw"}, {"qcow2"}}
=============================================================================
