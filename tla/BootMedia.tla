----------------------------- MODULE BootMedia -----------------------------
(***************************************************************************)
(* Boot media assembly of ironic/common/images.py: create_boot_iso,       *)
(* create_isolinux_image_for_bios, create_esp_image_for_uefi (with        *)
(* _get_deploy_iso_files), _create_root_fs, _label and create_vfat_image. *)
(* Each public function is one atomic step: its external tools (fetch,   *)
(* copies, write_to_file, mkisofs, dd, mkfs, mcopy) are nondeterministic  *)
(* outcomes, and the step leaves behind the caller-visible output file   *)
(* and the way the call returned. File contents are abstracted to the    *)
(* name of the input they came from; a directory tree is a function from *)
(* relative destinations to sources.                                     *)
(***************************************************************************)
EXTENDS Naturals, Sequences

CONSTANTS
  Absent,        \* no file at a path
  Partial,       \* output a failed tool left half-written
  Zeroed,        \* a blank image dd left before mkfs formatted it
  NoPath,        \* an asset a donor ISO does not contain
  InjectDests,   \* destinations callers inject files at
  Injects,       \* inject_files mappings: sequences of <<source, dest>>
  DonorLayouts,  \* where a donor ISO keeps efiboot.img and grub.cfg
  VfatFiles,     \* files_info mappings given to create_vfat_image
  Ldlinux,       \* CONF.ldlinux_c32 set, or found in LDLINUX_SRC_DIRS
  ConfEspImage   \* CONF.esp_image set

\* Destinations the code names.
VMLINUZ == "vmlinuz"
INITRD == "initrd"
ISOLINUX_BIN == "isolinux/isolinux.bin"
ISOLINUX_CFG == "isolinux/isolinux.cfg"
LDLINUX_BIN == "isolinux/ldlinux.c32"
EFIBOOT_LOCATION == "boot/grub/efiboot.img"
GRUB_CONFIG_PATH == "boot/grub/grub.cfg"   \* CONF.grub_config_path
PARAMETERS_FILE == "parameters.txt"
MetadataDests == {"openstack/latest/meta_data.json"}

DonorDests == {l.efi : l \in DonorLayouts} \cup {l.grub : l \in DonorLayouts}
Dests == {VMLINUZ, INITRD, ISOLINUX_BIN, ISOLINUX_CFG, LDLINUX_BIN,
          EFIBOOT_LOCATION, GRUB_CONFIG_PATH, PARAMETERS_FILE}
         \cup MetadataDests \cup InjectDests \cup (DonorDests \ {NoPath})

\* Inputs: the fetched kernel and ramdisk, boot loaders, the ESP image,
\* /dev/null, the donor's files, injected files, generated config files.
Sources == {"kernel", "ramdisk", "isolinux_bin", "ldlinux", "esp", "devnull",
            "donor_efiboot", "donor_grub", "inj1", "inj2", "cfg", "params"}

(***************************************************************************)
(* What the inputs are: inject_files maps the files callers inject to     *)
(* destinations; create_vfat_image copies any input; a donor ISO keeps    *)
(* efiboot.img and grub.cfg as two different files, found by those names, *)
(* so neither is openstack metadata; "no file" is no input.              *)
(***************************************************************************)
ASSUME BootAssumption ==
  /\ Injects \subseteq Seq({"inj1", "inj2"} \X InjectDests)
  /\ VfatFiles \subseteq Seq(Sources \X Dests)
  /\ \A l \in DonorLayouts :
       l.efi # NoPath /\ l.grub # NoPath =>
         l.efi # l.grub /\ l.efi \notin MetadataDests /\ l.grub \notin MetadataDests
  /\ Ldlinux \in BOOLEAN /\ ConfEspImage \in BOOLEAN
  /\ Absent \notin Sources

Tree == [Dests -> Sources \cup {Absent}]
Media == [kind: {"iso", "vfat"}, tree: Tree, label: {"config-2",
          "VMEDIA_BOOT_ISO", "ir-vfd-dev"}, boot: {"bios", "uefi", "none"},
          bootimg: Dests \cup {NoPath}, cfg: Dests \cup {NoPath},
          publisher: {"set", "None", "omitted"}]
Outputs == Media \cup {Absent, Partial, Zeroed}
Ops == {"none", "boot_iso", "bios_iso", "uefi_iso", "vfat"}
Errors == {"none", "fetch", "creation_failed", "os_error"}
EspArgs == {"deploy", "esp", "both", "neither", "na"}

VARIABLES out, last

vars == <<out, last>>

TypeOK ==
  /\ out \in Outputs
  /\ last \in [op: Ops, ok: BOOLEAN, err: Errors, esp: EspArgs]

Init ==
  /\ out = Absent
  /\ last = [op |-> "none", ok |-> TRUE, err |-> "none", esp |-> "na"]

\* What a call leaves: the output file, whether it returned, its error.
Outcome(o, ok, err) == [out |-> o, ok |-> ok, err |-> err]

Pair(s, d) == <<s, d>>

\* Bug-shaped variant: source and destination swapped in the copy.
RootFsMut(fi) ==
  [d \in Dests |->
     LET I == {i \in 1..Len(fi) : fi[i][2] = d}
     IN IF I = {} THEN Absent
        ELSE fi[CHOOSE i \in I : \A j \in I : j <= i][2]]

(***************************************************************************)
(* _create_root_fs: copies the entries of files_info in dict order, so   *)
(* the last entry with a destination is the one the tree keeps.          *)
(***************************************************************************)
RootFs(fi) ==
  [d \in Dests |->
     LET I == {i \in 1..Len(fi) : fi[i][2] = d}
     IN IF I = {} THEN Absent
        ELSE fi[CHOOSE i \in I : \A j \in I : j <= i][1]]

\* _label: "config-2" when any destination is under openstack/.
Label(fi) ==
  IF \E i \in 1..Len(fi) : fi[i][2] \in MetadataDests
  THEN "config-2" ELSE "VMEDIA_BOOT_ISO"

\* Bug-shaped variant: the generated config written before the tree.
BuildTreeMut(fi, cfgPath) ==
  [d \in Dests |-> IF RootFs(fi)[d] = Absent /\ d = cfgPath THEN "cfg"
                   ELSE RootFs(fi)[d]]

\* _create_root_fs(tmpdir, files_info), then write_to_file of the
\* generated boot-loader config over whatever the tree holds there.
BuildTree(fi, cfgPath) == [RootFs(fi) EXCEPT ![cfgPath] = "cfg"]

(***************************************************************************)
(* The failures after files_info is known, common to both ISO builders:  *)
(* a copy raises EnvironmentError (wrapped); write_to_file of the config *)
(* raises OSError (outside any try, so not wrapped); mkisofs exits non-  *)
(* zero (wrapped), having written nothing or part of the output file.    *)
(***************************************************************************)
IsoFailures(o) ==
  {Outcome(o, FALSE, "creation_failed"), Outcome(o, FALSE, "os_error")}
  \cup {Outcome(p, FALSE, "creation_failed") : p \in {o, Partial}}

Iso(fi, boot, bootimg, cfgPath, pub) ==
  [kind |-> "iso", tree |-> BuildTree(fi, cfgPath), label |-> Label(fi),
   boot |-> boot, bootimg |-> bootimg, cfg |-> cfgPath, publisher |-> pub]

(***************************************************************************)
(* create_isolinux_image_for_bios: kernel, ramdisk, isolinux.bin, the    *)
(* injected files, then ldlinux.c32 when configured or found; the config *)
(* at isolinux/isolinux.cfg; mkisofs -b isolinux/isolinux.bin with the   *)
(* publisher str(publisher_id), which is "None" when none is given.      *)
(***************************************************************************)
BiosResults(o, inject, pub) ==
  LET fi == <<Pair("kernel", VMLINUZ), Pair("ramdisk", INITRD),
              Pair("isolinux_bin", ISOLINUX_BIN)>> \o inject
            \o (IF Ldlinux THEN <<Pair("ldlinux", LDLINUX_BIN)>> ELSE <<>>)
  IN IsoFailures(o)
     \cup {Outcome(Iso(fi, "bios", ISOLINUX_BIN, ISOLINUX_CFG,
                       IF pub THEN "set" ELSE "None"), TRUE, "none")}

\* "if deploy_iso and not esp_image".
UsesDonor(deploy, esp) == deploy /\ ~esp

(***************************************************************************)
(* _get_deploy_iso_files, once _extract_iso has unpacked the donor: the  *)
(* uefi_path_info entries for its efiboot.img and grub.cfg, or <<>> when *)
(* either is missing (it raises ImageCreationFailed).                    *)
(***************************************************************************)
DeployIsoFiles(l) ==
  IF l.efi = NoPath \/ l.grub = NoPath THEN <<>>
  ELSE <<Pair("donor_efiboot", l.efi), Pair("donor_grub", l.grub)>>

(***************************************************************************)
(* create_esp_image_for_uefi: exactly one of deploy_iso and esp_image.   *)
(* From a donor ISO, _extract_iso may fail, and then the donor must hold *)
(* both efiboot.img and grub.cfg; a standalone ESP goes to               *)
(* boot/grub/efiboot.img with /dev/null at CONF.grub_config_path. Those  *)
(* entries follow the injected files; the config is written at the grub *)
(* path and mkisofs -e names the EFI image; no publisher when none.      *)
(***************************************************************************)
UefiResults(o, deploy, esp, inject, pub) ==
  LET base == <<Pair("kernel", VMLINUZ), Pair("ramdisk", INITRD)>> \o inject
      Build(upi, eRel, grubRel) ==
        IsoFailures(o)
        \cup {Outcome(Iso(base \o upi, "uefi", eRel, grubRel,
                          IF pub THEN "set" ELSE "omitted"), TRUE, "none")}
  IN IF UsesDonor(deploy, esp)
     THEN {Outcome(o, FALSE, "creation_failed")}
          \cup UNION {IF DeployIsoFiles(l) = <<>>
                      THEN {Outcome(o, FALSE, "creation_failed")}
                      ELSE Build(DeployIsoFiles(l), l.efi, l.grub)
                      : l \in DonorLayouts}
     ELSE IF esp /\ ~deploy
     THEN Build(<<Pair("esp", EFIBOOT_LOCATION),
                  Pair("devnull", GRUB_CONFIG_PATH)>>,
                EFIBOOT_LOCATION, GRUB_CONFIG_PATH)
     ELSE {Outcome(o, FALSE, "creation_failed")}

EspArg(deploy, esp) ==
  IF deploy /\ esp THEN "both" ELSE IF deploy THEN "deploy"
  ELSE IF esp THEN "esp" ELSE "neither"

Apply(op, r, espArg) ==
  /\ out' = r.out
  /\ last' = [op |-> op, ok |-> r.ok, err |-> r.err, esp |-> espArg]

\* A direct call of create_isolinux_image_for_bios.
CreateIsolinuxImageForBios ==
  \E inject \in Injects, pub \in BOOLEAN :
    \E r \in BiosResults(out, inject, pub) : Apply("bios_iso", r, "na")

\* A direct call of create_esp_image_for_uefi.
CreateEspImageForUefi ==
  \E inject \in Injects, pub, deploy, esp \in BOOLEAN :
    \E r \in UefiResults(out, deploy, esp, inject, pub) :
      Apply("uefi_iso", r, EspArg(deploy, esp))

(***************************************************************************)
(* create_boot_iso: fetches the kernel and the ramdisk into its tempdir  *)
(* (a failure propagates); in uefi mode fetches the deploy ISO if given, *)
(* else the ESP image if given, else uses CONF.esp_image; then calls the *)
(* uefi or the bios builder.                                             *)
(***************************************************************************)
CreateBootIso ==
  \E inject \in Injects, pub, uefi, deployHref, espHref \in BOOLEAN :
    LET deploy == uefi /\ deployHref
        esp == uefi /\ ~deployHref /\ (espHref \/ ConfEspImage)
        fetchFails == {Outcome(out, FALSE, "fetch")}
        built == IF uefi THEN UefiResults(out, deploy, esp, inject, pub)
                 ELSE BiosResults(out, inject, pub)
    IN \E r \in fetchFails \cup built :
         Apply("boot_iso", r, IF uefi THEN EspArg(deploy, esp) ELSE "na")

(***************************************************************************)
(* create_vfat_image: dd of a zeroed file at the output, mkfs -t vfat -n *)
(* ir-vfd-dev on it, then, inside one try, _create_root_fs, the          *)
(* parameters file and mcopy of the tree into the image; an empty tree   *)
(* returns with the blank filesystem. Every failure is wrapped.          *)
(***************************************************************************)
CreateVfatImage ==
  \E fi \in VfatFiles, params \in BOOLEAN :
    LET tree == IF params THEN [RootFs(fi) EXCEPT ![PARAMETERS_FILE] = "params"]
                ELSE RootFs(fi)
        vfat == [kind |-> "vfat", tree |-> tree, label |-> "ir-vfd-dev",
                 boot |-> "none", bootimg |-> NoPath, cfg |-> NoPath,
                 publisher |-> "omitted"]
        blank == fi = <<>> /\ ~params
        \* dd fails; mkfs fails; a copy, the parameters file or mcopy fails.
        results ==
          {Outcome(p, FALSE, "creation_failed") : p \in {out, Partial}}
          \cup {Outcome(Zeroed, FALSE, "creation_failed"),
                Outcome(vfat, TRUE, "none")}
          \cup (IF blank THEN {}
                ELSE {Outcome(Partial, FALSE, "creation_failed")})
    IN \E r \in results : Apply("vfat", r, "na")

Next ==
  \/ CreateBootIso
  \/ CreateIsolinuxImageForBios
  \/ CreateEspImageForUefi
  \/ CreateVfatImage

Spec == Init /\ [][Next]_vars

-----------------------------------------------------------------------------
IsoOps == {"boot_iso", "bios_iso", "uefi_iso"}

(***************************************************************************)
(* An ISO a builder returns from carries, whatever files were injected:  *)
(* the freshly generated boot-loader config at the path the loader reads *)
(* (spec 4.6: "written over whatever was extracted/placeholdered"); the *)
(* boot loader itself (isolinux.bin, or the ESP or donor efiboot.img) at *)
(* the El Torito boot image path; and the "config-2" label exactly when  *)
(* an injected file is openstack metadata.                               *)
(***************************************************************************)
IsoLayout ==
  last.op \in IsoOps /\ last.ok =>
    /\ out \in Media
    /\ out.tree[out.cfg] = "cfg"
    /\ out.tree[out.bootimg] \in
         IF out.boot = "bios" THEN {"isolinux_bin"} ELSE {"esp", "donor_efiboot"}
    /\ (out.label = "config-2") <=>
         \E d \in MetadataDests : out.tree[d] \in {"inj1", "inj2"}

(***************************************************************************)
(* Spec 7: a failing call leaves no partially written artifact at the    *)
(* caller-visible output path.                                           *)
(***************************************************************************)
MediaNoPartialOutput == [][~last'.ok => out' = out]_vars
=============================================================================
