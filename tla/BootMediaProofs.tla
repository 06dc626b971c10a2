-------------------------- MODULE BootMediaProofs --------------------------
(***************************************************************************)
(* Theorems about BootMedia, for every set of inject destinations, inject *)
(* lists, donor layouts and vfat file lists that satisfy BootAssumption. *)
(***************************************************************************)
EXTENDS BootMedia, SequenceTheorems, WellFoundedInduction, TLAPS

-----------------------------------------------------------------------------
(***************************************************************************)
(* _create_root_fs copies the entries of files_info in order, so the last *)
(* entry with a destination decides what the tree holds there. The lemmas *)
(* below say which entry that is; the first two give the largest index   *)
(* of a nonempty set of indices, which RootFs picks with CHOOSE.         *)
(***************************************************************************)
LEMMA LeastNat ==
  ASSUME NEW T \in SUBSET Nat, T # {}
  PROVE  \E x \in T : \A y \in T : x <= y
<1>1. PICK x \in T : \A y \in T : ~(<<y, x>> \in OpToRel(<, Nat))
  BY NatLessThanWellFounded, WFMin
<1>2. \A y \in T : <<y, x>> \in OpToRel(<, Nat) <=> y < x
  BY DEF OpToRel
<1>3. ASSUME NEW y \in T PROVE x <= y
  <2>1. ~(<<y, x>> \in OpToRel(<, Nat))
    BY <1>1
  <2>2. ~(y < x)
    BY <2>1, <1>2
  <2>. QED BY <2>2
<1>. QED BY <1>3

LEMMA GreatestIndex ==
  ASSUME NEW N \in Nat, NEW I \in SUBSET (1..N), I # {}
  PROVE  \E i \in I : \A j \in I : j <= i
<1> DEFINE T == {N - i : i \in I}
<1>1. T \subseteq Nat
  BY SMT
<1>2. T # {}
  OBVIOUS
<1>3. PICK x \in T : \A y \in T : x <= y
  BY <1>1, <1>2, LeastNat
<1>4. PICK i \in I : x = N - i
  BY <1>3
<1>5. \A j \in I : N - j \in T
  OBVIOUS
<1>6. ASSUME NEW j \in I PROVE j <= i
  <2>1. x <= N - j
    BY <1>3, <1>5
  <2>. QED BY <2>1, <1>4
<1>. QED BY <1>6

\* The entry at index k is the last one for d: the tree holds its source.
LEMMA RootFsLast ==
  ASSUME NEW fi \in Seq(Sources \X Dests), NEW d \in Dests, NEW k \in 1..Len(fi),
         fi[k][2] = d,
         \A j \in 1..Len(fi) : j > k => fi[j][2] # d
  PROVE  RootFs(fi)[d] = fi[k][1]
<1> DEFINE I == {i \in 1..Len(fi) : fi[i][2] = d}
<1>1. k \in I /\ \A j \in I : j <= k
  OBVIOUS
<1>2. (CHOOSE i \in I : \A j \in I : j <= i) = k
  BY <1>1
<1>. QED BY <1>1, <1>2 DEF RootFs

\* No entry for d: the tree has nothing there.
LEMMA RootFsNone ==
  ASSUME NEW fi \in Seq(Sources \X Dests), NEW d \in Dests,
         \A j \in 1..Len(fi) : fi[j][2] # d
  PROVE  RootFs(fi)[d] = Absent
BY DEF RootFs

\* Some entry for d, and all of them from S: the tree holds one of S.
LEMMA RootFsFrom ==
  ASSUME NEW fi \in Seq(Sources \X Dests), NEW d \in Dests, NEW S,
         \E j \in 1..Len(fi) : fi[j][2] = d,
         \A j \in 1..Len(fi) : fi[j][2] = d => fi[j][1] \in S
  PROVE  RootFs(fi)[d] \in S
<1> DEFINE I == {i \in 1..Len(fi) : fi[i][2] = d}
<1>1. I # {} /\ I \in SUBSET (1..Len(fi)) /\ Len(fi) \in Nat
  OBVIOUS
<1>2. \E i \in I : \A j \in I : j <= i
  BY <1>1, GreatestIndex
<1>3. (CHOOSE i \in I : \A j \in I : j <= i) \in I
  BY <1>2
<1>. QED BY <1>1, <1>3 DEF RootFs
\* A files_info of inputs and destinations yields a tree.
LEMMA RootFsType ==
  ASSUME NEW fi \in Seq(Sources \X Dests)
  PROVE  RootFs(fi) \in Tree
<1>1. ASSUME NEW d \in Dests PROVE RootFs(fi)[d] \in Sources \cup {Absent}
  <2>1. CASE \E j \in 1..Len(fi) : fi[j][2] = d
    <3>1. \A j \in 1..Len(fi) : fi[j][1] \in Sources
      BY ElementOfSeq
    <3>. QED BY <2>1, <3>1, RootFsFrom
  <2>2. CASE ~\E j \in 1..Len(fi) : fi[j][2] = d
    BY <2>2, RootFsNone
  <2>. QED BY <2>1, <2>2
<1>. QED BY <1>1 DEF Tree, RootFs

-----------------------------------------------------------------------------
(***************************************************************************)
(* What every ISO either builder returns is made of: the tree is the     *)
(* copied files with the config written over the config path, so that   *)
(* path holds the config and every other path what _create_root_fs left; *)
(* the label is "config-2" exactly when metadata is in the tree,         *)
(* provided only injected files go to metadata destinations and the      *)
(* config does not.                                                      *)
(***************************************************************************)
IsoShape(fi, boot, bootimg, cfgPath, pub) ==
  LET m == Iso(fi, boot, bootimg, cfgPath, pub) IN
  /\ m \in Media
  /\ m.boot = boot /\ m.bootimg = bootimg /\ m.cfg = cfgPath
  /\ m.tree[cfgPath] = "cfg"
  /\ bootimg # cfgPath => m.tree[bootimg] = RootFs(fi)[bootimg]

IsoLabelled(fi, boot, bootimg, cfgPath, pub) ==
  LET m == Iso(fi, boot, bootimg, cfgPath, pub) IN
  (m.label = "config-2") <=>
    \E d \in MetadataDests : m.tree[d] \in {"inj1", "inj2"}

LEMMA IsoFacts ==
  ASSUME NEW fi \in Seq(Sources \X Dests), NEW boot \in {"bios", "uefi"},
         NEW bootimg \in Dests, NEW cfgPath \in Dests,
         NEW pub \in {"set", "None", "omitted"}
  PROVE  IsoShape(fi, boot, bootimg, cfgPath, pub)
<1> DEFINE m == Iso(fi, boot, bootimg, cfgPath, pub)
<1>1. RootFs(fi) \in Tree
  BY RootFsType
<1>2. m.tree = [RootFs(fi) EXCEPT ![cfgPath] = "cfg"]
  BY DEF Iso, BuildTree
<1>3. m.tree \in Tree
  BY <1>1, <1>2 DEF Tree, Sources
<1>4. m \in Media
  BY <1>3 DEF Iso, Label, Media
<1>5. m.tree[cfgPath] = "cfg"
  BY <1>1, <1>2 DEF Tree
<1>6. \A d \in Dests : d # cfgPath => m.tree[d] = RootFs(fi)[d]
  BY <1>1, <1>2 DEF Tree
<1>. QED BY <1>4, <1>5, <1>6 DEF Iso, IsoShape

\* The label: "config-2" exactly when the tree holds injected metadata.
LEMMA IsoLabel ==
  ASSUME NEW fi \in Seq(Sources \X Dests), NEW boot \in {"bios", "uefi"},
         NEW bootimg \in Dests, NEW cfgPath \in Dests,
         NEW pub \in {"set", "None", "omitted"},
         cfgPath \notin MetadataDests,
         \A j \in 1..Len(fi) :
           fi[j][2] \in MetadataDests => fi[j][1] \in {"inj1", "inj2"}
  PROVE  IsoLabelled(fi, boot, bootimg, cfgPath, pub)
<1> DEFINE m == Iso(fi, boot, bootimg, cfgPath, pub)
<1>1. RootFs(fi) \in Tree
  BY RootFsType
<1>2. m.tree = [RootFs(fi) EXCEPT ![cfgPath] = "cfg"]
  BY DEF Iso, BuildTree
<1>3. MetadataDests \subseteq Dests
  BY DEF Dests
<1>4. \A d \in MetadataDests : m.tree[d] = RootFs(fi)[d]
  BY <1>1, <1>2, <1>3 DEF Tree
<1>5. m.label = Label(fi)
  BY DEF Iso
<1>6. CASE \E i \in 1..Len(fi) : fi[i][2] \in MetadataDests
  <2>1. PICK i \in 1..Len(fi) : fi[i][2] \in MetadataDests
    BY <1>6
  <2> DEFINE d == fi[i][2]
  <2>2. \A j \in 1..Len(fi) : fi[j][2] = d => fi[j][1] \in {"inj1", "inj2"}
    BY <2>1
  <2>3. d \in Dests /\ \E j \in 1..Len(fi) : fi[j][2] = d
    BY <2>1, <1>3
  <2>4. RootFs(fi)[d] \in {"inj1", "inj2"}
    BY <2>2, <2>3, RootFsFrom
  <2>5. m.tree[d] \in {"inj1", "inj2"}
    BY <2>1, <2>4, <1>4
  <2>. QED BY <1>6, <1>5, <2>1, <2>5 DEF Label, IsoLabelled
<1>7. CASE ~\E i \in 1..Len(fi) : fi[i][2] \in MetadataDests
  <2>1. ASSUME NEW d \in MetadataDests PROVE m.tree[d] \notin {"inj1", "inj2"}
    <3>1. RootFs(fi)[d] = Absent
      BY <1>7, <1>3, RootFsNone
    <3>. QED BY <3>1, <1>4, BootAssumption DEF Sources
  <2>. QED BY <1>7, <1>5, <2>1 DEF Label, IsoLabelled
<1>. QED BY <1>6, <1>7 DEF IsoLabelled

\* The layout IsoLayout asks of an ISO a builder returned.
GoodIso(m) ==
  /\ m \in Media
  /\ m.tree[m.cfg] = "cfg"
  /\ m.tree[m.bootimg] \in
       IF m.boot = "bios" THEN {"isolinux_bin"} ELSE {"esp", "donor_efiboot"}
  /\ (m.label = "config-2") <=>
       \E d \in MetadataDests : m.tree[d] \in {"inj1", "inj2"}

(***************************************************************************)
(* create_isolinux_image_for_bios: its ISO is media, and it boots        *)
(* isolinux.bin unless an injected file goes to isolinux/isolinux.bin:   *)
(* inject_files are copied after the boot loader and would replace it.   *)
(***************************************************************************)
LEMMA BiosIso ==
  ASSUME NEW inject \in Injects, NEW pubs \in {"set", "None", "omitted"}
  PROVE  LET fi == <<Pair("kernel", VMLINUZ), Pair("ramdisk", INITRD),
                     Pair("isolinux_bin", ISOLINUX_BIN)>> \o inject
                   \o (IF Ldlinux THEN <<Pair("ldlinux", LDLINUX_BIN)>> ELSE <<>>)
             m == Iso(fi, "bios", ISOLINUX_BIN, ISOLINUX_CFG, pubs)
         IN  /\ m \in Media
             /\ ISOLINUX_BIN \notin InjectDests => GoodIso(m)
<1> DEFINE H == <<Pair("kernel", VMLINUZ), Pair("ramdisk", INITRD),
                  Pair("isolinux_bin", ISOLINUX_BIN)>>
           L == IF Ldlinux THEN <<Pair("ldlinux", LDLINUX_BIN)>> ELSE <<>>
           HI == H \o inject
           fi == HI \o L
           m == Iso(fi, "bios", ISOLINUX_BIN, ISOLINUX_CFG, pubs)
           E == {Pair("kernel", VMLINUZ), Pair("ramdisk", INITRD),
                 Pair("isolinux_bin", ISOLINUX_BIN), Pair("ldlinux", LDLINUX_BIN)}
                \cup ({"inj1", "inj2"} \X InjectDests)
           P == Sources \X Dests
<1>1. E \subseteq P
  BY DEF Pair, Sources, Dests
<1>2. H \in Seq(E) /\ Len(H) = 3 /\ H[3] = Pair("isolinux_bin", ISOLINUX_BIN)
  BY DEF Pair
<1>3. inject \in Seq(E)
  BY BootAssumption, SeqMonotonic
<1>4. L \in Seq(E)
  BY DEF Pair
<1>5. HI \in Seq(E) /\ Len(HI) = 3 + Len(inject) /\ HI[3] = H[3]
  BY <1>2, <1>3, ConcatProperties
<1>6. fi \in Seq(E) /\ 3 <= Len(fi) /\ fi[3] = HI[3]
  BY <1>4, <1>5, ConcatProperties
<1>7. fi \in Seq(Sources \X Dests)
  BY <1>1, <1>6, SeqMonotonic
<1>8. \A j \in 1..Len(fi) : fi[j] \in E
  BY <1>6, ElementOfSeq
<1>9. ISOLINUX_BIN \in Dests /\ ISOLINUX_CFG \in Dests
      /\ ISOLINUX_BIN # ISOLINUX_CFG /\ ISOLINUX_CFG \notin MetadataDests
  BY DEF Dests, ISOLINUX_BIN, ISOLINUX_CFG, MetadataDests
<1> HIDE DEF fi
<1>10. /\ m \in Media
       /\ m.boot = "bios" /\ m.bootimg = ISOLINUX_BIN /\ m.cfg = ISOLINUX_CFG
       /\ m.tree[ISOLINUX_CFG] = "cfg"
       /\ m.tree[ISOLINUX_BIN] = RootFs(fi)[ISOLINUX_BIN]
  <2>1. IsoShape(fi, "bios", ISOLINUX_BIN, ISOLINUX_CFG, pubs)
    BY <1>7, <1>9, IsoFacts
  <2>. QED BY <1>9, <2>1 DEF IsoShape
<1>11. (m.label = "config-2") <=>
         \E d \in MetadataDests : m.tree[d] \in {"inj1", "inj2"}
  <2>1. \A j \in 1..Len(fi) :
          fi[j][2] \in MetadataDests => fi[j][1] \in {"inj1", "inj2"}
    BY <1>8 DEF Pair, VMLINUZ, INITRD, ISOLINUX_BIN, ISOLINUX_CFG, LDLINUX_BIN, MetadataDests
  <2>2. IsoLabelled(fi, "bios", ISOLINUX_BIN, ISOLINUX_CFG, pubs)
    BY <1>7, <1>9, <2>1, IsoLabel
  <2>. QED BY <2>2 DEF IsoLabelled
<1>12. ASSUME ISOLINUX_BIN \notin InjectDests PROVE GoodIso(m)
  <2>1. \A j \in 1..Len(fi) : fi[j][2] = ISOLINUX_BIN => fi[j][1] \in {"isolinux_bin"}
    BY <1>8, <1>12 DEF Pair, VMLINUZ, INITRD, ISOLINUX_BIN, ISOLINUX_CFG, LDLINUX_BIN, MetadataDests
  <2>2. \E j \in 1..Len(fi) : fi[j][2] = ISOLINUX_BIN
    BY <1>2, <1>5, <1>6 DEF Pair
  <2>3. RootFs(fi)[ISOLINUX_BIN] \in {"isolinux_bin"}
    BY <2>1, <2>2, <1>7, <1>9, RootFsFrom
  <2>4. m.tree[m.bootimg] \in
          IF m.boot = "bios" THEN {"isolinux_bin"} ELSE {"esp", "donor_efiboot"}
    BY <1>10, <2>3
  <2>6. m.tree[m.cfg] = "cfg"
    BY <1>10
  <2>. QED BY <1>10, <1>11, <2>4, <2>6 DEF GoodIso
<1> USE DEF fi
<1>. QED BY <1>10, <1>12

(***************************************************************************)
(* create_esp_image_for_uefi: the EFI image and the grub config entries  *)
(* (from the donor ISO, or the ESP image and /dev/null) come after the   *)
(* injected files, so whatever is injected the ISO boots the EFI image   *)
(* when that and the config path differ and neither is metadata.         *)
(***************************************************************************)
LEMMA UefiIso ==
  ASSUME NEW inject \in Injects, NEW pubs \in {"set", "None", "omitted"},
         NEW src \in {"esp", "donor_efiboot"}, NEW src2 \in Sources,
         NEW eRel \in Dests, NEW grubRel \in Dests,
         eRel # grubRel, eRel \notin MetadataDests, grubRel \notin MetadataDests
  PROVE  LET fi == <<Pair("kernel", VMLINUZ), Pair("ramdisk", INITRD)>> \o inject
                   \o <<Pair(src, eRel), Pair(src2, grubRel)>>
         IN  GoodIso(Iso(fi, "uefi", eRel, grubRel, pubs))
<1> DEFINE B == <<Pair("kernel", VMLINUZ), Pair("ramdisk", INITRD)>>
           U == <<Pair(src, eRel), Pair(src2, grubRel)>>
           base == B \o inject
           fi == base \o U
           m == Iso(fi, "uefi", eRel, grubRel, pubs)
           E == {Pair("kernel", VMLINUZ), Pair("ramdisk", INITRD),
                 Pair(src, eRel), Pair(src2, grubRel)}
                \cup ({"inj1", "inj2"} \X InjectDests)
           P == Sources \X Dests
           k == Len(base) + 1
<1>1. E \subseteq P
  BY DEF Pair, Sources, Dests
<1>2. B \in Seq(E) /\ U \in Seq(E) /\ Len(U) = 2
  BY DEF Pair
<1>3. inject \in Seq(E)
  BY BootAssumption, SeqMonotonic
<1>4. base \in Seq(E) /\ Len(base) \in Nat
  BY <1>2, <1>3, ConcatProperties
<1>5. /\ fi \in Seq(E) /\ Len(fi) = Len(base) + 2
      /\ fi[k] = Pair(src, eRel) /\ fi[k + 1] = Pair(src2, grubRel)
  BY <1>2, <1>4, ConcatProperties DEF Pair
<1>6. fi \in Seq(Sources \X Dests)
  BY <1>1, <1>5, SeqMonotonic
<1>7. \A j \in 1..Len(fi) : fi[j] \in E
  BY <1>5, ElementOfSeq
<1>8. \A j \in 1..Len(fi) :
        fi[j][2] \in MetadataDests => fi[j][1] \in {"inj1", "inj2"}
  BY <1>7 DEF Pair, VMLINUZ, INITRD, MetadataDests
<1>9. k \in 1..Len(fi) /\ fi[k][2] = eRel /\ fi[k][1] = src
      /\ \A j \in 1..Len(fi) : j > k => fi[j][2] # eRel
  BY <1>4, <1>5 DEF Pair
<1>10. eRel \in Dests /\ grubRel \in Dests /\ eRel # grubRel
       /\ "uefi" \in {"bios", "uefi"} /\ pubs \in {"set", "None", "omitted"}
  OBVIOUS
<1> HIDE DEF fi, m
<1>15. RootFs(fi)[eRel] = src
  BY <1>6, <1>9, RootFsLast
<1>11. /\ m \in Media
       /\ m.boot = "uefi" /\ m.bootimg = eRel /\ m.cfg = grubRel
       /\ m.tree[grubRel] = "cfg"
       /\ m.tree[eRel] = RootFs(fi)[eRel]
       /\ (m.label = "config-2") <=>
            \E d \in MetadataDests : m.tree[d] \in {"inj1", "inj2"}
  <2>1. IsoShape(fi, "uefi", eRel, grubRel, pubs)
    BY <1>6, <1>10, IsoFacts
  <2>2. grubRel \notin MetadataDests
    OBVIOUS
  <2>3. IsoLabelled(fi, "uefi", eRel, grubRel, pubs)
    BY <1>6, <1>8, <1>10, <2>2, IsoLabel
  <2>. QED BY <1>10, <2>1, <2>3 DEF m, IsoShape, IsoLabelled
<1>12. m.tree[m.bootimg] \in
         IF m.boot = "bios" THEN {"isolinux_bin"} ELSE {"esp", "donor_efiboot"}
  BY <1>15, <1>11
<1>13. (m.label = "config-2") <=>
         \E d \in MetadataDests : m.tree[d] \in {"inj1", "inj2"}
  BY <1>11
<1>14. GoodIso(m)
  BY <1>11, <1>12, <1>13 DEF GoodIso
<1> USE DEF fi, m
<1>. QED BY <1>14
-----------------------------------------------------------------------------
(***************************************************************************)
(* The outcomes of each call: what it leaves at the output path is an    *)
(* output, it returns or raises one of the errors, and when it returns   *)
(* an ISO that ISO has the layout above.                                 *)
(***************************************************************************)
ResultTyped(r) == r.out \in Outputs /\ r.ok \in BOOLEAN /\ r.err \in Errors

LEMMA IsoFailuresFacts ==
  ASSUME NEW o \in Outputs
  PROVE  \A r \in IsoFailures(o) : ResultTyped(r) /\ r.ok = FALSE
<1>1. \A r \in IsoFailures(o) : r.ok = FALSE
  BY DEF IsoFailures, Outcome
<1>2. \A r \in IsoFailures(o) : r.err \in Errors
  BY DEF IsoFailures, Outcome, Errors
<1>3. \A r \in IsoFailures(o) : r.out \in {o, Partial}
  BY DEF IsoFailures, Outcome
<1>4. Partial \in Outputs
  BY DEF Outputs
<1>. QED BY <1>1, <1>2, <1>3, <1>4 DEF ResultTyped

LEMMA FailedOutcome ==
  ASSUME NEW o \in Outputs
  PROVE  /\ ResultTyped(Outcome(o, FALSE, "creation_failed"))
         /\ Outcome(o, FALSE, "creation_failed").ok = FALSE
BY DEF Outcome, ResultTyped, Errors

LEMMA ReturnedOutcome ==
  ASSUME NEW m \in Media
  PROVE  /\ ResultTyped(Outcome(m, TRUE, "none"))
         /\ Outcome(m, TRUE, "none").ok = TRUE
         /\ Outcome(m, TRUE, "none").out = m
<1>1. m \in Outputs
  BY DEF Outputs
<1>. QED BY <1>1 DEF Outcome, ResultTyped, Errors

LEMMA BiosResultsFacts ==
  ASSUME NEW o \in Outputs, NEW inject \in Injects, NEW pub \in BOOLEAN
  PROVE  \A r \in BiosResults(o, inject, pub) :
           /\ ResultTyped(r)
           /\ r.ok /\ ISOLINUX_BIN \notin InjectDests => GoodIso(r.out)
<1> DEFINE fi == <<Pair("kernel", VMLINUZ), Pair("ramdisk", INITRD),
                   Pair("isolinux_bin", ISOLINUX_BIN)>> \o inject
                 \o (IF Ldlinux THEN <<Pair("ldlinux", LDLINUX_BIN)>> ELSE <<>>)
           pubs == IF pub THEN "set" ELSE "None"
           m == Iso(fi, "bios", ISOLINUX_BIN, ISOLINUX_CFG, pubs)
<1>1. pubs \in {"set", "None", "omitted"}
  OBVIOUS
<1>2. m \in Media /\ (ISOLINUX_BIN \notin InjectDests => GoodIso(m))
  BY <1>1, BiosIso
<1>3. BiosResults(o, inject, pub) = IsoFailures(o) \cup {Outcome(m, TRUE, "none")}
  BY DEF BiosResults
<1> HIDE DEF m
<1>4. ASSUME NEW r \in BiosResults(o, inject, pub)
      PROVE  /\ ResultTyped(r)
             /\ r.ok /\ ISOLINUX_BIN \notin InjectDests => GoodIso(r.out)
  <2>1. CASE r \in IsoFailures(o)
    <3>1. ResultTyped(r) /\ r.ok = FALSE
      BY <2>1, IsoFailuresFacts
    <3>. QED BY <3>1
  <2>2. CASE r = Outcome(m, TRUE, "none")
    BY <2>2, <1>2, ReturnedOutcome
  <2>. QED BY <1>3, <2>1, <2>2
<1>. QED BY <1>4

LEMMA UefiResultsFacts ==
  ASSUME NEW o \in Outputs, NEW inject \in Injects,
         NEW deploy \in BOOLEAN, NEW esp \in BOOLEAN, NEW pub \in BOOLEAN
  PROVE  \A r \in UefiResults(o, deploy, esp, inject, pub) :
           ResultTyped(r) /\ (r.ok => GoodIso(r.out))
<1> DEFINE base == <<Pair("kernel", VMLINUZ), Pair("ramdisk", INITRD)>> \o inject
           pubs == IF pub THEN "set" ELSE "omitted"
           Built(upi, eRel, grubRel) ==
             IsoFailures(o) \cup
               {Outcome(Iso(base \o upi, "uefi", eRel, grubRel, pubs), TRUE, "none")}
           Good(R) == \A r \in R : ResultTyped(r) /\ (r.ok => GoodIso(r.out))
<1>1. pubs \in {"set", "None", "omitted"}
  OBVIOUS
<1>2. \A r \in IsoFailures(o) : ResultTyped(r) /\ r.ok = FALSE
  BY IsoFailuresFacts
<1>3. Good({Outcome(o, FALSE, "creation_failed")})
  <2>1. ResultTyped(Outcome(o, FALSE, "creation_failed"))
        /\ Outcome(o, FALSE, "creation_failed").ok = FALSE
    BY FailedOutcome
  <2>. QED BY <2>1
<1>4. ASSUME NEW src \in {"esp", "donor_efiboot"}, NEW src2 \in Sources,
             NEW eRel \in Dests, NEW grubRel \in Dests,
             eRel # grubRel, eRel \notin MetadataDests, grubRel \notin MetadataDests
      PROVE  Good(Built(<<Pair(src, eRel), Pair(src2, grubRel)>>, eRel, grubRel))
  <2> DEFINE m == Iso(base \o <<Pair(src, eRel), Pair(src2, grubRel)>>,
                      "uefi", eRel, grubRel, pubs)
  <2>1. GoodIso(m)
    BY <1>1, <1>4, UefiIso
  <2>2. m \in Media
    BY <2>1 DEF GoodIso
  <2> HIDE DEF m
  <2>3. ASSUME NEW r \in Built(<<Pair(src, eRel), Pair(src2, grubRel)>>, eRel, grubRel)
        PROVE  ResultTyped(r) /\ (r.ok => GoodIso(r.out))
    <3>1. CASE r \in IsoFailures(o)
      <4>1. ResultTyped(r) /\ r.ok = FALSE
        BY <3>1, <1>2
      <4>. QED BY <4>1
    <3>2. CASE r = Outcome(m, TRUE, "none")
      BY <3>2, <2>1, <2>2, ReturnedOutcome
    <3>. QED BY <3>1, <3>2 DEF m
  <2>. QED BY <2>3
<1>5. CASE UsesDonor(deploy, esp)
  <2>1. ASSUME NEW l \in DonorLayouts
        PROVE  Good(IF DeployIsoFiles(l) = <<>>
                    THEN {Outcome(o, FALSE, "creation_failed")}
                    ELSE Built(DeployIsoFiles(l), l.efi, l.grub))
    <3>1. CASE DeployIsoFiles(l) = <<>>
      BY <3>1, <1>3
    <3>2. CASE DeployIsoFiles(l) # <<>>
      <4>1. l.efi # NoPath /\ l.grub # NoPath
        BY <3>2 DEF DeployIsoFiles
      <4>2. l.efi \in Dests /\ l.grub \in Dests
        BY <4>1 DEF Dests, DonorDests
      <4>3. l.efi # l.grub /\ l.efi \notin MetadataDests /\ l.grub \notin MetadataDests
        BY <4>1, BootAssumption
      <4>4. DeployIsoFiles(l)
               = <<Pair("donor_efiboot", l.efi), Pair("donor_grub", l.grub)>>
        BY <4>1 DEF DeployIsoFiles
      <4>5. "donor_grub" \in Sources
        BY DEF Sources
      <4>6. Good(Built(<<Pair("donor_efiboot", l.efi), Pair("donor_grub", l.grub)>>,
                        l.efi, l.grub))
        BY <4>2, <4>3, <4>5, <1>4
      <4>. QED BY <3>2, <4>4, <4>6
    <3>. QED BY <3>1, <3>2
  <2>2. UefiResults(o, deploy, esp, inject, pub)
          = {Outcome(o, FALSE, "creation_failed")}
            \cup UNION {IF DeployIsoFiles(l) = <<>>
                        THEN {Outcome(o, FALSE, "creation_failed")}
                        ELSE Built(DeployIsoFiles(l), l.efi, l.grub)
                        : l \in DonorLayouts}
    BY <1>5 DEF UefiResults
  <2> HIDE DEF Built
  <2>. QED BY <1>3, <2>1, <2>2
<1>6. CASE ~UsesDonor(deploy, esp) /\ esp /\ ~deploy
  <2>1. UefiResults(o, deploy, esp, inject, pub)
          = Built(<<Pair("esp", EFIBOOT_LOCATION), Pair("devnull", GRUB_CONFIG_PATH)>>,
                  EFIBOOT_LOCATION, GRUB_CONFIG_PATH)
    BY <1>6 DEF UefiResults
  <2>2. /\ EFIBOOT_LOCATION \in Dests /\ GRUB_CONFIG_PATH \in Dests
        /\ EFIBOOT_LOCATION # GRUB_CONFIG_PATH
        /\ EFIBOOT_LOCATION \notin MetadataDests
        /\ GRUB_CONFIG_PATH \notin MetadataDests
        /\ "devnull" \in Sources
    BY DEF Dests, EFIBOOT_LOCATION, GRUB_CONFIG_PATH, MetadataDests, Sources
  <2> HIDE DEF Built
  <2>. QED BY <1>4, <2>1, <2>2
<1>7. CASE ~UsesDonor(deploy, esp) /\ ~(esp /\ ~deploy)
  BY <1>3, <1>7 DEF UefiResults
<1>. QED BY <1>5, <1>6, <1>7
-----------------------------------------------------------------------------
(***************************************************************************)
(* A step records the outcome of one call: the output file it left and   *)
(* how it returned. Typed outcomes keep TypeOK, and an ISO call whose    *)
(* returned ISO has the layout keeps IsoLayout.                          *)
(***************************************************************************)
LEMMA ApplyFacts ==
  ASSUME NEW op \in Ops, NEW r, ResultTyped(r), NEW espArg \in EspArgs,
         Apply(op, r, espArg)
  PROVE  /\ TypeOK'
         /\ (op \in IsoOps /\ r.ok => GoodIso(r.out)) => IsoLayout'
<1>1. out' = r.out /\ last' = [op |-> op, ok |-> r.ok, err |-> r.err, esp |-> espArg]
  BY DEF Apply
<1>2. TypeOK'
  BY <1>1 DEF TypeOK, ResultTyped
<1>3. ASSUME op \in IsoOps /\ r.ok => GoodIso(r.out) PROVE IsoLayout'
  <2>1. last'.op = op /\ last'.ok = r.ok
    BY <1>1
  <2>. QED BY <1>1, <1>3, <2>1 DEF IsoLayout, GoodIso
<1>. QED BY <1>2, <1>3

LEMMA EspArgType ==
  ASSUME NEW deploy \in BOOLEAN, NEW esp \in BOOLEAN
  PROVE  EspArg(deploy, esp) \in EspArgs
BY DEF EspArg, EspArgs

\* A direct call of create_isolinux_image_for_bios.
LEMMA BiosStep ==
  ASSUME TypeOK, CreateIsolinuxImageForBios
  PROVE  TypeOK' /\ (ISOLINUX_BIN \notin InjectDests => IsoLayout')
<1>1. PICK inject \in Injects, pub \in BOOLEAN :
         \E r \in BiosResults(out, inject, pub) : Apply("bios_iso", r, "na")
  BY DEF CreateIsolinuxImageForBios
<1>2. PICK r \in BiosResults(out, inject, pub) : Apply("bios_iso", r, "na")
  BY <1>1
<1>3. ResultTyped(r) /\ (r.ok /\ ISOLINUX_BIN \notin InjectDests => GoodIso(r.out))
  BY <1>2, BiosResultsFacts DEF TypeOK
<1>4. "bios_iso" \in Ops /\ "bios_iso" \in IsoOps /\ "na" \in EspArgs
  BY DEF Ops, IsoOps, EspArgs
<1>. QED BY <1>2, <1>3, <1>4, ApplyFacts

\* A direct call of create_esp_image_for_uefi.
LEMMA UefiStep ==
  ASSUME TypeOK, CreateEspImageForUefi
  PROVE  TypeOK' /\ IsoLayout'
<1>1. PICK inject \in Injects, pub \in BOOLEAN, deploy \in BOOLEAN, esp \in BOOLEAN :
         \E r \in UefiResults(out, deploy, esp, inject, pub) :
           Apply("uefi_iso", r, EspArg(deploy, esp))
  BY DEF CreateEspImageForUefi
<1>2. PICK r \in UefiResults(out, deploy, esp, inject, pub) :
         Apply("uefi_iso", r, EspArg(deploy, esp))
  BY <1>1
<1>3. ResultTyped(r) /\ (r.ok => GoodIso(r.out))
  BY <1>2, UefiResultsFacts DEF TypeOK
<1>4. "uefi_iso" \in Ops /\ EspArg(deploy, esp) \in EspArgs
  BY EspArgType DEF Ops
<1>. QED BY <1>2, <1>3, <1>4, ApplyFacts

\* create_boot_iso: a failed fetch, or the outcome of the builder it calls.
LEMMA BootIsoStep ==
  ASSUME TypeOK, CreateBootIso
  PROVE  TypeOK' /\ (ISOLINUX_BIN \notin InjectDests => IsoLayout')
<1>1. PICK inject \in Injects, pub \in BOOLEAN, uefi \in BOOLEAN,
           deployHref \in BOOLEAN, espHref \in BOOLEAN :
         LET deploy == uefi /\ deployHref
             esp == uefi /\ ~deployHref /\ (espHref \/ ConfEspImage)
         IN \E r \in {Outcome(out, FALSE, "fetch")}
                     \cup (IF uefi THEN UefiResults(out, deploy, esp, inject, pub)
                           ELSE BiosResults(out, inject, pub)) :
              Apply("boot_iso", r, IF uefi THEN EspArg(deploy, esp) ELSE "na")
  BY DEF CreateBootIso
<1> DEFINE deploy == uefi /\ deployHref
           esp == uefi /\ ~deployHref /\ (espHref \/ ConfEspImage)
           espArg == IF uefi THEN EspArg(deploy, esp) ELSE "na"
<1>2. PICK r \in {Outcome(out, FALSE, "fetch")}
                 \cup (IF uefi THEN UefiResults(out, deploy, esp, inject, pub)
                       ELSE BiosResults(out, inject, pub)) :
         Apply("boot_iso", r, espArg)
  BY <1>1
<1>3. deploy \in BOOLEAN /\ esp \in BOOLEAN
  BY BootAssumption
<1>4. "boot_iso" \in Ops /\ "boot_iso" \in IsoOps /\ espArg \in EspArgs
  BY <1>3, EspArgType DEF Ops, IsoOps, EspArgs
<1>5. ResultTyped(r) /\ (r.ok /\ ISOLINUX_BIN \notin InjectDests => GoodIso(r.out))
  <2>1. CASE r = Outcome(out, FALSE, "fetch")
    BY <2>1 DEF Outcome, ResultTyped, TypeOK, Errors
  <2>2. CASE r \in UefiResults(out, deploy, esp, inject, pub) /\ uefi
    BY <2>2, <1>3, UefiResultsFacts DEF TypeOK
  <2>3. CASE r \in BiosResults(out, inject, pub) /\ ~uefi
    BY <2>3, BiosResultsFacts DEF TypeOK
  <2>. QED BY <1>2, <2>1, <2>2, <2>3
<1>. QED BY <1>2, <1>4, <1>5, ApplyFacts
\* create_vfat_image: a blank, a partial or the old output, or the image.
LEMMA VfatStep ==
  ASSUME TypeOK, CreateVfatImage
  PROVE  TypeOK' /\ IsoLayout'
<1>1. PICK fi \in VfatFiles, params \in BOOLEAN :
         LET tree == IF params THEN [RootFs(fi) EXCEPT ![PARAMETERS_FILE] = "params"]
                     ELSE RootFs(fi)
             vfat == [kind |-> "vfat", tree |-> tree, label |-> "ir-vfd-dev",
                      boot |-> "none", bootimg |-> NoPath, cfg |-> NoPath,
                      publisher |-> "omitted"]
             blank == fi = <<>> /\ ~params
         IN \E r \in {Outcome(p, FALSE, "creation_failed") : p \in {out, Partial}}
                     \cup {Outcome(Zeroed, FALSE, "creation_failed"),
                           Outcome(vfat, TRUE, "none")}
                     \cup (IF blank THEN {}
                           ELSE {Outcome(Partial, FALSE, "creation_failed")}) :
              Apply("vfat", r, "na")
  BY DEF CreateVfatImage
<1> DEFINE tree == IF params THEN [RootFs(fi) EXCEPT ![PARAMETERS_FILE] = "params"]
                   ELSE RootFs(fi)
           vfat == [kind |-> "vfat", tree |-> tree, label |-> "ir-vfd-dev",
                    boot |-> "none", bootimg |-> NoPath, cfg |-> NoPath,
                    publisher |-> "omitted"]
           blank == fi = <<>> /\ ~params
<1>2. PICK r \in {Outcome(p, FALSE, "creation_failed") : p \in {out, Partial}}
                 \cup {Outcome(Zeroed, FALSE, "creation_failed"),
                       Outcome(vfat, TRUE, "none")}
                 \cup (IF blank THEN {}
                       ELSE {Outcome(Partial, FALSE, "creation_failed")}) :
         Apply("vfat", r, "na")
  BY <1>1
<1>3. RootFs(fi) \in Tree
  BY BootAssumption, RootFsType
<1>4. tree \in Tree
  BY <1>3 DEF Tree, Dests, PARAMETERS_FILE, Sources
<1>5. vfat \in Media
  BY <1>4 DEF Media
<1>6. {out, Partial, Zeroed} \subseteq Outputs
  BY DEF TypeOK, Outputs
<1>7. ResultTyped(r)
  <2>1. CASE r = Outcome(vfat, TRUE, "none")
    BY <2>1, <1>5, ReturnedOutcome
  <2>2. CASE r # Outcome(vfat, TRUE, "none")
    <3>1. PICK p \in {out, Partial, Zeroed} : r = Outcome(p, FALSE, "creation_failed")
      BY <1>2, <2>2
    <3>. QED BY <3>1, <1>6, FailedOutcome
  <2>. QED BY <2>1, <2>2
<1>8. "vfat" \in Ops /\ "vfat" \notin IsoOps /\ "na" \in EspArgs
  BY DEF Ops, IsoOps, EspArgs
<1>. QED BY <1>2, <1>7, <1>8, ApplyFacts

-----------------------------------------------------------------------------
(***************************************************************************)
(* Every call leaves an output file of the right kind (nothing, a half-  *)
(* written file, a blank image, or well-formed media) and returns or     *)
(* raises one of the errors the code can raise.                          *)
(***************************************************************************)
THEOREM BootTypeCorrect == Spec => []TypeOK
<1>1. Init => TypeOK
  BY DEF Init, TypeOK, Outputs, Ops, Errors, EspArgs
<1>2. TypeOK /\ [Next]_vars => TypeOK'
  <2> SUFFICES ASSUME TypeOK, [Next]_vars PROVE TypeOK'
    OBVIOUS
  <2>1. CASE CreateBootIso
    BY <2>1, BootIsoStep
  <2>2. CASE CreateIsolinuxImageForBios
    BY <2>2, BiosStep
  <2>3. CASE CreateEspImageForUefi
    BY <2>3, UefiStep
  <2>4. CASE CreateVfatImage
    BY <2>4, VfatStep
  <2>5. CASE UNCHANGED vars
    BY <2>5 DEF vars, TypeOK
  <2>. QED BY <2>1, <2>2, <2>3, <2>4, <2>5 DEF Next
<1>. QED BY <1>1, <1>2, PTL DEF Spec

(***************************************************************************)
(* IsoLayout for every instance: whatever files callers inject, an ISO a *)
(* builder returns has its generated config at the loader's config path, *)
(* the boot loader at its El Torito boot image path and the "config-2"   *)
(* label exactly when it carries metadata, provided no injected file     *)
(* goes to isolinux/isolinux.bin. create_isolinux_image_for_bios copies  *)
(* inject_files after isolinux.bin, so such a file would replace the     *)
(* BIOS boot loader; the UEFI entries come after the injected files and  *)
(* need no such proviso.                                                 *)
(***************************************************************************)
THEOREM IsoLayoutProved ==
  ASSUME ISOLINUX_BIN \notin InjectDests
  PROVE  Spec => []IsoLayout
<1> DEFINE IInv == TypeOK /\ IsoLayout
<1>1. Init => IInv
  <2>1. Init => TypeOK
    BY DEF Init, TypeOK, Outputs, Ops, Errors, EspArgs
  <2>2. Init => IsoLayout
    BY DEF Init, IsoLayout, IsoOps
  <2>. QED BY <2>1, <2>2
<1>2. IInv /\ [Next]_vars => IInv'
  <2> SUFFICES ASSUME IInv, [Next]_vars PROVE IInv'
    OBVIOUS
  <2>1. CASE CreateBootIso
    BY <2>1, BootIsoStep
  <2>2. CASE CreateIsolinuxImageForBios
    BY <2>2, BiosStep
  <2>3. CASE CreateEspImageForUefi
    BY <2>3, UefiStep
  <2>4. CASE CreateVfatImage
    BY <2>4, VfatStep
  <2>5. CASE UNCHANGED vars
    BY <2>5 DEF vars, TypeOK, IsoLayout
  <2>. QED BY <2>1, <2>2, <2>3, <2>4, <2>5 DEF Next
<1>. QED BY <1>1, <1>2, PTL DEF Spec
====
