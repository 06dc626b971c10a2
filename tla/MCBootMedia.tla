---------------------------- MODULE MCBootMedia ----------------------------
(* A small instance of BootMedia for TLC.                                  *)
EXTENDS BootMedia

\* Callers inject metadata, or files at the paths the builders own.
MCInjectDests == {"openstack/latest/meta_data.json", ISOLINUX_CFG,
                  GRUB_CONFIG_PATH, EFIBOOT_LOCATION, "EFI/BOOT/grub.cfg"}
MCInjects ==
  {<<>>,
   <<<<"inj1", "openstack/latest/meta_data.json">>>>,
   <<<<"inj1", ISOLINUX_CFG>>, <<"inj2", EFIBOOT_LOCATION>>>>,
   <<<<"inj1", GRUB_CONFIG_PATH>>, <<"inj2", "EFI/BOOT/grub.cfg">>>>}

\* A donor with both assets (efiboot.img where an ESP would go), and one
\* without a grub.cfg.
MCDonorLayouts ==
  {[efi |-> EFIBOOT_LOCATION, grub |-> "EFI/BOOT/grub.cfg"],
   [efi |-> "images/efiboot.img", grub |-> NoPath]}

MCVfatFiles == {<<>>, <<<<"inj1", PARAMETERS_FILE>>>>}
=============================================================================
