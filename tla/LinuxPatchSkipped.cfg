SPECIFICATION Spec
CONSTANTS
  NPatch = 2
  BadPatches = {2}
  Tarball = FALSE
  Initramfs = FALSE
  Goals = {"linux26", "linux26-menuconfig", "world"}
  FailIn = {"configured", "compiled", "installed", "rootfs.initramfs", "initramfs_rebuilt"}
  MaxEdits = 2
  MaxTarget = 2
  MaxStops = 0
INVARIANTS PatchesInstalled
