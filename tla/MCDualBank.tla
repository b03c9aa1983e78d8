----------------------------- MODULE MCDualBank -----------------------------
\* Values of PartOrder for the runs of DualBank.
EXTENDS DualBank

PartsKernelRootfs == <<"kernel", "rootfs">>
PartsNoBootcore == <<"kernel", "rootfs", "firmware">>
=============================================================================
