\* Directories with and without a dot in their names, one of them in another,
\* links beside and above a mount point, two mount points for the one device, two
\* open files; five commands.
SPECIFICATION Spec
CONSTANTS
  NBlocks = 8 NInodes = 8 ByteBits = 2 DirAmut = 5 BlkSize = 2
  MaxDirSize = 40 NIndBlocks = 2
  MaxVinode = 22 MaxFile = 2
  Hello = "hello.cpp" Label = "ramdisk0.txt" Text <- MCText
  Dotted = {"hello.cpp", "ramdisk0.txt", "b.c"}
  DirPaths <- MCDirs
  LinkPaths <- MCLinks
  MountPaths <- MCMounts
  Texts <- MCTexts
  MaxOps = 5
INVARIANTS
  TypeOK
  BitmapsExact
  LinkRings
  TableIsTree
  TreeIsDisk
  OpenFilesStay
  FilesKeepText
  MountExclusive
\* A fault or the bound on commands ends a behaviour.
CHECK_DEADLOCK FALSE
