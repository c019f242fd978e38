---------------------------- MODULE MCKernelBoot ----------------------------
(***************************************************************************)
(* Four kernels for TLC: a good one with two segments to load (one ends in *)
(* memory that is not in the file) around a header that is not loaded, one *)
(* with no right magic byte, one of which another field of the header is   *)
(* wrong, and one with a single wrong magic byte whose second segment does *)
(* not start on a page.  Four outputs: the largest mode is the last or the *)
(* first, there is none, and OVMF's.  Three device paths: an empty one,    *)
(* one whose data looks like an end node, and one of two instances.        *)
(***************************************************************************)
EXTENDS KernelBoot

MCHeader(magic, supported, second) ==
    [magic |-> magic, supported |-> supported, entry |-> 201, phoff |-> 1,
     phdrs |-> << [load |-> TRUE,  vaddr |-> 200, offset |-> 0, filesz |-> 2,
                   memsz |-> 2, flags |-> {"X"}],
                  [load |-> FALSE, vaddr |-> 0,   offset |-> 0, filesz |-> 1,
                   memsz |-> 1, flags |-> {}],
                  [load |-> TRUE,  vaddr |-> second, offset |-> 2, filesz |-> 3,
                   memsz |-> 5, flags |-> {"W"}] >>]

MCKernels ==
    {[header |-> h, bytes |-> <<11, 12, 13, 14, 15>>] :
        h \in {MCHeader(Magic, TRUE, 204), MCHeader(Magic, FALSE, 204),
               MCHeader(<<1, 2, 3, 4>>, TRUE, 204),
               MCHeader(<<127, 69, 76, 71>>, TRUE, 205)}}

MCImageFrames == {1, 2}
MCDevicePaths ==
    { empty_devpath,
      <<1, 1, 6, 0, 127, 255>> \o empty_devpath,
      <<2, 1, 5, 0, 7>> \o <<127, 1, 4, 0>> \o <<4, 1, 4, 0>> \o empty_devpath }
MCMode(w, h, n) == [w |-> w, h |-> h, size |-> n]
MCDisplays ==
    { [ovmf |-> FALSE, base |-> 3, mode |-> 1,
       modes |-> <<MCMode(640, 480, 2), MCMode(800, 600, 3), MCMode(1024, 600, 4)>>],
      [ovmf |-> FALSE, base |-> 3, mode |-> 3,
       modes |-> <<MCMode(800, 600, 3), MCMode(800, 480, 2), MCMode(640, 480, 1)>>],
      [ovmf |-> FALSE, base |-> 3, mode |-> 1,
       modes |-> <<MCMode(640, 480, 2), MCMode(1024, 600, 4), MCMode(800, 768, 3)>>],
      [ovmf |-> TRUE, base |-> 3, mode |-> 1,
       modes |-> <<MCMode(640, 480, 2), MCMode(800, 600, 3), MCMode(1024, 768, 4)>>] }

=============================================================================
