--------------------------- MODULE MCGrallocLayout ---------------------------
(* A small instance of GrallocLayout: four builds, the capability sets that *)
(* make the rules differ, every format, and dimensions around the alignment *)
(* steps.                                                                   *)
EXTENDS GrallocLayout

\* hikey960, juno with a multimedia subsystem, the same with a newer video
\* block, and hikey.
MCBuilds ==
    {[hal |-> "midgard", display |-> d[1], video |-> d[2], afbc |-> d[1] = 0] :
        d \in {<<0, 0>>, <<650, 550>>, <<650, 61>>}}
    \cup {[hal |-> "utgard", display |-> 0, video |-> 0, afbc |-> FALSE]}

MCLibraries ==
    LET gpu == {{}, {"OPTIONS", "BASIC", "SPLITBLK"},
                {"OPTIONS", "BASIC", "TILED", "YUV_NOWRITE"},
                {"OPTIONS", "BASIC", "SPLITBLK", "WIDEBLK", "TILED"}}
        dpu == {{}, {"OPTIONS", "BASIC", "TILED"}, {"OPTIONS"}}
    IN [gpu : gpu, dpu : dpu]

Surface == {"HW_RENDER", "HW_TEXTURE", "HW_COMPOSER"}
Usages == {Surface, {SW, "HW_TEXTURE"}, {"HW_RENDER", "HW_TEXTURE"},
           {"HW_RENDER", "HW_VIDEO_ENCODER"}, {"HW_CAMERA", "HW_TEXTURE"},
           {"HW_CAMERA", "HW_VIDEO_ENCODER"}, DECODER,
           DECODER \cup {"HW_VIDEO_ENCODER"}, DECODER \cup {"HW_RENDER"},
           Surface \cup {"HW_VIDEO_ENCODER"}, {"HW_RENDER", "HW_COMPOSER"}, {"HW_TEXTURE"}}

\* The modifiers of the wrapper macros, two exclusive ones and tiled headers
\* on split blocks.
PackedMods == {{}, {"BASIC"}, {"SPLITBLK"}, {"WIDEBLK"}, {"TILED", "BASIC"},
               {"TILED", "WIDEBLK"}, {"BASIC", "WIDEBLK"},
               {"TILED", "SPLITBLK"}}

MCRequests ==
    [format : Formats, mods : {{}},
     usage : Usages \cup {u \cup NO_AFBC : u \in {Surface, {SW}}}
                    \cup {Surface \cup {"PRIVATE_2"}}]
    \cup [format : Formats, mods : PackedMods,
          usage : {Surface \cup {"PRIVATE_3"},
                   Surface \cup {"PRIVATE_2", "PRIVATE_3"},
                   {SW, "PRIVATE_3"}}]

MCDimensions == {<<1, 1>>, <<34, 3>>, <<20, 17>>, <<132, 1>>, <<160, 33>>}
=============================================================================
