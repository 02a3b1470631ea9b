--------------------------- MODULE GrallocFormats ---------------------------
(***************************************************************************)
(* src/gralloc960/mali_gralloc_formats.cpp: the format a buffer gets.  The *)
(* client asks for a HAL format and says with usage flags who will write   *)
(* and read the buffer; the allocator adds the AFBC (compression) modifiers*)
(* that the writers and readers have in common.                            *)
(*                                                                         *)
(* An internal format is a record of a base format and the set of its      *)
(* modifier bits; a usage and the capabilities of a hardware block are     *)
(* sets of flags.  Everything here is a pure function of the capabilities  *)
(* and the request; GrallocLayout is the state machine around it.          *)
(***************************************************************************)
EXTENDS Integers, FiniteSets

AfbcModes == {"BASIC", "SPLITBLK", "WIDEBLK"}  \* mutually exclusive bits
Modifiers == AfbcModes \cup {"TILED"}          \* TILED is a regular bit

InternalFormats ==
    {"RGBA_8888", "RGBX_8888", "RGB_888", "RGB_565", "BGRA_8888", "YV12",
     "Y8", "Y16", "RAW16", "RAW12", "RAW10", "BLOB", "NV12", "NV21",
     "YUV422_8BIT", "Y0L2", "P010", "P210", "Y210", "Y410"}

\* Formats a client can name that are no internal format of their own.
HalFormats == {"IMPLEMENTATION_DEFINED", "YCbCr_420_888", "YCbCr_422_888",
               "YCbCr_444_888", "YCbCr_422_I", "YCrCb_420_SP"}

Formats == InternalFormats \cup HalFormats

SW      == "SW"                          \* SW_READ_MASK or SW_WRITE_MASK
NO_AFBC == {"PRIVATE_1", "PRIVATE_2"}
DECODER == {"HW_TEXTURE", "HW_COMPOSER", "EXTERNAL_DISP"}

NoFormat == [base |-> "none", mods |-> {}]   \* internal_format == 0
-----------------------------------------------------------------------------
(* The capabilities of the blocks: what the display and GPU libraries      *)
(* export, or what the build says.  `lib.gpu` and `lib.dpu` are the caps   *)
(* mask of the library's symbol, {} when it has none; `build` has the      *)
(* versions of display and video block and MALI_GPU_SUPPORT_AFBC_BASIC.    *)

StaticGpuCaps == {"OPTIONS", "BASIC", "YUV_NOWRITE", "WIDEBLK_YUV_DISABLE"}

DpuBuildCaps(version) ==
    (IF version >= 500 THEN {"OPTIONS", "BASIC"} ELSE {})
        \cup (IF version >= 550 THEN {"SPLITBLK"} ELSE {})

VpuCaps(version) ==
    CASE version \in {500, 550} -> {"OPTIONS", "BASIC", "YUV_NOREAD"}
      [] version = 61           -> {"OPTIONS", "BASIC", "TILED"}
      [] OTHER                  -> {}

determine_format_capabilities(lib, build) ==
    [dpu |-> IF lib.dpu = {} THEN DpuBuildCaps(build.display) ELSE lib.dpu,
     gpu |-> IF "OPTIONS" \in lib.gpu \/ ~build.afbc
             THEN lib.gpu ELSE lib.gpu \cup StaticGpuCaps,
     vpu |-> VpuCaps(build.video)]
-----------------------------------------------------------------------------
FlexFormats == {"IMPLEMENTATION_DEFINED", "YCbCr_420_888", "YCbCr_422_888",
                "YCbCr_444_888"}

map_flex_formats(format) ==
    IF format \in {"IMPLEMENTATION_DEFINED", "YCbCr_420_888"} THEN "NV12"
                                                              ELSE format

is_android_yuv_format(format) ==
    format \in {"YV12", "Y8", "Y16", "YCbCr_420_888", "YCbCr_422_888",
                "YCbCr_444_888"}

is_afbc_supported(format) ==
    format \notin {"RAW16", "RAW12", "RAW10", "BLOB", "P010", "P210", "Y410",
                   "YCbCr_422_I"}

\* GRALLOC_DISP_W and GRALLOC_DISP_H are 0: no buffer is too small for AFBC.
is_afbc_allowed == TRUE

\* A usage with PRIVATE_3 says that `format` is an internal format packed
\* with its modifiers.
decode_internal_format(format, mods) ==
    IF Cardinality(mods \cap AfbcModes) > 1
       \/ map_flex_formats(format) \notin InternalFormats
    THEN NoFormat
    ELSE [base |-> map_flex_formats(format), mods |-> mods]

\* The writer of the buffer and the modifiers it can write; the usage has no
\* SW flag.
determine_producer(caps, format, usage) ==
    LET yuv == "HW_RENDER" \in usage /\ is_android_yuv_format(format)
    IN [type |-> IF "HW_RENDER" \in usage THEN "GPU"
                 ELSE IF "HW_CAMERA" \in usage THEN "CAMERA"
                 ELSE IF DECODER \subseteq usage THEN "VIDEO_DECODER"
                 ELSE "GPU",
        mask |-> IF ~yuv THEN Modifiers
                 ELSE IF "YUV_NOWRITE" \in caps.gpu THEN {}
                 ELSE Modifiers \ {"SPLITBLK", "WIDEBLK"}]

\* The reader of the buffer and the modifiers it can read.
determine_consumer(caps, format, usage) ==
    LET encoder == "HW_FB" \notin usage /\ "HW_VIDEO_ENCODER" \in usage
        display == \/ "HW_FB" \in usage
                   \/ /\ {"HW_TEXTURE", "HW_COMPOSER"} \subseteq usage
                      /\ "OPTIONS" \in caps.dpu
    IN [type |-> IF encoder THEN "VIDEO_ENCODER"
                 ELSE IF display THEN "GPU_OR_DISPLAY" ELSE "GPU_EXCL",
        mask |-> IF /\ encoder
                    /\ "YUV_NOREAD" \in caps.vpu
                    /\ is_android_yuv_format(format)
                 THEN {} ELSE Modifiers]

\* The modifiers the writer and the readers have in common.  A pair of blocks
\* that has nothing in common gets an uncompressed buffer.
DisplayNotAsked(gpu, dpu) ==
    IF "SPLITBLK" \in gpu THEN {"SPLITBLK"} ELSE {"BASIC", "TILED"} \cap gpu

GpuToDisplay(gpu, dpu) ==
    LET both == gpu \cap dpu IN
    IF "SPLITBLK" \in both THEN {"SPLITBLK"}
    ELSE IF "BASIC" \in both THEN {"BASIC", "TILED"} \cap both ELSE {}

determine_best_format(format, producer, consumer, caps) ==
    LET gpu  == caps.gpu \cap consumer.mask
        dpu  == caps.dpu \cap consumer.mask
        vpu  == caps.vpu \cap consumer.mask
        yv12 == IF format = "YV12" THEN {"BASIC", "TILED"} ELSE {}
    IN IF producer.type = "GPU" /\ "OPTIONS" \in caps.gpu
       THEN producer.mask \cap caps.gpu \cap
            [GPU_OR_DISPLAY |-> GpuToDisplay(producer.mask \cap gpu, dpu),
             GPU_EXCL       |-> {"BASIC", "TILED"} \cap gpu,
             VIDEO_ENCODER  |-> yv12 \cap vpu][consumer.type]
       ELSE IF producer.type = "VIDEO_DECODER" /\ "OPTIONS" \in caps.vpu
       THEN producer.mask \cap caps.vpu \cap yv12 \cap
            [GPU_OR_DISPLAY |-> gpu \cap dpu,
             GPU_EXCL       |-> gpu,
             VIDEO_ENCODER  |-> {}][consumer.type]
       ELSE {}

mali_gralloc_select_format(caps, format, mods, usage) ==
    LET mapped    == map_flex_formats(format)
        producer  == determine_producer(caps, format, usage)
        consumer  == determine_consumer(caps, format, usage)
        afbc      == /\ format \notin FlexFormats
                     /\ ~(NO_AFBC \subseteq usage)
                     /\ is_afbc_allowed
                     /\ is_afbc_supported(mapped)
        allowed   == IF afbc THEN producer
                             ELSE [producer EXCEPT !.mask = {}]
    IN IF "PRIVATE_3" \in usage THEN decode_internal_format(format, mods)
       ELSE IF SW \in usage THEN [base |-> mapped, mods |-> {}]
       ELSE IF NO_AFBC \subseteq usage /\ is_android_yuv_format(mapped)
       THEN NoFormat
       ELSE [base |-> mapped,
             mods |-> determine_best_format(mapped, allowed, consumer, caps)]
=============================================================================
