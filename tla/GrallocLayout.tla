---------------------------- MODULE GrallocLayout ----------------------------
(***************************************************************************)
(* src/gralloc960/alloc_device.cpp and gralloc_lock_ycbcr: how large the   *)
(* allocator makes a buffer for a format and a usage, and where a client   *)
(* that locks the buffer later is told to find its planes.  The two are    *)
(* computed apart, from different fields, by code that runs in different   *)
(* processes; the buffer is right only if they agree.                      *)
(*                                                                         *)
(* One process reads the capabilities once, then allocates, locks and      *)
(* frees one buffer after the other.  Sizes are in bytes.                  *)
(***************************************************************************)
EXTENDS GrallocFormats

CONSTANTS Builds,     \* [hal, display, video : version, afbc : BOOLEAN]
          Libraries,  \* [gpu, dpu : capabilities the libraries export]
          Requests,   \* [format, mods, usage]
          Dimensions, \* pairs of width and height
          Garbage     \* what an uninitialised size may hold

\* The sizes are computed in int and nothing is checked: pictures of which a size, with
\* its alignments, is no int are left out.
ASSUME DimensionsAssumption ==
    /\ Dimensions \subseteq (Nat \ {0}) \X (Nat \ {0})
    /\ \A d \in Dimensions : (d[1] + 256) * (d[2] + 144) * 8 <= 2147483647
ASSUME GarbageAssumption == Garbage \subseteq Nat

VARIABLES build, lib, \* fixed
          caps,       \* *_runtime_caps, NoCaps until they are read
          buf,        \* the private_handle_t, NoBuffer when there is none
          view        \* what lock_ycbcr returned, NoView when unlocked

layoutVars == <<build, lib, caps, buf, view>>

NoCaps   == [dpu |-> {"unread"}, gpu |-> {}, vpu |-> {}]
NoBuffer == [size |-> -1]
NoView   == [step |-> 0]
-----------------------------------------------------------------------------
Align(n, a) == ((n + a - 1) \div a) * a        \* GRALLOC_ALIGN

YUV_MALI_PLANE_ALIGN    == 128
YUV_ANDROID_PLANE_ALIGN == 16

\* Alignment of the width, of the height and of the AFBC header of each kind
\* of compressed allocation.
AfbcAlign ==
    [AFBC                       |-> [w |-> 16,  h |-> 16,  header |-> 1024],
     AFBC_WIDEBLK               |-> [w |-> 32,  h |-> 16,  header |-> 1024],
     AFBC_PADDED                |-> [w |-> 64,  h |-> 16,  header |-> 1024],
     AFBC_TILED_HEADERS_BASIC   |-> [w |-> 128, h |-> 128, header |-> 4096],
     AFBC_TILED_HEADERS_WIDEBLK |-> [w |-> 256, h |-> 64,  header |-> 4096]]

\* 16 bytes for each block of 16 by 16 pixels.
AfbcHeader(w, h, type) ==
    Align(16 * (((w \div 16) * h) \div 16), AfbcAlign[type].header)

\* The out parameters of the functions below.  Invalid is their `false`.
Layout(size, byte, pixel, ih) ==
    [size |-> size, byte_stride |-> byte, pixel_stride |-> pixel, ih |-> ih]
Invalid == Layout(-1, 0, 0, 0)

\* The strides are those of the uncompressed picture.
get_rgb_stride_and_size(w, h, bytes, type) ==
    LET stride == Align(w * bytes, 64)
        wa == Align(w, AfbcAlign[type].w)
        ha == Align(h, AfbcAlign[type].h)
    IN Layout(IF type = "UNCOMPRESSED" THEN stride * h
              ELSE wa * ha * bytes + AfbcHeader(wa, ha, type),
              stride, stride \div bytes, h)

\* A VPU decodes into a picture that is a row of blocks higher.
InternalHeight(h) == IF build.video = 0 THEN h ELSE h + 16

get_afbc_yuv420_8bit_stride_and_size(w, h, type) ==
    LET wa == Align(w, AfbcAlign[type].w)
        ha == Align(InternalHeight(h), AfbcAlign[type].h)
    IN IF type \in {"UNCOMPRESSED", "AFBC_PADDED"} THEN Invalid
       ELSE Layout((wa + Align(wa \div 2, 16)) * ha + AfbcHeader(wa, ha, type),
                   wa, wa, InternalHeight(h))

OddYv12(w, h, type, align) ==
    LET luma == Align(w, align)
    IN IF type # "UNCOMPRESSED"
       THEN get_afbc_yuv420_8bit_stride_and_size(w, h, type)
       ELSE Layout(h * (luma + Align(luma \div 2, align)), luma, luma, h)
get_yv12_stride_and_size(w, h, type, align) ==
    LET luma == Align(w, align)
    IN IF type # "UNCOMPRESSED"
       THEN get_afbc_yuv420_8bit_stride_and_size(w, h, type)
       ELSE Layout(Align(h, 2) * (luma + Align(luma \div 2, align)),
                   luma, luma, h)

get_afbc_yuv422_8bit_stride_and_size(w, h, type) ==
    LET wa == Align(w, AfbcAlign[type].w)
        ha == Align(h, AfbcAlign[type].h)
    IN IF type \in {"UNCOMPRESSED", "AFBC_PADDED"} THEN Invalid
       ELSE Layout(wa * ha * 2 + AfbcHeader(wa, ha, type), wa, wa, h)

\* Packed formats: `bytes` per pixel in lines of 128 bytes, and `rows` lines.
Packed(w, bytes, rows, h) ==
    LET stride == Align(w * bytes, YUV_MALI_PLANE_ALIGN)
    IN Layout(stride * rows, stride, Align(w, YUV_MALI_PLANE_ALIGN), h)

get_yuv422_8bit_stride_and_size(w, h) == Packed(w, 2, h, h)
get_yuv_y210_stride_and_size(w, h)    == Packed(w, 4, h, h)
get_yuv_y410_stride_and_size(w, h)    == Packed(w, 4, h, h)
get_yuv_y0l2_stride_and_size(w, h)    == Packed(w, 4, Align(h, 2) \div 2, h)

\* P010 (vss = 2) and P210 (vss = 1): a luma and a chroma plane.
get_yuv_pX10_stride_and_size(w, h, vss) ==
    LET rows == IF vss = 2 THEN Align(h, 2) ELSE h
    IN Packed(w, 2, rows + rows \div vss, h)

get_yuv420_10bit_afbc_stride_and_size(w, h, type) ==
    LET ih == InternalHeight(h)
        wa == Align(w, AfbcAlign[type].w)
        ha == Align(ih \div 2, AfbcAlign[type].h)
    IN IF w % 4 # 0 \/ type = "AFBC_PADDED" THEN Invalid
       ELSE Layout(wa * 4 * ha + AfbcHeader(wa, ih, type), wa, wa, ih)

get_yuv422_10bit_afbc_stride_and_size(w, h, type) ==
    LET wa == Align(w, AfbcAlign[type].w)
        ha == Align(h, AfbcAlign[type].h)
    IN IF w % 4 # 0 \/ type = "AFBC_PADDED" THEN Invalid
       ELSE Layout(wa * 2 * ha * 2 + AfbcHeader(wa, ha, type), wa * 2, wa, h)

CameraAccepts(format, w, h) ==
    /\ format \in {"RAW12", "RAW10"} => w % 4 = 0
    /\ format = "BLOB" => h = 1

\* The caller ignores the result: when the dimensions are refused, the
\* stride and the size are what the stack held.
get_camera_formats_stride_and_size(w, h, format) ==
    IF ~CameraAccepts(format, w, h)
    THEN {Layout(n, n, n, h) : n \in Garbage}
    ELSE {CASE format = "RAW16" ->
                 Layout(Align(w, 16) * h * 2, Align(w, 16), Align(w, 16), h)
            [] format = "RAW12" ->
                 LET bytes == 3 * (w \div 2) IN Layout(bytes * h, bytes, bytes, h)
            [] format = "RAW10" ->
                 LET bytes == 5 * (w \div 4) IN Layout(bytes * h, bytes, bytes, h)
            [] format = "BLOB"  -> Layout(w, 0, 0, h)}
-----------------------------------------------------------------------------
\* The kind of allocation a format asks for, "refused" for split blocks with
\* tiled headers.
AllocType(fmt, usage) ==
    IF fmt.mods \cap AfbcModes = {} THEN "UNCOMPRESSED"
    ELSE IF "TILED" \in fmt.mods
    THEN IF "WIDEBLK" \in fmt.mods THEN "AFBC_TILED_HEADERS_WIDEBLK"
         ELSE IF "BASIC" \in fmt.mods THEN "AFBC_TILED_HEADERS_BASIC"
         ELSE "refused"
    ELSE IF "PRIVATE_2" \in usage THEN "AFBC_PADDED"
    ELSE IF "WIDEBLK" \in fmt.mods THEN "AFBC_WIDEBLK" ELSE "AFBC"

Yuv420Planar == {"YCrCb_420_SP", "YV12", "NV12", "NV21"}
Camera       == {"RAW16", "RAW12", "RAW10", "BLOB"}
Linear       == {"YCbCr_422_I", "P010", "P210", "Y410"} \cup Camera

BytesPerPixel == [RGBA_8888 |-> 4, RGBX_8888 |-> 4, BGRA_8888 |-> 4,
                  RGB_888 |-> 3, RGB_565 |-> 2]

\* The switch of alloc_device_alloc: the layouts the request may get.
Layouts(base, usage, type, w, h) ==
    IF base \in Linear /\ type # "UNCOMPRESSED" THEN {Invalid}
    ELSE IF base \in DOMAIN BytesPerPixel
    THEN {get_rgb_stride_and_size(w, h, BytesPerPixel[base], type)}
    ELSE IF base \in Camera
    THEN get_camera_formats_stride_and_size(w, h, base)
    ELSE {CASE base \in Yuv420Planar ->
                 get_yv12_stride_and_size(w, h, type,
                     IF SW \in usage THEN YUV_ANDROID_PLANE_ALIGN
                                     ELSE YUV_MALI_PLANE_ALIGN)
            [] base = "YCbCr_422_I" -> get_yuv422_8bit_stride_and_size(w, h)
            [] base = "Y0L2" ->
                 IF type = "UNCOMPRESSED"
                 THEN get_yuv_y0l2_stride_and_size(w, h)
                 ELSE get_yuv420_10bit_afbc_stride_and_size(w, h, type)
            [] base = "P010" -> get_yuv_pX10_stride_and_size(w, h, 2)
            [] base = "P210" -> get_yuv_pX10_stride_and_size(w, h, 1)
            [] base = "Y210" ->
                 IF type = "UNCOMPRESSED"
                 THEN get_yuv_y210_stride_and_size(w, h)
                 ELSE get_yuv422_10bit_afbc_stride_and_size(w, h, type)
            [] base = "Y410" -> get_yuv_y410_stride_and_size(w, h)
            [] base = "YUV422_8BIT" ->
                 get_afbc_yuv422_8bit_stride_and_size(w, h, type)
            [] OTHER -> Invalid}

\* GRALLOC_INIT_AFBC, which the build sets with a Mali display: the bytes of
\* the headers init_afbc writes at the start of the buffer.
init_afbc(fmt, w, h) ==
    IF build.display # 0 /\ fmt.mods \cap AfbcModes # {}
    THEN ((w * h) \div 64) * 16 ELSE 0
-----------------------------------------------------------------------------
LayoutInit ==
    /\ build \in Builds
    /\ lib \in Libraries
    /\ caps = NoCaps
    /\ buf = NoBuffer
    /\ view = NoView

\* The first allocation reads the capabilities, under caps_init_mutex; they
\* are never read again.
ReadCaps ==
    /\ build.hal = "midgard"
    /\ caps = NoCaps
    /\ caps' = determine_format_capabilities(lib, build)
    /\ UNCHANGED <<build, lib, buf, view>>

\* alloc_device_alloc, for a usage without HW_FB; a request that is refused
\* leaves no trace.
Alloc(req, w, h) ==
    LET fmt  == mali_gralloc_select_format(caps, req.format, req.mods,
                                           req.usage)
        type == AllocType(fmt, req.usage)
    IN /\ caps # NoCaps
       /\ buf = NoBuffer
       /\ "HW_FB" \notin req.usage
       /\ fmt # NoFormat
       /\ type # "refused"
       /\ \E lay \in Layouts(fmt.base, req.usage, type, w, h) :
             /\ lay.size > 0   \* the ion driver refuses an empty buffer
             /\ buf' = [size |-> lay.size, byte_stride |-> lay.byte_stride,
                        stride |-> lay.pixel_stride, width |-> w, height |-> h,
                        internalHeight |-> lay.ih, usage |-> req.usage,
                        req_format |-> req.format, internal_format |-> fmt,
                        initialised |-> init_afbc(fmt, w, h)]
       /\ UNCHANGED <<build, lib, caps, view>>

RawHeight == buf.height
AdjustedHeight == Align(buf.height, 2)

\* The sizes of src/gralloc/alloc_device.cpp, the HAL of the Utgard GPU, which
\* knows no compression and no lock_ycbcr; Invalid is -EINVAL.
UtgardLayout(format, w, h) ==
    LET stride == Align(w, 16)
        bpr    == Align(w * BytesPerPixel[format], 64)
        rows   == IF format = "YV12" THEN Align(h, 2) ELSE Align(h, 16)
    IN IF format \in {"YCrCb_420_SP", "YV12"}
       THEN Layout(rows * (stride + Align(stride \div 2, 16)), stride, stride, h)
       ELSE IF format \in DOMAIN BytesPerPixel
       THEN Layout(bpr * h, bpr, bpr \div BytesPerPixel[format], h)
       ELSE IF format = "BLOB" /\ h = 1 THEN Layout(w, 0, 0, h) ELSE Invalid

UtgardAlloc(format, w, h) ==
    LET lay == UtgardLayout(format, w, h)
    IN /\ build.hal = "utgard"
       /\ buf = NoBuffer
       /\ lay # Invalid
       /\ buf' = [size |-> lay.size, byte_stride |-> lay.byte_stride,
                  stride |-> lay.pixel_stride, width |-> w, height |-> h,
                  internalHeight |-> h, usage |-> {}, req_format |-> format,
                  internal_format |-> [base |-> format, mods |-> {}],
                  initialised |-> 0]
       /\ UNCHANGED <<build, lib, caps, view>>

\* gralloc_lock_ycbcr for CPU access: three planes of an uncompressed buffer.
\* cb and cr are offsets from the base of the buffer.
LockYcbcr ==
    LET y_stride == buf.byte_stride
        y_size   == y_stride * AdjustedHeight
        c_stride == Align(y_stride \div 2, 16)
        c_size   == c_stride * (AdjustedHeight \div 2)
    IN /\ build.hal = "midgard"
       /\ buf # NoBuffer
       /\ view = NoView
       /\ buf.internal_format.mods = {}
       /\ \/ /\ buf.internal_format.base = "NV12"
             /\ view' = [cb |-> y_size, cr |-> y_size + 1, step |-> 2,
                         ystride |-> y_stride, cstride |-> y_stride]
          \/ /\ buf.internal_format.base = "NV21"
             /\ view' = [cb |-> y_size + 1, cr |-> y_size, step |-> 2,
                         ystride |-> y_stride, cstride |-> y_stride]
          \/ /\ buf.internal_format.base = "YV12"
             /\ view' = [cb |-> y_size + c_size, cr |-> y_size, step |-> 1,
                         ystride |-> y_stride, cstride |-> c_stride]
       /\ UNCHANGED <<build, lib, caps, buf>>

FreeBuffer ==
    /\ buf # NoBuffer
    /\ buf' = NoBuffer
    /\ view' = NoView
    /\ UNCHANGED <<build, lib, caps>>

LayoutNext ==
    \/ ReadCaps
    \/ \E req \in Requests, d \in Dimensions : Alloc(req, d[1], d[2])
    \/ \E f \in Formats, d \in Dimensions : UtgardAlloc(f, d[1], d[2])
    \/ LockYcbcr
    \/ FreeBuffer

LayoutSpec == LayoutInit /\ [][LayoutNext]_layoutVars
-----------------------------------------------------------------------------
Ceil(n, d) == (n + d - 1) \div d

\* The smallest group of pixels each format stores whole: its width, height
\* and bytes.
Clump(base) ==
    CASE base \in DOMAIN BytesPerPixel -> <<1, 1, BytesPerPixel[base]>>
      [] base \in Yuv420Planar         -> <<2, 2, 6>>
      [] base = "Y0L2"                 -> <<2, 2, 8>>
      [] base = "P010"                 -> <<2, 2, 12>>
      [] base \in {"P210", "Y210"}     -> <<2, 1, 8>>
      [] base \in {"YCbCr_422_I", "YUV422_8BIT"} -> <<2, 1, 4>>
      [] base = "Y410"                 -> <<1, 1, 4>>
      [] base = "RAW16"                -> <<1, 1, 2>>
      [] base = "RAW12"                -> <<2, 1, 3>>
      [] base = "RAW10"                -> <<4, 1, 5>>
      [] base = "BLOB"                 -> <<1, 1, 1>>

PictureBytes(base, w, h) ==
    LET c == Clump(base) IN Ceil(w, c[1]) * Ceil(h, c[2]) * c[3]

\* The rows of its picture that a buffer has room for: all of them, but without a VPU
\* the height of a compressed 10 bit 4:2:0 picture is halved, rounded down, before it is
\* rounded up to blocks (src/gralloc960/alloc_device.cpp:731-753).
RowsHeld ==
    LET fmt == buf.internal_format
    IN IF fmt.base = "Y0L2" /\ fmt.mods \cap AfbcModes # {} /\ build.video = 0
       THEN 2 * (buf.height \div 2) ELSE buf.height

\* Every buffer holds the rows of its picture, with the block headers of a
\* compressed one, and what the allocator itself writes to it stays inside, unless
\* the only row of the picture is the one that is not held.  Camera formats with
\* dimensions the size function refuses are left out: their size is whatever the
\* stack held (src/gralloc960/alloc_device.cpp:1062).
PictureFits ==
    LET fmt == buf.internal_format
    IN buf # NoBuffer /\ CameraAccepts(fmt.base, buf.width, buf.height) =>
       /\ buf.size >= PictureBytes(fmt.base, buf.width, RowsHeld)
             + (IF fmt.mods \cap AfbcModes = {} THEN 0
                ELSE 16 * Ceil(buf.width, 16) * Ceil(RowsHeld, 16))
       /\ RowsHeld > 0 => buf.initialised <= buf.size

\* The planes lock_ycbcr hands out lie inside the buffer and share no byte,
\* whatever alignment the buffer was allocated with.
PlanesInsideBuffer ==
    LET cw == Ceil(buf.width, 2)
        ch == Ceil(buf.height, 2)
        last == (ch - 1) * view.cstride + (cw - 1) * view.step
        luma == (buf.height - 1) * view.ystride + buf.width
    IN view # NoView =>
       /\ buf.width <= view.ystride /\ cw * view.step <= view.cstride
       /\ \A p \in {view.cb, view.cr} : luma <= p /\ p + last < buf.size
       /\ view.step = 1 => view.cr + last < view.cb \/ view.cb + last < view.cr

\* The blocks that a usage says will write or read the buffer.  The flags of a
\* decoder say so when no other writer is named.  HW_COMPOSER comes with every
\* surface: it names the display only when the display has capabilities of its own
\* (src/gralloc960/mali_gralloc_formats.cpp:451-454).  Two kinds of buffer the display
\* is not asked about although it may be given them: those that are to be encoded, and
\* those that are no texture (lines 442 and 455).
BlocksNamed(usage) ==
    (IF {"HW_RENDER", "HW_TEXTURE"} \cap usage # {} THEN {"gpu"} ELSE {})
    \cup (IF \/ "HW_VIDEO_ENCODER" \in usage
             \/ DECODER \subseteq usage /\ {"HW_RENDER", "HW_CAMERA"} \cap usage = {}
          THEN {"vpu"} ELSE {})
    \cup (IF /\ {"HW_TEXTURE", "HW_COMPOSER"} \subseteq usage
             /\ "HW_VIDEO_ENCODER" \notin usage
             /\ "OPTIONS" \in caps.dpu
          THEN {"dpu"} ELSE {})

\* A compressed buffer, unless the client chose its format itself, is one
\* that every block that will touch it understands: nothing for the CPU, and
\* no YV12 for a GPU that cannot write it or an encoder that cannot read it.
\* YV12 is the only YUV format of this check the code makes it for: NV12 and
\* NV21 asked for by number, and YCrCb_420_SP, do not count as YUV in it
\* (src/gralloc960/mali_gralloc_formats.cpp:144-154).
CompressionUnderstood ==
    LET mods == buf.internal_format.mods
    IN buf # NoBuffer /\ mods # {} /\ "PRIVATE_3" \notin buf.usage =>
       /\ SW \notin buf.usage /\ ~(NO_AFBC \subseteq buf.usage)
       /\ \A b \in BlocksNamed(buf.usage) : mods \subseteq caps[b]
       /\ buf.internal_format.base = "YV12" =>
            /\ "HW_RENDER" \in buf.usage => "YUV_NOWRITE" \notin caps.gpu
            /\ "HW_VIDEO_ENCODER" \in buf.usage =>
                  "YUV_NOREAD" \notin caps.vpu
=============================================================================
