------------------------------- MODULE Formats -------------------------------
(***************************************************************************)
(* common/v4l2.c: what the application knows of a pixel format.  The table *)
(* is searched from its start, by name for --preview_format and by V4L2    *)
(* code everywhere else; a code is a name here.  The codes of the display  *)
(* and the colour depths of the table, which no property is about, are     *)
(* left out.                                                               *)
(***************************************************************************)
EXTENDS Integers, Sequences

Entry(name, v4l2, planes) == [name |-> name, v4l2 |-> v4l2, planes |-> planes]

video_format_table ==
  << Entry("rgb24", "RGB24", 1), Entry("rgb32", "RGB32", 1),
     Entry("uyvy", "UYVY", 1), Entry("vyuy", "VYUY", 1),
     Entry("yuyv", "YUYV", 1), Entry("yvyu", "YVYU", 1),
     Entry("yvu420", "YVU420", 3), Entry("yuv420", "YUV420", 3), Entry("yvu422p", "YUV422P", 3),
     Entry("nv12", "NV12", 2), Entry("nv21", "NV21", 2),
     Entry("nv16", "NV16", 2), Entry("nv61", "NV61", 2) >>

Known == {video_format_table[i].name : i \in DOMAIN video_format_table}

(* V4L2_PIXEL_FORMAT_MAX, which is no V4L2 code, for a name not in the     *)
(* table; no planes for a code not in it.                                  *)
Unknown == Entry("NULL", "V4L2_PIXEL_FORMAT_MAX", 0)

LookUp(field, value) ==
  LET found == {i \in DOMAIN video_format_table : video_format_table[i][field] = value}
  IN  IF found = {} THEN Unknown
      ELSE video_format_table[CHOOSE i \in found : \A j \in found : i <= j]

FormatByName(name) == LookUp("name", name).v4l2
PlanesOf(format) == LookUp("v4l2", format).planes

(* v4l2_get_v4l2_sizeimage: the bytes of a frame of so many pixels; a      *)
(* format that no case names gives 0.                                      *)
SizeImage(format, pixels) ==
  CASE format = "RGB24" -> pixels * 3
    [] format = "RGB32" -> pixels * 4
    [] format \in {"YUYV", "YVYU", "UYVY", "VYUY", "NV16", "NV61", "YUV422P"} -> pixels * 2
    [] format \in {"NV12", "NV21", "YUV420", "YVU420"} -> (pixels * 3) \div 2
    [] OTHER -> 0
=============================================================================
