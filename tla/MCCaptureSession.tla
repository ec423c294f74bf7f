-------------------------- MODULE MCCaptureSession --------------------------
(* Instances of CaptureSession for TLC: every call of the three inits may  *)
(* fail, or only those of the two codecs.                                  *)
EXTENDS CaptureSession

DecoderFaults == {"dec_phys", "dec_map", "dec_open", "dec_parse",
                  "dec_outbuf", "dec_fb", "dec_pfbpool", "dec_frames"}
EncoderFaults == {"enc_phys", "enc_map", "enc_outbuf", "enc_outmap",
                  "enc_open", "enc_info", "enc_slices", "enc_fb", "enc_pfbpool", "enc_frames",
                  "enc_report"}
CodecFaults == DecoderFaults \cup EncoderFaults
AllFaults == CodecFaults \cup {"vpu", "camera"}
=============================================================================
