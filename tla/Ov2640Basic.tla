---------------------------- MODULE Ov2640Basic ----------------------------
(***************************************************************************)
(* What the start-up writes to the camera: two tables of raw bytes and,    *)
(* between them, a default value for nearly every setting.                 *)
(***************************************************************************)
EXTENDS Ov2640Registers

(***************************************************************************)
(* Pairs of an address and a byte.  The address FF selects the bank of the *)
(* ones that follow.  The first table is given for the addresses that hold *)
(* a setting in one of the banks; the others hold none and are left out.   *)
(***************************************************************************)
InitTable ==
  <<<<\hFF, \h00>>, <<\h2E, \hDF>>, <<\hFF, \h01>>, <<\h11, \h00>>, <<\h09, \h02>>,
    <<\h04, \hD8>>, <<\h13, \hE5>>, <<\h14, \h48>>, <<\h34, \hC0>>, <<\h0D, \h87>>,
    <<\h48, \h00>>, <<\h5B, \h00>>, <<\h24, \h40>>, <<\h25, \h38>>, <<\h26, \h82>>,
    <<\h5C, \h00>>, <<\h46, \h00>>, <<\h0C, \h3C>>, <<\h61, \h70>>, <<\h62, \h80>>,
    <<\h7C, \h05>>, <<\h5A, \h57>>, <<\h12, \h00>>, <<\h17, \h11>>, <<\h18, \h75>>,
    <<\h19, \h01>>, <<\h1A, \h97>>, <<\h32, \h36>>, <<\h03, \h0F>>, <<\h4F, \hCA>>,
    <<\h50, \hA8>>, <<\h5A, \h23>>, <<\hFF, \h00>>, <<\hF9, \hC0>>, <<\hE0, \h14>>,
    <<\h87, \hD5>>, <<\hD3, \h82>>, <<\h7C, \h00>>, <<\h7D, \h00>>, <<\h7C, \h03>>,
    <<\h7D, \h48>>, <<\h7D, \h48>>, <<\h7C, \h08>>, <<\h7D, \h20>>, <<\h7D, \h10>>,
    <<\h7D, \h0E>>, <<\hC3, \hEF>>, <<\hC0, \hC8>>, <<\hC1, \h96>>, <<\h8C, \h00>>,
    <<\h86, \h3D>>, <<\h50, \h00>>, <<\h51, \h90>>, <<\h52, \h2C>>, <<\h53, \h00>>,
    <<\h54, \h00>>, <<\h55, \h88>>, <<\h5A, \h90>>, <<\h5B, \h2C>>, <<\h5C, \h05>>,
    <<\hD3, \h02>>, <<\hC3, \hED>>, <<\hDA, \h09>>, <<\hE0, \h00>>, <<\h05, \h00>>>>

\* A definition whose name starts with Bug_ is a wrong form of the one after it, with
\* which a property must fail; it is no part of the specification.
Bug_Rgb565TableOneBank ==
  <<<<\hFF, \h00>>, <<\hDA, \h09>>, <<\hD7, \h03>>, <<\hDF, \h02>>, <<\h33, \hA0>>,
    <<\h3C, \h00>>, <<\hE1, \h67>>, <<\hE0, \h00>>, <<\hE1, \h00>>, <<\hE5, \h00>>,
    <<\hD7, \h00>>, <<\hDA, \h00>>, <<\hE0, \h00>>>>

Rgb565Table ==
  <<<<\hFF, \h00>>, <<\hDA, \h09>>, <<\hD7, \h03>>, <<\hDF, \h02>>, <<\h33, \hA0>>,
    <<\h3C, \h00>>, <<\hE1, \h67>>, <<\hFF, \h01>>, <<\hE0, \h00>>, <<\hE1, \h00>>,
    <<\hE5, \h00>>, <<\hD7, \h00>>, <<\hDA, \h00>>, <<\hE0, \h00>>>>

(***************************************************************************)
(* The settings of ov2640_basic_init, in the order of its calls, with the  *)
(* numbers of OV2640_BASIC_DEFAULT_.  The signal processor is bypassed     *)
(* while its own settings are made.                                        *)
(***************************************************************************)
Defaults1 ==
  <<<<"clock_rate_double", 0>>, <<"clock_divider", 0>>, <<"mode", 0>>,
    <<"power_reset_pin_remap", 0>>, <<"output_drive", 2>>, <<"horizontal_mirror", 0>>,
    <<"vertical_flip", 1>>, <<"band_filter", 1>>, <<"agc_control", 0>>,
    <<"exposure_control", 0>>, <<"agc_gain_ceiling", 2>>,
    <<"zoom_window_horizontal_start_point", 0>>, <<"clock_output_power_down_pin_status", 0>>,
    <<"zoom_mode_vertical_window_start_point", 0>>, <<"luminance_signal_high_range", 64>>>>

Defaults2 ==
  <<<<"luminance_signal_low_range", 56>>, <<"fast_mode_large_step_range", 8 * 256 + 2>>,
    <<"frame_length_adjustment", 0>>, <<"band", 1>>, <<"auto_band", 0>>,
    <<"live_video_after_snapshot", 0>>, <<"histogram_algorithm_low_level", 112>>,
    <<"histogram_algorithm_high_level", 128>>, <<"banding_aec_50hz", 202>>,
    <<"banding_aec_60hz", 168>>, <<"resolution", 0>>, <<"zoom", 0>>, <<"color_bar_test", 0>>,
    <<"pclk", 1>>, <<"horizontal_window_start", 142>>>>

Defaults3 ==
  <<<<"horizontal_window_end", 942>>, <<"vertical_window_line_start", 8>>,
    <<"vertical_window_line_end", 608>>, <<"vsync_pulse_width", 0>>, <<"agc_gain", 64>>,
    <<"dummy_frame", 0>>, <<"aec", 1536>>, <<"frame_exposure_pre_charge_row_number", 64>>,
    <<"chsync_href_swap", 0>>, <<"href_chsync_swap", 0>>, <<"pclk_output_qualified_by_href", 0>>,
    <<"pclk_edge", 0>>, <<"href_polarity", 0>>, <<"vsync_polarity", 0>>,
    <<"hsync_polarity", 0>>>>

Defaults4 ==
  <<<<"line_interval_adjust", 0>>, <<"hsync_position_and_width_start_point", 8>>,
    <<"hsync_position_and_width_end_point", 48>>, <<"luminance_average", 0>>,
    <<"flash_light", 32>>, <<"average_weight_option_16_zone", 0>>, <<"dsp_bypass", 1>>,
    <<"bpc", 1>>, <<"wpc", 1>>, <<"dvp_pclk", 2>>, <<"cip", 1>>, <<"dmy", 1>>, <<"raw_gma", 1>>,
    <<"dg", 0>>, <<"awb", 1>>>>

Defaults5 ==
  <<<<"awb_gain", 1>>, <<"pre", 1>>, <<"dvp_y8", 0>>, <<"jpeg_output", 0>>,
    <<"dvp_output_format", 2>>, <<"dvp_jpeg_output_href_timing", 0>>, <<"byte_swap", 1>>,
    <<"image_horizontal", 1600>>, <<"image_vertical", 1200>>, <<"dcw", 1>>, <<"sde", 1>>,
    <<"uv_adj", 1>>, <<"uv_avg", 1>>, <<"cmx", 1>>, <<"lp_dp", 0>>>>

Defaults6 ==
  <<<<"round", 0>>, <<"vertical_divider", 0>>, <<"horizontal_divider", 0>>,
    <<"horizontal_size", 400>>, <<"vertical_size", 300>>, <<"offset_x", 0>>, <<"offset_y", 0>>,
    <<"output_width", 400>>, <<"output_height", 300>>, <<"zoom_speed", 0>>,
    <<"quantization_scale_factor", 12>>, <<"sccb_master_speed", 4>>,
    <<"address_auto_increase", 0>>, <<"sccb", 0>>, <<"sccb_master_clock_delay", 0>>>>

Defaults7 ==
  <<<<"sccb_master_access", 0>>, <<"sensor_pass_through_access", 1>>, <<"aec_enable", 0>>,
    <<"aec_sel", 0>>, <<"stat_sel", 0>>, <<"vfirst", 0>>, <<"yuv422", 1>>, <<"yuv", 1>>,
    <<"rgb", 0>>, <<"raw", 0>>, <<"dp_selx", 0>>, <<"dp_sely", 0>>, <<"dsp_bypass", 0>>>>

\* ov2640_basic_set_image_resolution of the one size that the program asks for:
\* the camera takes a quarter of the 320 by 240 pixels.
QvgaSize == <<<<"output_width", 320 \div 4>>, <<"output_height", 240 \div 4>>>>
=============================================================================
