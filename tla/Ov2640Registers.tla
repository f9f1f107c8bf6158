--------------------------- MODULE Ov2640Registers ---------------------------
(***************************************************************************)
(* What the OV2640 library knows of the camera: where each setting lives.  *)
(* A byte, or the value of a setting, is the set of its bits that are 1.   *)
(* A register is a pair of a bank and an address.  A setting is the        *)
(* sequence of its parts, in the order its functions ov2640_set_ and       *)
(* ov2640_get_ access them; a part says which bit of the value each bit    *)
(* of a register holds.  A part that takes a whole register is written     *)
(* without being read first.                                               *)
(***************************************************************************)
EXTENDS Integers, Sequences

\* The bits of the number n.
Bits(n) == {b \in 0 .. 15 : (n \div 2 ^ b) % 2 = 1}

(***************************************************************************)
(* The registers of the two banks.                                         *)
(***************************************************************************)
Dsp ==
  LET address ==
        [R_BYPASS |-> \h05, QS |-> \h44, CTRLI |-> \h50, HSIZE |-> \h51, VSIZE |-> \h52,
         XOFFL |-> \h53, YOFFL |-> \h54, VHYX |-> \h55, DPRP |-> \h56, TEST |-> \h57,
         ZMOW |-> \h5A, ZMOH |-> \h5B, ZMHH |-> \h5C, BPADDR |-> \h7C, BPDATA |-> \h7D,
         CTRL2 |-> \h86, CTRL3 |-> \h87, SIZEL |-> \h8C, HSIZE8 |-> \hC0, VSIZE8 |-> \hC1,
         CTRL0 |-> \hC2, CTRL1 |-> \hC3, R_DVP_SP |-> \hD3, IMAGE_MODE |-> \hDA,
         RESET |-> \hE0, MS_SP |-> \hF0, SS_ID |-> \hF7, SS_CTRL |-> \hF8, MC_BIST |-> \hF9,
         MC_AL |-> \hFA, MC_AH |-> \hFB, MC_D |-> \hFC, P_CMD |-> \hFD, P_STATUS |-> \hFE]
  IN  [r \in DOMAIN address |-> <<"dsp", address[r]>>]

Sensor ==
  LET address ==
        [GAIN |-> \h00, COM1 |-> \h03, REG04 |-> \h04, REG08 |-> \h08, COM2 |-> \h09,
         COM3 |-> \h0C, COM4 |-> \h0D, AEC |-> \h10, CLKRC |-> \h11, COM7 |-> \h12,
         COM8 |-> \h13, COM9 |-> \h14, COM10 |-> \h15, HREFST |-> \h17, HREFEND |-> \h18,
         VSTRT |-> \h19, VEND |-> \h1A, AEW |-> \h24, AEB |-> \h25, VV |-> \h26,
         REG2A |-> \h2A, FRARL |-> \h2B, ADDVSL |-> \h2D, ADDVSH |-> \h2E, YAVG |-> \h2F,
         HSDY |-> \h30, HEDY |-> \h31, REG32 |-> \h32, ARCOM2 |-> \h34, REG45 |-> \h45,
         FLL |-> \h46, FLH |-> \h47, COM19 |-> \h48, ZOOMS |-> \h49, COM22 |-> \h4B,
         COM25 |-> \h4E, BD50 |-> \h4F, BD60 |-> \h50, REG5D |-> \h5D, REG5E |-> \h5E,
         REG5F |-> \h5F, REG60 |-> \h60, HISTO_LOW |-> \h61, HISTO_HIGH |-> \h62]
  IN  [r \in DOMAIN address |-> <<"sensor", address[r]>>]

(***************************************************************************)
(* Parts and settings.  Part: bits low .. low+width-1 of a register hold   *)
(* bits from .. from+width-1 of the value.  A Word is checked before       *)
(* anything is sent: the range is the bits it may have.  The code of an    *)
(* Enum or a Flag is an enumerator and is not checked.                     *)
(***************************************************************************)
Part(reg, low, width, from) ==
  [reg |-> reg, takes |-> [b \in low .. low + width - 1 |-> b - low + from]]

All(reg, from) == Part(reg, 0, 8, from)

Checked(range, parts) == [parts |-> parts, range |-> range, codes |-> {}]

Word(bits, parts) == Checked(0 .. bits - 1, parts)

Enum(reg, low, width, numbers) ==
  [parts |-> <<Part(reg, low, width, 0)>>, range |-> 0 .. width - 1,
   codes |-> {Bits(n) : n \in numbers}]

Flag(reg, low) == Enum(reg, low, 1, {0, 1})

(***************************************************************************)
(* The settings, in the order of driver_ov2640.c.                          *)
(***************************************************************************)
\* The sensor: exposure, window and timing.
agc_gain == Word(10, <<All(Sensor.GAIN, 0), Part(Sensor.REG45, 6, 2, 8)>>)
dummy_frame == Enum(Sensor.COM1, 6, 2, 0 .. 3)
vertical_window_line_start == Word(10, <<Part(Sensor.COM1, 0, 2, 0), All(Sensor.VSTRT, 2)>>)
vertical_window_line_end == Word(10, <<Part(Sensor.COM1, 2, 2, 0), All(Sensor.VEND, 2)>>)
horizontal_mirror == Flag(Sensor.REG04, 7)
vertical_flip == Flag(Sensor.REG04, 6)
aec == Word(16, <<Part(Sensor.REG04, 0, 2, 0), All(Sensor.AEC, 2), Part(Sensor.REG45, 0, 6, 10)>>)
frame_exposure_pre_charge_row_number == Word(8, <<All(Sensor.REG08, 0)>>)
mode == Flag(Sensor.COM2, 4)
power_reset_pin_remap == Flag(Sensor.COM2, 2)
output_drive == Enum(Sensor.COM2, 0, 2, 0 .. 3)
band == Flag(Sensor.COM3, 2)
auto_band == Flag(Sensor.COM3, 1)
live_video_after_snapshot == Flag(Sensor.COM3, 0)
clock_output_power_down_pin_status == Flag(Sensor.COM4, 2)
clock_rate_double == Flag(Sensor.CLKRC, 7)
clock_divider == Word(6, <<Part(Sensor.CLKRC, 0, 6, 0)>>)
resolution == Enum(Sensor.COM7, 4, 3, {0, 1, 4})
zoom == Flag(Sensor.COM7, 2)
color_bar_test == Flag(Sensor.COM7, 1)
band_filter == Flag(Sensor.COM8, 5)
agc_control == Flag(Sensor.COM8, 2)
exposure_control == Flag(Sensor.COM8, 0)
agc_gain_ceiling == Enum(Sensor.COM9, 5, 3, 0 .. 6)
chsync_href_swap == Flag(Sensor.COM10, 7)
href_chsync_swap == Flag(Sensor.COM10, 6)
pclk_output_qualified_by_href == Flag(Sensor.COM10, 5)
pclk_edge == Flag(Sensor.COM10, 4)
href_polarity == Flag(Sensor.COM10, 3)
vsync_polarity == Flag(Sensor.COM10, 1)
hsync_polarity == Flag(Sensor.COM10, 0)
luminance_signal_high_range == Word(8, <<All(Sensor.AEW, 0)>>)
luminance_signal_low_range == Word(8, <<All(Sensor.AEB, 0)>>)
\* The two thresholds are the bytes of one value, the high one 15 .. 8; of each four
\* bits are accepted, and they share one register.
fast_mode_large_step_range ==
  Checked((0 .. 3) \cup (8 .. 11),
    <<[reg |-> Sensor.VV, takes |-> [b \in 0 .. 7 |-> IF b < 4 THEN b ELSE b + 4]]>>)
line_interval_adjust == Word(12, <<Part(Sensor.REG2A, 4, 4, 8), All(Sensor.FRARL, 0)>>)
hsync_position_and_width_end_point == Word(10, <<Part(Sensor.REG2A, 2, 2, 8), All(Sensor.HEDY, 0)>>)
hsync_position_and_width_start_point ==
  Word(10, <<Part(Sensor.REG2A, 0, 2, 8), All(Sensor.HSDY, 0)>>)
vsync_pulse_width == Word(16, <<All(Sensor.ADDVSL, 0), All(Sensor.ADDVSH, 8)>>)
luminance_average == Word(8, <<All(Sensor.YAVG, 0)>>)
horizontal_window_start == Word(11, <<Part(Sensor.REG32, 0, 3, 0), All(Sensor.HREFST, 3)>>)
horizontal_window_end == Word(11, <<Part(Sensor.REG32, 3, 3, 0), All(Sensor.HREFEND, 3)>>)
pclk == Enum(Sensor.REG32, 6, 2, 0 .. 2)
zoom_window_horizontal_start_point == Flag(Sensor.ARCOM2, 2)
\* Ten bits are accepted, but the second register is written and read whole.
frame_length_adjustment == Word(10, <<All(Sensor.FLL, 0), All(Sensor.FLH, 8)>>)
zoom_mode_vertical_window_start_point ==
  Word(10, <<Part(Sensor.COM19, 0, 2, 0), All(Sensor.ZOOMS, 2)>>)
flash_light == Word(8, <<All(Sensor.COM22, 0)>>)
banding_aec_50hz == Word(10, <<Part(Sensor.COM25, 6, 2, 8), All(Sensor.BD50, 0)>>)
banding_aec_60hz == Word(10, <<Part(Sensor.COM25, 4, 2, 8), All(Sensor.BD60, 0)>>)
average_weight_option_16_zone ==
  Word(32, <<All(Sensor.REG5D, 0), All(Sensor.REG5E, 8), All(Sensor.REG5F, 16), All(Sensor.REG60, 24)>>)
histogram_algorithm_low_level == Word(8, <<All(Sensor.HISTO_LOW, 0)>>)
histogram_algorithm_high_level == Word(8, <<All(Sensor.HISTO_HIGH, 0)>>)

\* The signal processor: output format, modules and scaling.
dsp_bypass == Flag(Dsp.R_BYPASS, 0)
auto_mode == Flag(Dsp.R_DVP_SP, 7)
dvp_pclk == Word(7, <<Part(Dsp.R_DVP_SP, 0, 7, 0)>>)
dvp_y8 == Flag(Dsp.IMAGE_MODE, 6)
jpeg_output == Flag(Dsp.IMAGE_MODE, 4)
dvp_output_format == Enum(Dsp.IMAGE_MODE, 2, 2, 0 .. 2)
dvp_jpeg_output_href_timing == Flag(Dsp.IMAGE_MODE, 1)
byte_swap == Flag(Dsp.IMAGE_MODE, 0)
Reset(type) == Flag(Dsp.RESET, type)
sccb_master_speed == Word(8, <<All(Dsp.MS_SP, 0)>>)
sccb_slave_id == Word(8, <<All(Dsp.SS_ID, 0)>>)
address_auto_increase == Flag(Dsp.SS_CTRL, 5)
sccb == Flag(Dsp.SS_CTRL, 3)
sccb_master_clock_delay == Flag(Dsp.SS_CTRL, 2)
sccb_master_access == Flag(Dsp.SS_CTRL, 1)
sensor_pass_through_access == Flag(Dsp.SS_CTRL, 0)
Bist(type) == Flag(Dsp.MC_BIST, type)
program_memory_pointer_address == Word(16, <<All(Dsp.MC_AL, 0), All(Dsp.MC_AH, 8)>>)
program_memory_pointer_access_address == Word(8, <<All(Dsp.MC_D, 0)>>)
sccb_protocol_command == Word(8, <<All(Dsp.P_CMD, 0)>>)
sccb_protocol_status == Word(8, <<All(Dsp.P_STATUS, 0)>>)
cip == Flag(Dsp.CTRL1, 7)
dmy == Flag(Dsp.CTRL1, 6)
raw_gma == Flag(Dsp.CTRL1, 5)
dg == Flag(Dsp.CTRL1, 4)
awb == Flag(Dsp.CTRL1, 3)
awb_gain == Flag(Dsp.CTRL1, 2)
lenc == Flag(Dsp.CTRL1, 1)
pre == Flag(Dsp.CTRL1, 0)
aec_enable == Flag(Dsp.CTRL0, 7)
aec_sel == Flag(Dsp.CTRL0, 6)
stat_sel == Flag(Dsp.CTRL0, 5)
vfirst == Flag(Dsp.CTRL0, 4)
yuv422 == Flag(Dsp.CTRL0, 3)
yuv == Flag(Dsp.CTRL0, 2)
rgb == Flag(Dsp.CTRL0, 1)
raw == Flag(Dsp.CTRL0, 0)
dcw == Flag(Dsp.CTRL2, 5)
sde == Flag(Dsp.CTRL2, 4)
uv_adj == Flag(Dsp.CTRL2, 3)
uv_avg == Flag(Dsp.CTRL2, 2)
cmx == Flag(Dsp.CTRL2, 0)
bpc == Flag(Dsp.CTRL3, 7)
wpc == Flag(Dsp.CTRL3, 6)
sde_indirect_register_address == Word(8, <<All(Dsp.BPADDR, 0)>>)
sde_indirect_register_data == Word(8, <<All(Dsp.BPDATA, 0)>>)
image_horizontal ==
  Word(12, <<[reg |-> Dsp.SIZEL, takes |-> [b \in 3 .. 6 |-> IF b = 6 THEN 11 ELSE b - 3]],
             All(Dsp.HSIZE8, 3)>>)
image_vertical == Word(11, <<Part(Dsp.SIZEL, 0, 3, 0), All(Dsp.VSIZE8, 3)>>)
quantization_scale_factor == Word(8, <<All(Dsp.QS, 0)>>)
lp_dp == Flag(Dsp.CTRLI, 7)
round == Flag(Dsp.CTRLI, 6)
vertical_divider == Word(3, <<Part(Dsp.CTRLI, 3, 3, 0)>>)
horizontal_divider == Word(3, <<Part(Dsp.CTRLI, 0, 3, 0)>>)
horizontal_size == Word(10, <<Part(Dsp.TEST, 7, 1, 9), Part(Dsp.VHYX, 3, 1, 8), All(Dsp.HSIZE, 0)>>)
vertical_size == Word(9, <<Part(Dsp.VHYX, 7, 1, 8), All(Dsp.VSIZE, 0)>>)
offset_x == Word(11, <<Part(Dsp.VHYX, 0, 3, 8), All(Dsp.XOFFL, 0)>>)
offset_y == Word(11, <<Part(Dsp.VHYX, 4, 3, 8), All(Dsp.YOFFL, 0)>>)
dp_selx == Word(4, <<Part(Dsp.DPRP, 0, 4, 0)>>)
dp_sely == Word(4, <<Part(Dsp.DPRP, 4, 4, 0)>>)
output_width == Word(10, <<Part(Dsp.ZMHH, 0, 2, 8), All(Dsp.ZMOW, 0)>>)
output_height == Word(9, <<Part(Dsp.ZMHH, 2, 1, 8), All(Dsp.ZMOH, 0)>>)
zoom_speed == Word(4, <<Part(Dsp.ZMHH, 4, 4, 0)>>)

(***************************************************************************)
(* Every setting by its name.                                              *)
(***************************************************************************)
Settings ==
  [agc_gain |-> agc_gain, dummy_frame |-> dummy_frame,
   vertical_window_line_start |-> vertical_window_line_start,
   vertical_window_line_end |-> vertical_window_line_end, horizontal_mirror |-> horizontal_mirror,
   vertical_flip |-> vertical_flip, aec |-> aec,
   frame_exposure_pre_charge_row_number |-> frame_exposure_pre_charge_row_number, mode |-> mode,
   power_reset_pin_remap |-> power_reset_pin_remap, output_drive |-> output_drive, band |-> band,
   auto_band |-> auto_band, live_video_after_snapshot |-> live_video_after_snapshot,
   clock_output_power_down_pin_status |-> clock_output_power_down_pin_status,
   clock_rate_double |-> clock_rate_double, clock_divider |-> clock_divider,
   resolution |-> resolution, zoom |-> zoom, color_bar_test |-> color_bar_test,
   band_filter |-> band_filter, agc_control |-> agc_control,
   exposure_control |-> exposure_control, agc_gain_ceiling |-> agc_gain_ceiling,
   chsync_href_swap |-> chsync_href_swap, href_chsync_swap |-> href_chsync_swap,
   pclk_output_qualified_by_href |-> pclk_output_qualified_by_href, pclk_edge |-> pclk_edge,
   href_polarity |-> href_polarity, vsync_polarity |-> vsync_polarity,
   hsync_polarity |-> hsync_polarity, luminance_signal_high_range |-> luminance_signal_high_range,
   luminance_signal_low_range |-> luminance_signal_low_range,
   fast_mode_large_step_range |-> fast_mode_large_step_range,
   line_interval_adjust |-> line_interval_adjust,
   hsync_position_and_width_end_point |-> hsync_position_and_width_end_point,
   hsync_position_and_width_start_point |-> hsync_position_and_width_start_point,
   vsync_pulse_width |-> vsync_pulse_width, luminance_average |-> luminance_average,
   horizontal_window_start |-> horizontal_window_start,
   horizontal_window_end |-> horizontal_window_end, pclk |-> pclk,
   zoom_window_horizontal_start_point |-> zoom_window_horizontal_start_point,
   frame_length_adjustment |-> frame_length_adjustment,
   zoom_mode_vertical_window_start_point |-> zoom_mode_vertical_window_start_point,
   flash_light |-> flash_light, banding_aec_50hz |-> banding_aec_50hz,
   banding_aec_60hz |-> banding_aec_60hz,
   average_weight_option_16_zone |-> average_weight_option_16_zone,
   histogram_algorithm_low_level |-> histogram_algorithm_low_level,
   histogram_algorithm_high_level |-> histogram_algorithm_high_level, dsp_bypass |-> dsp_bypass,
   auto_mode |-> auto_mode, dvp_pclk |-> dvp_pclk, dvp_y8 |-> dvp_y8, jpeg_output |-> jpeg_output,
   dvp_output_format |-> dvp_output_format,
   dvp_jpeg_output_href_timing |-> dvp_jpeg_output_href_timing, byte_swap |-> byte_swap,
   reset_microcontroller |-> Reset(6), reset_sccb |-> Reset(5), reset_jpeg |-> Reset(4),
   reset_dvp |-> Reset(2), reset_ipu |-> Reset(1), reset_cif |-> Reset(0),
   sccb_master_speed |-> sccb_master_speed, sccb_slave_id |-> sccb_slave_id,
   address_auto_increase |-> address_auto_increase, sccb |-> sccb,
   sccb_master_clock_delay |-> sccb_master_clock_delay, sccb_master_access |-> sccb_master_access,
   sensor_pass_through_access |-> sensor_pass_through_access,
   bist_microcontroller_reset |-> Bist(7), bist_boot_rom |-> Bist(6),
   bist_rw_1_error_12k_byte |-> Bist(5), bist_rw_0_error_12k_byte |-> Bist(4),
   bist_rw_1_error_512_byte |-> Bist(3), bist_rw_0_error_512_byte |-> Bist(2),
   bist_busy_or_shot_reset |-> Bist(1), bist_launch |-> Bist(0),
   program_memory_pointer_address |-> program_memory_pointer_address,
   program_memory_pointer_access_address |-> program_memory_pointer_access_address,
   sccb_protocol_command |-> sccb_protocol_command, sccb_protocol_status |-> sccb_protocol_status,
   cip |-> cip, dmy |-> dmy, raw_gma |-> raw_gma, dg |-> dg, awb |-> awb, awb_gain |-> awb_gain,
   lenc |-> lenc, pre |-> pre, aec_enable |-> aec_enable, aec_sel |-> aec_sel,
   stat_sel |-> stat_sel, vfirst |-> vfirst, yuv422 |-> yuv422, yuv |-> yuv, rgb |-> rgb,
   raw |-> raw, dcw |-> dcw, sde |-> sde, uv_adj |-> uv_adj, uv_avg |-> uv_avg, cmx |-> cmx,
   bpc |-> bpc, wpc |-> wpc, sde_indirect_register_address |-> sde_indirect_register_address,
   sde_indirect_register_data |-> sde_indirect_register_data,
   image_horizontal |-> image_horizontal, image_vertical |-> image_vertical,
   quantization_scale_factor |-> quantization_scale_factor, lp_dp |-> lp_dp, round |-> round,
   vertical_divider |-> vertical_divider, horizontal_divider |-> horizontal_divider,
   horizontal_size |-> horizontal_size, vertical_size |-> vertical_size, offset_x |-> offset_x,
   offset_y |-> offset_y, dp_selx |-> dp_selx, dp_sely |-> dp_sely, output_width |-> output_width,
   output_height |-> output_height, zoom_speed |-> zoom_speed]

(***************************************************************************)
(* The effects: fixed bytes written one after the other to the signal      *)
(* processor, most of them through its pair of an indirect address and     *)
(* its data.                                                               *)
(***************************************************************************)
Write(address, byte) == [reg |-> <<"dsp", address>>, byte |-> Bits(byte)]

Light(red, green, blue) ==
  <<Write(\hC7, \h40), Write(\hCC, red), Write(\hCD, green), Write(\hCE, blue)>>

\* The signal processor's indirect address, then data, then the next pair.
Indirect(first, block, second) ==
  <<Write(\h7C, 0), Write(\h7D, first), Write(\h7C, block), Write(\h7D, second)>>

Saturation(level) == Append(Indirect(2, 3, level), Write(\h7D, level))

Brightness(level) == Append(Indirect(4, 9, level), Write(\h7D, 0))

Contrast(gain, offset) ==
  Indirect(4, 7, \h20) \o <<Write(\h7D, gain), Write(\h7D, offset), Write(\h7D, 6)>>

Special(control, u, v) == Append(Indirect(control, 5, u), Write(\h7D, v))

light_auto   == <<Write(\hC7, 0)>>
light_sunny  == Light(\h5E, \h41, \h54)
light_cloudy == Light(\h65, \h41, \h4F)
light_office == Light(\h52, \h41, \h66)
light_home   == Light(\h42, \h3F, \h71)

saturation_positive_2 == Saturation(\h68)
saturation_positive_1 == Saturation(\h58)
saturation_0          == Saturation(\h48)
saturation_negative_1 == Saturation(\h38)
saturation_negative_2 == Saturation(\h28)

brightness_positive_2 == Brightness(\h40)
brightness_positive_1 == Brightness(\h30)
brightness_0          == Brightness(\h20)
brightness_negative_1 == Brightness(\h10)
brightness_negative_2 == Brightness(\h00)

contrast_positive_2 == Contrast(\h28, \h0C)
contrast_positive_1 == Contrast(\h24, \h16)
contrast_0          == Contrast(\h20, \h20)
contrast_negative_1 == Contrast(\h1C, \h2A)
contrast_negative_2 == Contrast(\h18, \h34)

special_antique     == Special(\h18, \h40, \hA6)
special_bluish      == Special(\h18, \hA0, \h40)
special_greenish    == Special(\h18, \h40, \h40)
special_reddish     == Special(\h18, \h40, \hC0)
special_bw          == Special(\h18, \h80, \h80)
special_negative    == Special(\h40, \h80, \h80)
special_bw_negative == Special(\h58, \h80, \h80)
special_normal      == Special(\h00, \h80, \h80)

Effects ==
  [light_auto |-> light_auto, light_sunny |-> light_sunny, light_cloudy |-> light_cloudy,
   light_office |-> light_office, light_home |-> light_home,
   saturation_positive_2 |-> saturation_positive_2,
   saturation_positive_1 |-> saturation_positive_1, saturation_0 |-> saturation_0,
   saturation_negative_1 |-> saturation_negative_1,
   saturation_negative_2 |-> saturation_negative_2,
   brightness_positive_2 |-> brightness_positive_2,
   brightness_positive_1 |-> brightness_positive_1, brightness_0 |-> brightness_0,
   brightness_negative_1 |-> brightness_negative_1,
   brightness_negative_2 |-> brightness_negative_2, contrast_positive_2 |-> contrast_positive_2,
   contrast_positive_1 |-> contrast_positive_1, contrast_0 |-> contrast_0,
   contrast_negative_1 |-> contrast_negative_1, contrast_negative_2 |-> contrast_negative_2,
   special_antique |-> special_antique, special_bluish |-> special_bluish,
   special_greenish |-> special_greenish, special_reddish |-> special_reddish,
   special_bw |-> special_bw, special_negative |-> special_negative,
   special_bw_negative |-> special_bw_negative, special_normal |-> special_normal]
=============================================================================
