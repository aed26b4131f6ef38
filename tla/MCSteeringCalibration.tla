----------------------- MODULE MCSteeringCalibration -----------------------
(* Calibrations for TLC: encoders and actuators of either sign, with the   *)
(* zero half way and not, with ratios of counts to readings that do and do *)
(* not divide; the potentiometer of the URDF; and a feedback_mode that is  *)
(* neither.                                                                *)
EXTENDS SteeringCalibration

EndsFrom(lefts, rights, zeros) == [left : lefts, right : rights, zero : zeros]

Calibrations(modes, nodes, ranges, actuators, potentiometers, encoders) ==
  [can_interface_name : {"can"}, feedback_mode : modes, encoder_node_id : nodes,
   steering_angle_range : ranges, actuator : actuators, potentiometer : potentiometers,
   encoder : encoders]

NoEnds == EndsFrom({0}, {1}, {0})

EncoderCalibrations ==
  Calibrations({1}, {127}, {0, 1}, EndsFrom({-7, 10}, {-10, 5}, {0}), NoEnds,
               EndsFrom({-2}, {-2, 3, 5}, {1}) \cup EndsFrom({5}, {-4}, {0}))

(* Millivolts as in the URDF; motor counts in thousands, which keeps the   *)
(* products in the integers of TLC.                                        *)
PotentiometerCalibrations ==
  Calibrations({0, 2}, {127}, {1}, EndsFrom({98}, {-99}, {0}),
               EndsFrom({434}, {3959}, {2243}), EndsFrom({-2}, {3}, {1}))

SomeCalibrations == EncoderCalibrations \cup PotentiometerCalibrations

(* Encoder counts inside and outside the calibration, and raw values of    *)
(* the analog input at its ends, inside the calibration and beyond the     *)
(* 20 V.                                                                   *)
SomeReadings == {-2, 0, 1, 2, 4} \cup {-16384, 1837, 3243, 16384, 26844}

SomePositions == {-3, 8}
SomeDemands == {-3525, -1, 3, 20}

=============================================================================
