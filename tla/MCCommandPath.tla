--------------------------- MODULE MCCommandPath ---------------------------
(***************************************************************************)
(* The command path for TLC, with the numbers of vesc_interface.yaml and   *)
(* vesc_driver.yaml (servo positions in thousandths).                      *)
(***************************************************************************)
EXTENDS CommandPath

MCSpeed == {0, 3}
MCAngle == {0, 1}
MCDrives == { [speed |-> 0, steering_angle |-> 0], [speed |-> 3, steering_angle |-> 1] }

MCDrive == { [speed |-> 3, steering_angle |-> 1] }

Still == [toggle |-> FALSE, brake |-> FALSE, stop |-> FALSE, vel |-> 0, steer |-> 0]
MCJoy == { [Still EXCEPT !.toggle = TRUE, !.vel = 1],
           [Still EXCEPT !.vel = -1, !.brake = TRUE],
           [Still EXCEPT !.stop = TRUE] }

MCSpeedGain == -1660
MCSpeedLimit == [lower |-> -10000, upper |-> 5000]
MCServoLimit == [lower |-> 285, upper |-> 715]
MCBrakeLimit == [lower |-> -20, upper |-> 20]

MCDeployments ==
  { {"estop_node", "send_cmd"},
    {"estop_node", "send_cmd", "vesc_interface_restart"},
    {"estop_node", "estop_node_restart"},
    {"joy_listener"},
    {"stop_near_obs", "navigation"},
    {"send_cmd", "vesc_boot"} }

MCKillSwitch ==
  { {"estop_node", "send_cmd"}, {"estop_node", "estop_node_restart"} }
MCTwoStoppers == { {"estop_node", "joy_listener"} }
=============================================================================
