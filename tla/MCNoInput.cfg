SPECIFICATION Spec
CONSTANTS
  Speed <- MCSpeed
  Angle <- MCAngle
  Drives <- MCDrives
  Joy <- MCJoy
  SpeedGain <- MCSpeedGain
  SpeedOffset = 0
  SteeringGain = 215
  SteeringOffset = 482
  MotorRate = 4150
  ServoRate = 1311
  speed_limit_ <- MCSpeedLimit
  servo_limit_ <- MCServoLimit
  brake_limit_ <- MCBrakeLimit
  WallClock = 1000
  Deployments <- MCTwoStoppers
  Capacity = 1
  MaxFlips = 2
  MaxRestarts = 1
INVARIANT
  NoInputStops
