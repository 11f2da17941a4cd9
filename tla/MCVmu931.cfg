SPECIFICATION FairSpec
CONSTANTS
  Streams <- MCStreams
  ImuStreams <- MCImuStreams
  Enabled <- MCImuStreams
  AskPatience = 0
  SetPatience = 1
  Silence = 1
  LineSize = 2
  MaxResets = 1
INVARIANTS
  TypeOK
  SetUnlessOvertaken
PROPERTIES
  SettingEnds
  ImuComesBack
